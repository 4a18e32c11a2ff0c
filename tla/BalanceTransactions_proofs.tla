--------------------- MODULE BalanceTransactions_proofs ---------------------
(***************************************************************************)
(* Proofs about the balance rows, for any number of workers, employees,     *)
(* leaves, screens and files.  A row that a transaction has written stays   *)
(* its own until the commit, so that all it can get wrong is what it copied *)
(* before somebody else's commit; and that the model remembers (missed).    *)
(***************************************************************************)
EXTENDS BalanceTransactions, SequenceTheorems, TLAPS

TxnType ==
    [op : Operations \cup {"none"}, phase : {"idle", "begun", "read", "saved"},
     todo : Seq(Employees), days : Nat, leave : Leaves \cup {"none"}, copy : Row,
     missed : SUBSET Employees, held : SUBSET Employees, wrote : [Employees -> Row]]

RowsTyped ==
    /\ row \in [Employees -> Row]
    /\ \A e \in Employees : row[e].accrued <= due
    /\ leave \in [Leaves -> {"approved", "applied", "revoked"}]
    /\ due \in 0..Horizon
    /\ spent \in [Employees -> Int] /\ paid \in [Employees -> Nat]
    /\ late \subseteq Employees

\* A row is written by one at a time.
Apart == \A w, u \in Workers : w # u => txn[w].held \cap txn[u].held = {}

-----------------------------------------------------------------------------
(* The invariant of one transaction t                                       *)

\* The operations on the row of one employee e.
Single == {"consume", "revoke", "cashout"}
IsOf(t, e) ==
    /\ t.op # "cashout" => t.leave \in Leaves /\ e = Owner[t.leave] /\ t.days > 0
    /\ t.phase \in {"begun", "read"} => t.todo = <<e>> /\ t.held = {}
    /\ t.phase = "saved" => t.held = {e}

Shaped(t) ==
    /\ \A e \in Employees : t.wrote[e].accrued <= due
    /\ t.phase = "idle" => t.held = {}
    /\ t.phase # "idle" => t.op \in Operations
    /\ t.phase \in {"begun", "read"} => t.todo # <<>>
    /\ t.op = "import" => t.phase # "read"
    /\ t.op \in Single => \E e \in Employees : IsOf(t, e)

\* What has changed in the row when the write is saved; a charge comes later.
Delta(t) == IF t.op = "revoke" THEN -t.days ELSE IF t.op = "cashout" THEN t.days ELSE 0

\* What was read of a row that nobody else has committed since is still so,
\* and what was written differs from it by what the operation is about.
Sound(t, rows) ==
    /\ t.phase = "read" => Head(t.todo) \in t.missed \/ t.copy = rows[Head(t.todo)]
    /\ t.op = "cashout" /\ t.phase \in {"begun", "read"} =>
          Head(t.todo) \in t.missed \/ t.days <= Available(rows[Head(t.todo)])
    /\ \A e \in t.held \ t.missed :
          /\ t.wrote[e].consumed = rows[e].consumed + Delta(t)
          /\ t.op = "cashout" => Available(t.wrote[e]) >= 0

BalanceInv ==
    /\ RowsTyped /\ txn \in [Workers -> TxnType] /\ Apart
    /\ \A w \in Workers : Shaped(txn[w]) /\ Sound(txn[w], row)
    /\ ChargesSurvive

LEMMA IdleIsSound == RowsTyped => Idle \in TxnType /\ Shaped(Idle) /\ Sound(Idle, row)
<1> SUFFICES ASSUME RowsTyped PROVE Idle \in TxnType /\ Shaped(Idle) /\ Sound(Idle, row)
  OBVIOUS
<1>1. NoRow \in Row /\ <<>> \in Seq(Employees)
  BY DEF NoRow, Row
<1>2. Idle \in TxnType
  BY <1>1 DEF Idle, TxnType
<1>3. \A e \in Employees : Idle.wrote[e].accrued <= due
  BY DEF Idle, NoRow, RowsTyped
<1> QED BY <1>2, <1>3 DEF Idle, Shaped, Sound, Single

LEMMA BalanceInit == Init => BalanceInv
<1> SUFFICES ASSUME Init PROVE BalanceInv
  OBVIOUS
<1>1. NoRow \in Row /\ NoRow.accrued = 0 /\ NoRow.consumed = 0
  BY DEF NoRow, Row
<1>2. RowsTyped
  BY <1>1, BalanceAssumption DEF Init, RowsTyped
<1>3. Idle.held = {}
  BY DEF Idle
<1> QED BY <1>1, <1>2, <1>3, IdleIsSound DEF Init, BalanceInv, Apart, ChargesSurvive

-----------------------------------------------------------------------------
(* Steps of one worker that commit nothing                                  *)

LEMMA LocalStep ==
    ASSUME BalanceInv, NEW w \in Workers, NEW t, t \in TxnType, Shaped(t), Sound(t, row),
           \A u \in Workers \ {w} : t.held \cap txn[u].held = {},
           txn' = [txn EXCEPT ![w] = t],
           UNCHANGED <<row, leave, due, spent, paid, late>>
    PROVE  BalanceInv'
<1>1. RowsTyped' /\ ChargesSurvive'
  BY DEF BalanceInv, RowsTyped, ChargesSurvive
<1>2. txn' \in [Workers -> TxnType] /\ txn'[w] = t /\ \A u \in Workers \ {w} : txn'[u] = txn[u]
  BY DEF BalanceInv
<1>3. Apart'
  BY <1>2 DEF BalanceInv, Apart
<1>4. ASSUME NEW u \in Workers PROVE Shaped(txn[u])' /\ Sound(txn[u], row)'
  <2>1. Shaped(txn'[u]) /\ Sound(txn'[u], row)
    BY <1>2 DEF BalanceInv
  <2> QED BY <2>1 DEF Shaped, IsOf, Sound
<1> QED BY <1>1, <1>2, <1>3, <1>4 DEF BalanceInv

LEMMA EndsIdle ==
    ASSUME BalanceInv, NEW w \in Workers, txn' = [txn EXCEPT ![w] = Idle],
           UNCHANGED <<row, leave, due, spent, paid, late>>
    PROVE  BalanceInv'
<1>1. Idle \in TxnType /\ Shaped(Idle) /\ Sound(Idle, row)
  BY IdleIsSound DEF BalanceInv
<1>2. Idle.held = {}
  BY DEF Idle
<1> QED BY <1>1, <1>2, LocalStep

LEMMA BeginStep ==
    ASSUME BalanceInv, NEW w \in Workers, Begin(w)
    PROVE  BalanceInv'
<1> USE BalanceAssumption
<1>1. RowsTyped /\ Idle \in TxnType /\ Shaped(Idle) /\ Sound(Idle, row) /\ NoRow \in Row
  <2>1. NoRow \in Row
    BY DEF Row, NoRow
  <2> QED BY <2>1, IdleIsSound DEF BalanceInv
<1>2. ASSUME NEW op \in Operations, NEW todo \in Seq(Employees) \ {<<>>}, NEW days \in Nat,
             NEW r \in Leaves \cup {"none"}, Start(w, op, todo, days, r),
             op \in Single => /\ todo = <<Head(todo)>>
                              /\ op # "cashout" => /\ r \in Leaves /\ Head(todo) = Owner[r]
                                                   /\ days > 0
                              /\ op = "cashout" => days <= Available(row[Head(todo)])
      PROVE  BalanceInv'
  <2> DEFINE t == [Idle EXCEPT !.op = op, !.phase = "begun", !.todo = todo, !.days = days,
                               !.leave = r, !.copy = IF op = "consume" THEN row[Head(todo)]
                                                     ELSE NoRow]
  <2>1. Head(todo) \in Employees
    BY <1>2, HeadTailProperties
  <2>2. /\ t \in TxnType /\ t.op = op /\ t.phase = "begun" /\ t.todo = todo /\ t.days = days
        /\ t.leave = r /\ t.held = {} /\ t.missed = {} /\ t.wrote = Idle.wrote
    <3>1. row[Head(todo)] \in Row
      BY <2>1, <1>1 DEF RowsTyped
    <3> QED BY <3>1, <1>1, <1>2 DEF TxnType, Idle
  <2>3. txn' = [txn EXCEPT ![w] = t] /\ UNCHANGED <<row, leave, due, spent, paid, late>>
    BY <1>2 DEF Start
  <2> HIDE DEF t
  <2>4. op \in Single => IsOf(t, Head(todo))
    BY <1>2, <2>2 DEF IsOf
  <2>5. Shaped(t)
    BY <2>1, <2>2, <2>4, <1>1, <1>2 DEF Shaped
  <2>6. Sound(t, row)
    BY <2>2, <1>2 DEF Sound, Single
  <2> QED BY <2>2, <2>3, <2>5, <2>6, LocalStep
<1>3. /\ Operations = {"screen", "import", "consume", "revoke", "cashout"}
      /\ Single = {"consume", "revoke", "cashout"}
      /\ \A e \in Employees : <<e>> \in Seq(Employees) \ {<<>>} /\ Head(<<e>>) = e
      /\ \A r \in Leaves : Owner[r] \in Employees /\ Length[r] \in Nat /\ Length[r] > 0
  <2>1. \A e \in Employees : <<e>> \in Seq(Employees) \ {<<>>} /\ Head(<<e>>) = e
    OBVIOUS
  <2>2. \A r \in Leaves : Owner[r] \in Employees /\ Length[r] \in Nat /\ Length[r] > 0
    OBVIOUS
  <2> QED BY <2>1, <2>2 DEF Operations, Single
<1>4. ASSUME NEW page \in Pages, BeginScreen(w, page) PROVE BalanceInv'
  BY <1>2, <1>3, <1>4 DEF BeginScreen
<1>5. ASSUME NEW file \in Files, NEW n \in Openings, BeginImport(w, file, n) PROVE BalanceInv'
  BY <1>2, <1>3, <1>5 DEF BeginImport
<1>6. ASSUME NEW r \in Leaves, BeginConsume(w, r) PROVE BalanceInv'
  BY <1>2, <1>3, <1>6 DEF BeginConsume
<1>7. ASSUME NEW r \in Leaves, BeginRevoke(w, r) PROVE BalanceInv'
  BY <1>2, <1>3, <1>7 DEF BeginRevoke
<1>8. ASSUME NEW e \in Employees, NEW n \in Payouts, BeginCashOut(w, e, n) PROVE BalanceInv'
  BY <1>2, <1>3, <1>8 DEF BeginCashOut
<1> QED BY <1>4, <1>5, <1>6, <1>7, <1>8 DEF Begin

LEMMA ReadStep ==
    ASSUME BalanceInv, NEW w \in Workers, ReadRow(w)
    PROVE  BalanceInv'
<1> DEFINE t == [txn[w] EXCEPT !.phase = "read", !.copy = row[Head(txn[w].todo)]]
<1>1. txn[w] \in TxnType /\ Shaped(txn[w]) /\ Sound(txn[w], row) /\ row \in [Employees -> Row]
  BY DEF BalanceInv, RowsTyped
<1>2. /\ txn' = [txn EXCEPT ![w] = t] /\ UNCHANGED <<row, leave, due, spent, paid, late>>
      /\ txn[w].phase = "begun" /\ txn[w].todo # <<>> /\ txn[w].op # "import"
  BY DEF ReadRow, BalanceInv
<1>3. /\ t \in TxnType /\ t.phase = "read" /\ t.copy = row[Head(t.todo)]
      /\ t.op = txn[w].op /\ t.todo = txn[w].todo /\ t.days = txn[w].days /\ t.leave = txn[w].leave
      /\ t.held = txn[w].held /\ t.missed = txn[w].missed /\ t.wrote = txn[w].wrote
  <2>1. Head(txn[w].todo) \in Employees
    BY <1>1, <1>2, HeadTailProperties DEF TxnType
  <2>2. row[Head(txn[w].todo)] \in Row
    BY <2>1, <1>1
  <2> QED BY <2>2, <1>1 DEF TxnType
<1> HIDE DEF t
<1>4. Shaped(t)
  BY <1>1, <1>2, <1>3 DEF Shaped, IsOf
<1>5. Sound(t, row)
  BY <1>1, <1>2, <1>3 DEF Sound, Delta
<1>6. \A u \in Workers \ {w} : t.held \cap txn[u].held = {}
  BY <1>3 DEF BalanceInv, Apart
<1> QED BY <1>2, <1>3, <1>4, <1>5, <1>6, LocalStep

\* What a save writes.
LEMMA WrittenRow ==
    ASSUME BalanceInv, NEW w \in Workers, Ready(w), txn[w].todo # <<>>
    PROVE  LET e == Head(txn[w].todo)
               new == Written(w, e) IN
           /\ e \in Employees /\ new \in Row /\ new.accrued <= due
           /\ e \notin txn[w].missed =>
                /\ new.consumed = row[e].consumed + Delta(txn[w])
                /\ txn[w].op = "cashout" => Available(new) >= 0
<1> DEFINE t == txn[w]
           e == Head(txn[w].todo)
           new == Written(w, e)
<1>1. /\ t \in TxnType /\ Shaped(t) /\ Sound(t, row) /\ row \in [Employees -> Row]
      /\ due \in Nat /\ \A f \in Employees : row[f].accrued <= due
  BY BalanceAssumption DEF BalanceInv, RowsTyped
<1>2. e \in Employees /\ t.copy \in Row /\ t.days \in Nat
  BY <1>1, HeadTailProperties DEF TxnType
<1>3. /\ row[e] \in Row
      /\ row[e].opening \in Nat /\ row[e].accrued \in Nat /\ row[e].consumed \in Int
      /\ t.copy.opening \in Nat /\ t.copy.accrued \in Nat /\ t.copy.consumed \in Int
  BY <1>1, <1>2 DEF Row
<1>4. /\ t.op \in Operations
      /\ t.op # "import" => t.phase = "read"
      /\ t.phase = "read" => e \in t.missed \/ t.copy = row[e]
      /\ t.op = "cashout" => e \in t.missed \/ t.days <= Available(row[e])
  BY <1>1 DEF Ready, Shaped, Sound, Operations
<1> SUFFICES /\ e \in Employees /\ new \in Row /\ new.accrued <= due
             /\ e \notin t.missed =>
                  /\ new.consumed = row[e].consumed + Delta(t)
                  /\ t.op = "cashout" => Available(new) >= 0
  OBVIOUS
<1>0. new = CASE t.op \in {"screen", "consume"} -> Accrued(t.copy)
      [] t.op = "revoke"  -> [row[e] EXCEPT !.consumed = t.copy.consumed - t.days]
      [] t.op = "cashout" -> [row[e] EXCEPT !.consumed = t.copy.consumed + t.days]
      [] t.op = "import"  -> [row[e] EXCEPT !.opening = t.days]
  BY DEF Written
<1> HIDE DEF e, t, new
<1>5. CASE t.op \in {"screen", "consume"}
  <2>1. new = [t.copy EXCEPT !.accrued = due]
    BY <1>0, <1>5 DEF Accrued
  <2>2. new \in Row /\ new.accrued = due /\ new.consumed = t.copy.consumed
    BY <2>1, <1>1, <1>2 DEF Row
  <2>3. Delta(t) = 0 /\ t.op # "cashout"
    BY <1>5 DEF Delta
  <2> QED BY <2>2, <2>3, <1>1, <1>2, <1>3, <1>4, <1>5
<1>6. CASE t.op = "import"
  <2>1. new = [row[e] EXCEPT !.opening = t.days]
    BY <1>0, <1>6
  <2>2. new \in Row /\ new.accrued = row[e].accrued /\ new.consumed = row[e].consumed
    BY <2>1, <1>2, <1>3 DEF Row
  <2>3. Delta(t) = 0 /\ t.op # "cashout"
    BY <1>6 DEF Delta
  <2> QED BY <2>2, <2>3, <1>1, <1>2, <1>3
<1>7. CASE t.op \in {"revoke", "cashout"}
  <2>1. new = [row[e] EXCEPT !.consumed = t.copy.consumed + Delta(t)] /\ Delta(t) \in Int
    <3>1. CASE t.op = "revoke"
      <4>1. Delta(t) = -t.days /\ t.copy.consumed - t.days = t.copy.consumed + (-t.days)
        BY <3>1, <1>2, <1>3 DEF Delta
      <4> QED BY <3>1, <4>1, <1>0, <1>2
    <3>2. CASE t.op = "cashout"
      BY <3>2, <1>0, <1>2 DEF Delta
    <3> QED BY <3>1, <3>2, <1>7
  <2>2. /\ new \in Row /\ new.accrued = row[e].accrued /\ new.opening = row[e].opening
        /\ new.consumed = t.copy.consumed + Delta(t)
    BY <2>1, <1>2, <1>3 DEF Row
  <2>3. e \notin t.missed => t.copy = row[e]
    BY <1>4, <1>7
  <2>4. t.op = "cashout" => Delta(t) = t.days
    BY DEF Delta
  <2>5. e \notin t.missed /\ t.op = "cashout" => Available(new) >= 0
    <3> SUFFICES ASSUME e \notin t.missed, t.op = "cashout" PROVE Available(new) >= 0
      OBVIOUS
    <3>1. t.days <= Available(row[e]) /\ t.copy = row[e] /\ Delta(t) = t.days
      BY <2>3, <2>4, <1>4
    <3> HIDE DEF new
    <3> QED BY <2>2, <3>1, <1>2, <1>3 DEF Available
  <2> QED BY <2>2, <2>3, <2>5, <1>1, <1>2, <1>3
<1> QED BY <1>4, <1>5, <1>6, <1>7 DEF Operations

LEMMA SaveStep ==
    ASSUME BalanceInv, NEW w \in Workers, SaveRow(w)
    PROVE  BalanceInv'
<1> DEFINE o == txn[w]
           e == Head(txn[w].todo)
           t == [o EXCEPT !.wrote[e] = Written(w, e), !.held = o.held \cup {e}, !.copy = NoRow,
                          !.todo = Tail(o.todo),
                          !.phase = IF Len(o.todo) = 1 THEN "saved" ELSE "begun"]
           new == Written(w, e)
<1>1. /\ o \in TxnType /\ Shaped(o) /\ Sound(o, row)
      /\ o.wrote \in [Employees -> Row] /\ o.todo \in Seq(Employees) /\ o.held \in SUBSET Employees
  BY DEF BalanceInv, TxnType
<1>2. /\ Ready(w) /\ o.todo # <<>> /\ Holders(w, e) = {}
      /\ txn' = [txn EXCEPT ![w] = t] /\ UNCHANGED <<row, leave, due, spent, paid, late>>
  <2>1. Ready(w) /\ o.todo # <<>> /\ UNCHANGED <<row, leave, due, spent, paid, late>>
    BY DEF SaveRow
  <2>2. Holders(w, e) = {}
    BY DEF SaveRow
  <2>3. txn' = [txn EXCEPT ![w] = t]
    BY DEF SaveRow
  <2> QED BY <2>1, <2>2, <2>3
<1>3. /\ e \in Employees /\ new \in Row /\ new.accrued <= due
      /\ e \notin o.missed =>
           /\ new.consumed = row[e].consumed + Delta(o)
           /\ o.op = "cashout" => Available(new) >= 0
  BY <1>2, WrittenRow
<1>4. /\ Tail(o.todo) \in Seq(Employees) /\ Len(Tail(o.todo)) = Len(o.todo) - 1
      /\ Len(o.todo) \in Nat /\ (Len(o.todo) = 1 <=> Tail(o.todo) = <<>>)
  <2>1. Tail(o.todo) \in Seq(Employees) /\ Len(Tail(o.todo)) = Len(o.todo) - 1 /\ Len(o.todo) \in Nat
    BY <1>1, <1>2, HeadTailProperties, LenProperties
  <2>2. Len(Tail(o.todo)) = 0 <=> Tail(o.todo) = <<>>
    BY <2>1, EmptySeq
  <2> QED BY <2>1, <2>2
<1> HIDE DEF e, new
<1>5. /\ t \in TxnType /\ t.op = o.op /\ t.days = o.days /\ t.leave = o.leave /\ t.missed = o.missed
      /\ t.phase = (IF Len(o.todo) = 1 THEN "saved" ELSE "begun") /\ t.todo = Tail(o.todo)
      /\ t.held = o.held \cup {e}
      /\ t.wrote = [o.wrote EXCEPT ![e] = new]
  <2>1. NoRow \in Row
    BY DEF NoRow, Row
  <2>2. /\ [o.wrote EXCEPT ![e] = new] \in [Employees -> Row]
        /\ o.held \cup {e} \in SUBSET Employees
    BY <1>1, <1>3
  <2>3. t = [o EXCEPT !.wrote = [o.wrote EXCEPT ![e] = new], !.held = o.held \cup {e}, !.copy = NoRow,
                      !.todo = Tail(o.todo),
                      !.phase = IF Len(o.todo) = 1 THEN "saved" ELSE "begun"]
    BY <1>1 DEF TxnType, new
  <2> HIDE DEF t, o
  <2> QED BY <2>1, <2>2, <2>3, <1>1, <1>4 DEF TxnType
<1> HIDE DEF t
<1>6. /\ o.phase \in {"begun", "read"} /\ t.wrote[e] = new
      /\ \A f \in Employees \ {e} : t.wrote[f] = o.wrote[f]
  BY <1>1, <1>2, <1>3, <1>5 DEF Ready
<1>7. Shaped(t)
  <2>1. t.op \in Single => \E f \in Employees : IsOf(t, f)
    <3> SUFFICES ASSUME t.op \in Single PROVE IsOf(t, e)
      BY <1>3
    <3>1. IsOf(o, e) /\ o.todo = <<e>>
      BY <1>1, <1>5, <1>6 DEF Shaped, IsOf, e
    <3>2. t.held = {e} /\ t.phase = "saved"
      BY <3>1, <1>5, <1>6 DEF IsOf
    <3> QED BY <3>1, <3>2, <1>5 DEF IsOf
  <2>2. \A f \in Employees : t.wrote[f].accrued <= due
    BY <1>1, <1>3, <1>6 DEF Shaped
  <2>3. t.phase \in {"begun", "saved"} /\ (t.phase = "begun" => t.todo # <<>>) /\ t.op \in Operations
    BY <1>1, <1>4, <1>5, <1>6 DEF Shaped
  <2> QED BY <2>1, <2>2, <2>3 DEF Shaped
<1>8. Sound(t, row)
  <2>1. t.phase # "read" /\ Delta(t) = Delta(o)
    BY <1>5 DEF Delta
  <2>2. t.op = "cashout" => t.phase # "begun"
    <3> SUFFICES ASSUME o.op = "cashout" PROVE Len(o.todo) = 1
      BY <1>5
    <3>1. PICK f \in Employees : o.todo = <<f>>
      BY <1>1, <1>6 DEF Shaped, IsOf, Single
    <3> QED BY <3>1
  <2>3. ASSUME NEW f \in t.held \ t.missed
        PROVE  /\ t.wrote[f].consumed = row[f].consumed + Delta(t)
               /\ t.op = "cashout" => Available(t.wrote[f]) >= 0
    <3>1. CASE f = e
      BY <3>1, <2>1, <2>3, <1>3, <1>5, <1>6
    <3>2. CASE f # e
      BY <3>2, <2>1, <2>3, <1>1, <1>5, <1>6 DEF Sound
    <3> QED BY <3>1, <3>2
  <2> QED BY <2>1, <2>2, <2>3 DEF Sound
<1>9. \A u \in Workers \ {w} : t.held \cap txn[u].held = {}
  BY <1>2, <1>5 DEF BalanceInv, Apart, Holders
<1> QED BY <1>2, <1>5, <1>7, <1>8, <1>9, LocalStep

-----------------------------------------------------------------------------
(* Commits                                                                  *)

\* What a commit does to the row of somebody else is noticed by whoever has
\* read it for good.
LEMMA OthersNotice ==
    ASSUME BalanceInv, NEW w \in Workers, NEW rows \in [Employees -> Row], CommitRows(w, rows),
           NEW u \in Workers, u # w
    PROVE  /\ txn'[u] \in TxnType /\ txn'[u].held = txn[u].held
           /\ Shaped(txn'[u]) /\ Sound(txn'[u], row')
<1> DEFINE o == txn[u]
           gone == {e \in Watched(u) : row'[e] # row[e]}
           t == txn'[u]
<1>1. o \in TxnType /\ Shaped(o) /\ Sound(o, row) /\ o.held \cap txn[w].held = {} /\ row \in [Employees -> Row]
  BY DEF BalanceInv, Apart, RowsTyped
<1>2. /\ row' = [e \in Employees |-> IF e \in txn[w].held THEN rows[e] ELSE row[e]]
      /\ t = [o EXCEPT !.missed = o.missed \cup gone]
  BY DEF CommitRows
<1>3. gone \subseteq Employees
  <2>1. o.phase \in {"begun", "read"} => Head(o.todo) \in Employees
    <3>1. o.todo \in Seq(Employees) /\ (o.phase \in {"begun", "read"} => o.todo # <<>>)
      BY <1>1 DEF TxnType, Shaped
    <3> QED BY <3>1, HeadTailProperties
  <2> QED BY <2>1 DEF Watched
<1> HIDE DEF o, gone, t
<1>4. /\ t \in TxnType /\ t.op = o.op /\ t.phase = o.phase /\ t.todo = o.todo /\ t.days = o.days
      /\ t.leave = o.leave /\ t.copy = o.copy /\ t.held = o.held /\ t.wrote = o.wrote
      /\ t.missed = o.missed \cup gone
  BY <1>1, <1>2, <1>3 DEF TxnType
<1>5. Shaped(t)
  BY <1>1, <1>4 DEF Shaped, IsOf
<1>6. \A e \in o.held : e \in Employees /\ row'[e] = row[e]
  BY <1>1, <1>2 DEF TxnType
<1>7. /\ t.phase = "read" => Head(t.todo) \in t.missed \/ t.copy = row'[Head(t.todo)]
      /\ t.op = "cashout" /\ t.phase \in {"begun", "read"} =>
            Head(t.todo) \in t.missed \/ t.days <= Available(row'[Head(t.todo)])
  <2>1. o.phase = "read" \/ (o.op = "cashout" /\ o.phase = "begun") =>
           Head(o.todo) \in gone \/ row'[Head(o.todo)] = row[Head(o.todo)]
    BY DEF Watched, gone, o
  <2> QED BY <2>1, <1>1, <1>4 DEF Sound
<1>8. \A e \in t.held \ t.missed :
        /\ t.wrote[e].consumed = row'[e].consumed + Delta(t)
        /\ t.op = "cashout" => Available(t.wrote[e]) >= 0
  <2>1. Delta(t) = Delta(o)
    BY <1>4 DEF Delta
  <2> QED BY <2>1, <1>1, <1>4, <1>6 DEF Sound
<1>9. Sound(t, row')
  BY <1>7, <1>8 DEF Sound
<1> QED BY <1>4, <1>5, <1>9 DEF t, o

\* A commit that changes what is consumed of its rows by n days.
LEMMA CommitStep ==
    ASSUME BalanceInv, NEW w \in Workers, NEW rows \in [Employees -> Row], CommitRows(w, rows),
           \A e \in Employees : rows[e].accrued <= due,
           NEW n \in Int,
           \A e \in txn[w].held \ txn[w].missed : rows[e].consumed = row[e].consumed + n,
           spent' = [e \in Employees |-> IF e \in txn[w].held THEN spent[e] + n ELSE spent[e]],
           leave' \in [Leaves -> {"approved", "applied", "revoked"}], paid' \in [Employees -> Nat]
    PROVE  BalanceInv'
<1>1. RowsTyped /\ RowsTyped' /\ due' = due
  <2>1. RowsTyped /\ late' \subseteq Employees
    BY DEF BalanceInv, CommitRows, RowsTyped, TxnType
  <2>2. /\ row' \in [Employees -> Row] /\ \A e \in Employees : row'[e].accrued <= due
        /\ due' = due
    BY <2>1 DEF CommitRows, RowsTyped
  <2>3. spent' \in [Employees -> Int]
    BY <2>1 DEF RowsTyped
  <2> QED BY <2>1, <2>2, <2>3 DEF RowsTyped
<1>2. txn'[w] = Idle /\ Idle \in TxnType /\ Shaped(Idle) /\ Sound(Idle, row') /\ Idle.held = {}
  <2>1. Idle \in TxnType /\ Shaped(Idle)
    BY <1>1, IdleIsSound
  <2>2. Sound(Idle, row')
    BY DEF Idle, Sound
  <2> QED BY <2>1, <2>2 DEF CommitRows, Idle
<1>3. \A u \in Workers \ {w} : /\ txn'[u] \in TxnType /\ txn'[u].held = txn[u].held
                               /\ Shaped(txn'[u]) /\ Sound(txn'[u], row')
  BY OthersNotice
<1>4. txn' \in [Workers -> TxnType]
  <2>1. \A u \in Workers : txn'[u] \in TxnType
    BY <1>2, <1>3
  <2>2. txn' = [u \in Workers |-> txn'[u]]
    BY DEF CommitRows
  <2> QED BY <2>1, <2>2
<1>5. Apart'
  BY <1>2, <1>3 DEF BalanceInv, Apart
<1>6. \A u \in Workers : (Shaped(txn[u]) /\ Sound(txn[u], row))'
  <2> SUFFICES ASSUME NEW u \in Workers PROVE Shaped(txn[u])' /\ Sound(txn'[u], row')
    OBVIOUS
  <2>1. Shaped(txn'[u]) /\ Sound(txn'[u], row')
    BY <1>2, <1>3
  <2> QED BY <2>1, <1>1 DEF Shaped, IsOf
<1>7. ChargesSurvive'
  <2> SUFFICES ASSUME NEW e \in Employees, e \notin late' PROVE row'[e].consumed = spent'[e]
    BY DEF ChargesSurvive
  <2>1. row[e].consumed = spent[e] /\ (e \in txn[w].held => e \notin txn[w].missed)
    BY DEF CommitRows, BalanceInv, ChargesSurvive
  <2> QED BY <2>1 DEF CommitRows
<1> QED BY <1>1, <1>4, <1>5, <1>6, <1>7 DEF BalanceInv

\* The transaction that commits, and the row it is about.
LEMMA SavedTxn ==
    ASSUME BalanceInv, NEW w \in Workers, txn[w].phase = "saved"
    PROVE  LET t == txn[w] IN
           /\ t.wrote \in [Employees -> Row] /\ t.held \in SUBSET Employees /\ t.days \in Nat
           /\ \A e \in Employees : t.wrote[e].accrued <= due
           /\ \A e \in t.held \ t.missed :
                 /\ t.wrote[e].consumed = row[e].consumed + Delta(t)
                 /\ t.op = "cashout" => Available(t.wrote[e]) >= 0
           /\ t.op \in {"consume", "revoke"} =>
                 t.leave \in Leaves /\ Owner[t.leave] \in Employees /\ t.held = {Owner[t.leave]} /\ t.days > 0
           /\ t.op = "cashout" => \E e \in Employees : t.held = {e}
           /\ spent \in [Employees -> Int]
<1> DEFINE t == txn[w]
<1>1. t \in TxnType /\ Shaped(t) /\ Sound(t, row) /\ spent \in [Employees -> Int]
  BY DEF BalanceInv, RowsTyped
<1>2. t.wrote \in [Employees -> Row] /\ t.held \in SUBSET Employees /\ t.days \in Nat
  BY <1>1 DEF TxnType
<1>3. /\ t.op \in {"consume", "revoke"} =>
            t.leave \in Leaves /\ Owner[t.leave] \in Employees /\ t.held = {Owner[t.leave]} /\ t.days > 0
      /\ t.op = "cashout" => \E e \in Employees : t.held = {e}
  BY <1>1 DEF Shaped, Single, IsOf
<1> QED BY <1>1, <1>2, <1>3 DEF Shaped, Sound

\* The rows a charge commits.
Charged(w) == LET t == txn[w] IN [t.wrote EXCEPT ![Owner[t.leave]].consumed = @ + t.days]

LEMMA ChargedRows ==
    ASSUME BalanceInv, NEW w \in Workers, Charge(w)
    PROVE  LET t == txn[w]
               e == Owner[t.leave] IN
           /\ Charged(w) \in [Employees -> Row] /\ CommitRows(w, Charged(w))
           /\ \A f \in Employees : Charged(w)[f].accrued <= due
           /\ e \notin t.missed => Charged(w)[e].consumed = row[e].consumed + t.days
           /\ Available(Charged(w)[e]) >= 0
<1> DEFINE t == txn[w]
           e == Owner[t.leave]
<1>1. /\ t.op = "consume" /\ t.phase = "saved" /\ t.days <= Available(t.wrote[e])
      /\ CommitRows(w, Charged(w))
  BY DEF Charge, Charged, Enough
<1>2. /\ t.wrote \in [Employees -> Row] /\ t.days \in Nat /\ e \in Employees /\ t.held = {e}
      /\ \A f \in Employees : t.wrote[f].accrued <= due
      /\ e \notin t.missed => t.wrote[e].consumed = row[e].consumed + Delta(t)
  BY <1>1, SavedTxn
<1>3. Delta(t) = 0 /\ (e \notin t.missed => row[e].consumed \in Int)
  BY <1>1, <1>2 DEF Delta, BalanceInv, RowsTyped, Row
<1> DEFINE old == t.wrote[e]
           new == Charged(w)[e]
<1>4. /\ old \in Row /\ old.opening \in Nat /\ old.accrued \in Nat /\ old.consumed \in Int
  BY <1>2 DEF Row
<1>5. /\ Charged(w) = [t.wrote EXCEPT ![e] = [old EXCEPT !.consumed = old.consumed + t.days]]
  BY DEF Charged
<1> HIDE DEF t, e, old
<1>6. /\ new = [old EXCEPT !.consumed = old.consumed + t.days]
      /\ \A f \in Employees \ {e} : Charged(w)[f] = t.wrote[f]
  BY <1>2, <1>5
<1> HIDE DEF new
<1>7. /\ new \in Row /\ new.accrued = old.accrued /\ new.opening = old.opening
      /\ new.consumed = old.consumed + t.days
  BY <1>2, <1>4, <1>6 DEF Row
<1>8. Charged(w) \in [Employees -> Row]
  <2>1. [old EXCEPT !.consumed = old.consumed + t.days] \in Row
    BY <1>6, <1>7
  <2> QED BY <2>1, <1>2, <1>5
<1>9. Available(new) >= 0
  BY <1>1, <1>2, <1>4, <1>7 DEF Available, old
<1>10. \A f \in Employees : Charged(w)[f].accrued <= due
  BY <1>2, <1>6, <1>7 DEF new, old
<1>11. e \notin t.missed => new.consumed = row[e].consumed + t.days
  BY <1>2, <1>3, <1>7 DEF old
<1> QED BY <1>1, <1>8, <1>9, <1>10, <1>11 DEF t, e, new

LEMMA ChargeStep ==
    ASSUME BalanceInv, NEW w \in Workers, Charge(w)
    PROVE  BalanceInv'
<1> DEFINE t == txn[w]
           e == Owner[t.leave]
<1>1. /\ Charged(w) \in [Employees -> Row] /\ CommitRows(w, Charged(w))
      /\ \A f \in Employees : Charged(w)[f].accrued <= due
      /\ e \notin t.missed => Charged(w)[e].consumed = row[e].consumed + t.days
  BY ChargedRows
<1>2. /\ t.phase = "saved" /\ t.op = "consume" /\ paid' = paid
      /\ spent' = [spent EXCEPT ![e] = @ + t.days]
      /\ leave' = [leave EXCEPT ![t.leave] = "applied"]
  BY DEF Charge
<1>3. t.held = {e} /\ e \in Employees /\ t.days \in Nat /\ spent \in [Employees -> Int]
  BY <1>2, SavedTxn
<1>4. /\ leave' \in [Leaves -> {"approved", "applied", "revoked"}]
      /\ paid' \in [Employees -> Nat]
  BY <1>2 DEF BalanceInv, RowsTyped
<1> HIDE DEF e
<1>5. spent' = [f \in Employees |-> IF f \in t.held THEN spent[f] + t.days ELSE spent[f]]
  BY <1>2, <1>3
<1>6. \A f \in t.held \ t.missed : Charged(w)[f].consumed = row[f].consumed + t.days
  BY <1>1, <1>3
<1>7. t.days \in Int
  BY <1>3
<1> QED BY <1>1, <1>4, <1>5, <1>6, <1>7, CommitStep

LEMMA OtherCommits ==
    ASSUME BalanceInv, NEW w \in Workers, CommitScreen(w) \/ CommitRevoke(w) \/ CommitCashOut(w)
    PROVE  BalanceInv'
<1> DEFINE t == txn[w]
<1>1. t.phase = "saved" /\ CommitRows(w, t.wrote) /\ t.op \in {"screen", "import", "revoke", "cashout"}
  BY DEF CommitScreen, CommitRevoke, CommitCashOut
<1>2. /\ t.wrote \in [Employees -> Row] /\ t.held \in SUBSET Employees /\ t.days \in Nat
      /\ \A e \in Employees : t.wrote[e].accrued <= due
      /\ \A e \in t.held \ t.missed : t.wrote[e].consumed = row[e].consumed + Delta(t)
      /\ spent \in [Employees -> Int]
  BY <1>1, SavedTxn
<1>3. Delta(t) \in Int
  BY <1>2 DEF Delta
<1>4. /\ leave \in [Leaves -> {"approved", "applied", "revoked"}] /\ paid \in [Employees -> Nat]
  BY DEF BalanceInv, RowsTyped
<1>5. /\ leave' \in [Leaves -> {"approved", "applied", "revoked"}] /\ paid' \in [Employees -> Nat]
      /\ spent' = [e \in Employees |-> IF e \in t.held THEN spent[e] + Delta(t) ELSE spent[e]]
  <2>1. CASE CommitScreen(w)
    <3>1. Delta(t) = 0 /\ spent' = spent /\ leave' = leave /\ paid' = paid
      BY <2>1 DEF CommitScreen, Delta
    <3> QED BY <3>1, <1>2, <1>4
  <2>2. CASE CommitRevoke(w)
    <3>1. Delta(t) = -t.days /\ t.held = {Owner[t.leave]} /\ Owner[t.leave] \in Employees
      BY <2>2, SavedTxn DEF CommitRevoke, Delta
    <3>2. /\ leave' = [leave EXCEPT ![t.leave] = "revoked"] /\ paid' = paid
          /\ spent' = [spent EXCEPT ![Owner[t.leave]] = @ - t.days]
      BY <2>2 DEF CommitRevoke
    <3> QED BY <3>1, <3>2, <1>2, <1>4
  <2>3. CASE CommitCashOut(w)
    <3>1. Delta(t) = t.days /\ leave' = leave
      BY <2>3 DEF CommitCashOut, Delta
    <3>2. PICK e \in t.held : /\ spent' = [spent EXCEPT ![e] = @ + t.days]
                              /\ paid' = [paid EXCEPT ![e] = @ + t.days]
      BY <2>3 DEF CommitCashOut
    <3>3. t.held = {e} /\ e \in Employees
      <4>1. PICK f \in Employees : t.held = {f}
        BY <2>3, SavedTxn DEF CommitCashOut
      <4> QED BY <4>1, <3>2
    <3>4. t.days \in Nat /\ paid[e] + t.days \in Nat
      BY <3>3, <1>2, <1>4
    <3> HIDE DEF t
    <3>5. paid' \in [Employees -> Nat]
      BY <3>2, <3>4, <1>4
    <3>6. spent' = [f \in Employees |-> IF f \in t.held THEN spent[f] + Delta(t) ELSE spent[f]]
      BY <3>1, <3>2, <3>3, <1>2
    <3> QED BY <3>1, <3>5, <3>6, <1>4
  <2> QED BY <2>1, <2>2, <2>3
<1> HIDE DEF t
<1>6. CommitRows(w, t.wrote)
  BY <1>1
<1> QED BY <1>2, <1>3, <1>5, <1>6, CommitStep DEF t

-----------------------------------------------------------------------------
LEMMA BalanceInvPreserved == ASSUME BalanceInv, [Next]_vars PROVE BalanceInv'
<1>1. CASE NewDay
  <2>1. /\ \A w \in Workers : txn[w] = Idle
        /\ due' = due + 1 /\ due < Horizon /\ UNCHANGED <<row, leave, txn, spent, paid, late>>
    BY <1>1 DEF NewDay
  <2>2. RowsTyped'
    <3>1. due \in 0..Horizon /\ due' \in 0..Horizon
      BY <2>1, BalanceAssumption DEF BalanceInv, RowsTyped
    <3>2. \A e \in Employees : row[e].accrued \in Nat /\ row[e].accrued <= due
      BY DEF BalanceInv, RowsTyped, Row
    <3> QED BY <2>1, <3>1, <3>2, BalanceAssumption DEF BalanceInv, RowsTyped
  <2>3. (RowsTyped => Idle \in TxnType /\ Shaped(Idle) /\ Sound(Idle, row))'
    BY IdleIsSound, PTL
  <2>4. ASSUME NEW w \in Workers PROVE (Shaped(txn[w]) /\ Sound(txn[w], row))'
    <3>1. txn'[w] = Idle
      BY <2>1
    <3> QED BY <2>2, <2>3, <3>1 DEF Shaped, IsOf, Sound
  <2> QED BY <2>1, <2>2, <2>4 DEF BalanceInv, Apart, ChargesSurvive
<1>2. ASSUME NEW w \in Workers, Refuse(w) \/ DeadlockAbort(w) \/ Crash(w)
      PROVE  BalanceInv'
  BY <1>2, EndsIdle DEF Refuse, DeadlockAbort, Crash
<1>3. CASE UNCHANGED vars
  <2>1. RowsTyped' /\ ChargesSurvive' /\ Apart'
    BY <1>3 DEF vars, BalanceInv, RowsTyped, ChargesSurvive, Apart
  <2> QED BY <1>3, <2>1 DEF vars, BalanceInv, Shaped, IsOf
<1> QED BY <1>1, <1>2, <1>3, BeginStep, ReadStep, SaveStep, ChargeStep, OtherCommits DEF Next, Step

LEMMA BalanceInvariant == Spec => []BalanceInv
BY BalanceInit, BalanceInvPreserved, PTL DEF Spec

\* Nothing is accrued ahead of time, and no row is written by two at once.
THEOREM BalancesTyped == Spec => []TypeOK
<1>1. BalanceInv => TypeOK
  BY DEF BalanceInv, RowsTyped, TypeOK, TxnType, Apart
<1> QED BY <1>1, BalanceInvariant, PTL

\* consume, revoke, cash_out, accrue, import_balances.execute: every charge,
\* payout and restoration is in the row, unless somebody saved the row who had
\* read it before another's commit.
THEOREM ChargesAreNotLost == Spec => []ChargesSurvive
<1>1. BalanceInv => ChargesSurvive
  BY DEF BalanceInv
<1> QED BY <1>1, BalanceInvariant, PTL

LEMMA ChargesStayWithin ==
    ASSUME BalanceInv, [Next]_vars, NEW e \in Employees,
           row'[e].consumed > row[e].consumed, e \notin late'
    PROVE  Available(row'[e]) >= 0
<1>1. row[e].consumed \in Int /\ ~(row[e].consumed > row[e].consumed)
  BY DEF BalanceInv, RowsTyped, Row
<1>2. PICK w \in Workers : Charge(w) \/ CommitScreen(w) \/ CommitRevoke(w) \/ CommitCashOut(w)
  <2>1. row' # row
    BY <1>1
  <2> QED BY <2>1 DEF Next, NewDay, Begin, BeginScreen, BeginImport, BeginConsume, BeginRevoke,
          BeginCashOut, Start, Step, ReadRow, SaveRow, Refuse, DeadlockAbort, Crash, vars
<1> DEFINE t == txn[w]
<1>3. CASE Charge(w)
  <2>1. CommitRows(w, Charged(w)) /\ Available(Charged(w)[Owner[t.leave]]) >= 0
    BY <1>3, ChargedRows
  <2>2. t.held = {Owner[t.leave]}
    BY <1>3, SavedTxn DEF Charge
  <2> QED BY <2>1, <2>2, <1>1 DEF CommitRows
<1>4. CASE CommitScreen(w) \/ CommitRevoke(w) \/ CommitCashOut(w)
  <2>1. CommitRows(w, t.wrote) /\ t.phase = "saved" /\ t.op \in {"screen", "import", "revoke", "cashout"}
    BY <1>4 DEF CommitScreen, CommitRevoke, CommitCashOut
  <2>2. e \in t.held /\ e \notin t.missed /\ row'[e] = t.wrote[e]
    BY <2>1, <1>1 DEF CommitRows
  <2>3. /\ t.wrote[e].consumed = row[e].consumed + Delta(t) /\ t.days \in Nat
        /\ t.op = "cashout" => Available(t.wrote[e]) >= 0
    BY <2>1, <2>2, SavedTxn
  <2>4. t.op = "cashout"
    <3>1. t.op # "cashout" => Delta(t) = 0 \/ Delta(t) = -t.days
      BY DEF Delta
    <3> HIDE DEF t
    <3> QED BY <3>1, <2>2, <2>3, <1>1
  <2> QED BY <2>2, <2>3, <2>4
<1> QED BY <1>2, <1>3, <1>4

\* consume, cash_out: with the same exception, what raises the consumption of a
\* row leaves days available.
THEOREM ChargesWithinAvailable == Spec => ChargedWithinAvailable
<1>1. BalanceInv /\ [Next]_vars =>
         [\A e \in Employees :
             row'[e].consumed > row[e].consumed => Available(row'[e]) >= 0 \/ e \in late']_vars
  BY ChargesStayWithin
<1> QED BY <1>1, BalanceInvariant, PTL DEF Spec, ChargedWithinAvailable
=============================================================================
