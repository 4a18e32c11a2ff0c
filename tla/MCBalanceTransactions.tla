----------------------- MODULE MCBalanceTransactions -----------------------
(***************************************************************************)
(* Two employees, the first of them with a leave; a screen lists both,      *)
(* a payslip the first, a file both in the other order.  A history ends      *)
(* with the first row that is saved from an outdated copy: what follows     *)
(* starts from a wrong row.                                                *)
(***************************************************************************)
EXTENDS BalanceTransactions

CONSTANTS w1, w2, e1, e2, l1

OwnerDef == l1 :> e1
LengthDef == l1 :> 2
PagesDef == {<<e1, e2>>, <<e1>>}
FilesDef == {<<e2, e1>>}

RowsAreRight == late = {}
=============================================================================
