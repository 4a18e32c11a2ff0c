----------------------------- MODULE MCBilling -----------------------------
(***************************************************************************)
(* On the first day two requests, two invoices and two payments interleave; *)
(* on the later ones a single request, invoice and payment meet extensions  *)
(* and the nightly task.  The first payment made is called g1; a second one *)
(* is for the same single overage, beside confirmations alone.  A payment    *)
(* has more than one row where it is the only one, on the first day.        *)
(***************************************************************************)
EXTENDS Billing

CONSTANTS w1, w2, beat, g1, g2

Made == {g \in Charges : charge[g].status # "none"}

InTurn ==
    /\ Made # {} => g1 \in Made
    /\ g2 \in Made => /\ charge[g1].invoice = charge[g2].invoice
                     /\ Cardinality(Used) = 1 /\ invoice[charge[g1].invoice].overage
                     /\ \A w \in Workers : txn[w].op \in {"none", "confirm"}
                     /\ \A g \in Made : charge[g].status # "failed"
    /\ (\E g \in Charges : rows[g] > 1) => /\ today = 1 /\ Made = {g1}
                                          /\ Cardinality(Used) = 1
    /\ IF today = 1 THEN sub.grace = 0
       ELSE /\ Cardinality({w \in Workers : txn[w] # Idle}) <= 1
            /\ Cardinality(Made) <= 1 /\ Cardinality(Used) <= 1
=============================================================================
