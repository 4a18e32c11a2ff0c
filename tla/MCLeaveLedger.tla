--------------------------- MODULE MCLeaveLedger ---------------------------
(* LeaveLedger with three requests of which two share a day. *)
EXTENDS LeaveLedger, TLC

CONSTANTS eid, trip, early

FirstDay == eid :> 1 @@ trip :> 3 @@ early :> 3
LastDay == eid :> 2 @@ trip :> 4 @@ early :> 3
ChargedDays == eid :> 2 @@ trip :> 1 @@ early :> 1
SomeAmounts == {-1, 2}
=============================================================================
