----------------------- MODULE MCConcurrentDecisions -----------------------
(***************************************************************************)
(* Two managers on the first step, HR on the second; or the same two       *)
(* people on both.                                                         *)
(***************************************************************************)
EXTENDS ConcurrentDecisions

CONSTANTS t1, t2, t3, boss, peer, hr

TwoSteps == {<<1, boss>>, <<1, peer>>, <<2, hr>>}
TwoPeople == {<<1, boss>>, <<1, hr>>, <<2, boss>>, <<2, hr>>}

\* The transactions are interchangeable: they are numbered by what they do.
Rank == [none |-> 0, approve |-> 1, reject |-> 2, cancel |-> 3, escalate |-> 4]
Follows(t, u) == txn[u].phase = "idle" \/ Rank[txn[t].op] <= Rank[txn[u].op]
InOrder == Follows(t1, t2) /\ Follows(t2, t3) /\ Follows(t1, t3)
=============================================================================
