--------------------------- MODULE MCPayrollTerms ---------------------------
(* Three months, of which two are open at a time, with one item of one      *)
(* employee in use, one deferral, and nobody excluded.                      *)
EXTENDS PayrollTerms

CONSTANTS a, retro1, monthly, advance, task

OfA == [x \in Items |-> a]
InFirst == [x \in Retros \cup Activities |-> 1]

InUse == {x \in Retros : retro[x].status # "none"}
      \cup {x \in Recurring : recurring[x].live \/ recurring[x].times > 0}
      \cup {x \in Loans : loan[x].status # "pending"}
      \cup {x \in Activities : activity[x] # "assigned"}
Deferred == {d \in Deferrals : deferral[d].status # "none"}
OpenRuns == {m \in Months : run[m] \notin {"none", "approved"}}

InOrder == \A m, n \in Months : m < n /\ run[n] # "none" => run[m] # "none"

Bounded ==
    /\ excluded = {}
    /\ Cardinality(InUse) <= 1
    /\ Cardinality(Deferred) <= 1
    /\ Cardinality(OpenRuns) <= 2
    /\ InOrder
=============================================================================
