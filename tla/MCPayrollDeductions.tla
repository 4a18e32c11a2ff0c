------------------------- MODULE MCPayrollDeductions -------------------------
(* Two months, two employees, an absence in the first month, a chain of one *)
(* step, and one exclusion in force at a time.                              *)
EXTENDS PayrollDeductions

CONSTANTS a, b, d1

InFirst == [d \in Days |-> 1]
OfA == [d \in Days |-> a]

OneExclusion == Cardinality(excluded) <= 1
=============================================================================
