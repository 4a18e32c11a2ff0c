--------------------------- MODULE MCEndOfService ---------------------------
(* Two employees who hold positions and may each name the other.  Once     *)
(* there is a run, one of them is paid, and the other may have left in the  *)
(* first month, so that a settlement of that month may come to pay both.    *)
EXTENDS EndOfService

CONSTANTS a, b

PayBegun == (\E m \in Months : run[m] # "none") \/ (\E k \in Settlements : Exists(k))

FewPayslips ==
    /\ excluded = {}
    /\ \A m, n \in Months : m < n /\ run[n] # "none" => run[m] # "none"
    /\ \A m \in Months : b \notin slips[m] /\ ~Exists(<<b, m>>)
    /\ PayBegun => /\ \A e \in Employees : asked[e] = NotAsked
                   /\ change[b].status # "pending"
                   /\ successor[b] = Nobody
                   /\ end[b] # 2
=============================================================================
