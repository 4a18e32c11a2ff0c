-------------------------- MODULE MCApprovalEngine --------------------------
(***************************************************************************)
(* Instances of ApprovalEngine: two managers, an HR manager and a requester *)
(* on chains of up to three steps.                                         *)
(***************************************************************************)
EXTENDS ApprovalEngine

CONSTANTS r1, r2, me, boss, peer, hr, line, team, board, c1, c2

Step(seat, ack, escalates) == [seat |-> seat, ack |-> ack, escalates |-> escalates]
AChain(priority, steps) == [active |-> TRUE, priority |-> priority, steps |-> steps]

OneRequester == [r \in Requests |-> me]
AllMatch == [r \in Requests |-> Chains]
AllReversible == [r \in Requests |-> "reversible"]
OneOfEach == [r \in Requests |-> IF r = r1 THEN "reversible" ELSE "plain"]

\* line: the direct manager; team: two supervisors; board: the HR manager.
Staffed ==
    [s \in Seats |-> CASE s = line -> {boss} [] s = team -> {boss, peer} [] OTHER -> {hr}]
\* The manager's step escalates, the team acknowledges, HR decides.  The team's
\* step is configured to escalate too: a run that makes the seat a NoSkip one
\* sees the engine hold it.
LongChain ==
    [c \in Chains |->
       AChain(0, <<Step(line, FALSE, TRUE), Step(team, TRUE, TRUE), Step(board, FALSE, FALSE)>>)]
ShortChain ==
    [c \in Chains |-> AChain(0, <<Step(team, TRUE, FALSE), Step(board, FALSE, FALSE)>>)]
\* Two chains of one priority both match; escalation may read either.
TwoChains ==
    [c \in Chains |->
       IF c = c1 THEN ShortChain[c]
       ELSE AChain(0, <<Step(line, FALSE, TRUE), Step(board, FALSE, FALSE)>>)]
=============================================================================
