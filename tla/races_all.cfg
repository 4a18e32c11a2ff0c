SPECIFICATION FairSpec
CONSTANTS
    t1 = t1
    t2 = t2
    t3 = t3
    boss = boss
    peer = peer
    hr = hr
    Txns = {t1, t2, t3}
    Employees = {boss, hr}
    Rows <- TwoPeople
    AckSteps = {2}
    EscalatingSteps = {1}
    Operations = {"approve", "reject", "cancel", "escalate"}
CONSTRAINT InOrder
CHECK_DEADLOCK FALSE
INVARIANT StatusHasItsRow
PROPERTIES DecisionsSurviveTheMachine EveryTransactionEnds
