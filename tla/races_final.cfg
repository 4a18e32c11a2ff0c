SPECIFICATION Spec
CONSTANTS
    t1 = t1
    t2 = t2
    t3 = t3
    boss = boss
    peer = peer
    hr = hr
    Txns = {t1, t2}
    Employees = {boss, peer, hr}
    Rows <- TwoSteps
    AckSteps = {}
    EscalatingSteps = {}
    Operations = {"approve", "reject", "cancel"}
CHECK_DEADLOCK FALSE
PROPERTIES ClosedIsFinal
