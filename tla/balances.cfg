SPECIFICATION FairSpec
CONSTANTS
    w1 = w1
    w2 = w2
    e1 = e1
    e2 = e2
    l1 = l1
    Workers = {w1, w2}
    Employees = {e1, e2}
    Leaves = {l1}
    Owner <- OwnerDef
    Length <- LengthDef
    Pages <- PagesDef
    Files <- FilesDef
    Openings = {1}
    Payouts = {1}
    MaxPaid = 1
    Horizon = 2
CONSTRAINT RowsAreRight
CHECK_DEADLOCK FALSE
INVARIANTS ChargesSurvive
PROPERTIES ChargedWithinAvailable EveryRequestEnds
