SPECIFICATION FairSpec
CONSTANTS
    w1 = w1
    w2 = w2
    beat = beat
    g1 = g1
    g2 = g2
    Workers = {w1, w2}
    Beat = beat
    Charges = {g1, g2}
    MaxInvoices = 2
    MaxRows = 2
    Horizon = 3
    Period = 2
    TrialEnd = 1
    GraceDays = 0
    Staff = 2
    Headcounts = {1}
    Extensions = {3}
    Operations = {"confirm", "mark", "activate"}
CONSTRAINT InTurn
CHECK_DEADLOCK FALSE
INVARIANT RaisedOnce
PROPERTIES PaidIsFinal AccessFollowsDates
