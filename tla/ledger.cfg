SPECIFICATION Spec
CONSTANTS
    eid = eid
    trip = trip
    early = early
    Requests = {eid, trip, early}
    First <- FirstDay
    Last <- LastDay
    Days <- ChargedDays
    Tracked = TRUE
    Amounts <- SomeAmounts
    MaxDays = 2
INVARIANTS TypeOK ConsumedIsExplained NoOverlap OverdraftExplained
PROPERTY RefinesLifecycle
