SPECIFICATION Spec
CONSTANTS
    w1 = w1
    w2 = w2
    Days = {1}
    LeaveDays = {1}
    OffDays = {}
    Ranges <- OneDay
    Workers = {w1, w2}
    MaxChanges = 3
INVARIANTS TypeOK StaleDaysExplained
PROPERTY LeaveDaysKept
SYMMETRY Interchangeable
