SPECIFICATION LeavingSpec
CONSTANTS
    a = a
    b = b
    Nobody = Nobody
    Employees = {a, b}
    Holders = {a, b}
    Months = {1, 2}
    Steps = {}
    InitChain = {}
    Borrowed = 2
    IncludeTerminated = TRUE
CONSTRAINT FewPayslips
INVARIANTS DebtTakenOnce PositionsAreFilled
CHECK_DEADLOCK FALSE
