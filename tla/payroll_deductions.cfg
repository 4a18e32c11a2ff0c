SPECIFICATION DeductionsSpec
CONSTANTS
    a = a
    b = b
    d1 = d1
    Months = {1, 2}
    Employees = {a, b}
    Steps = {1}
    InitChain = {1}
    Days = {d1}
    MonthOf <- InFirst
    OwnerOf <- OfA
    DefaultStatus = "applied"
CONSTRAINT OneExclusion
INVARIANTS DeductionsTypeOK ApprovedAsSigned ChargedOnce SettledWasCharged NothingOpenBehind
PROPERTY ApprovedIsFinal
CHECK_DEADLOCK FALSE
