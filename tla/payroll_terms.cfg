SPECIFICATION TermsSpec
CONSTANTS
    a = a
    retro1 = retro1
    monthly = monthly
    advance = advance
    task = task
    Months = {1, 2, 3}
    Employees = {a}
    Steps = {}
    InitChain = {}
    Retros = {retro1}
    Recurring = {monthly}
    Loans = {advance}
    Activities = {task}
    PayeeOf <- OfA
    PeriodOf <- InFirst
    MaxTimes = 1
    Amount = 3
    Planned = 2
    Installments = 2
CONSTRAINT Bounded
INVARIANTS RetroPaidOnce CountMatchesPayslips RepaidCoversDeducted PaidActivityWasPaid DeferredLineLeaves
CHECK_DEADLOCK FALSE
