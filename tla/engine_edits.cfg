SPECIFICATION Spec
CONSTANTS
    r1 = r1
    r2 = r2
    me = me
    boss = boss
    peer = peer
    hr = hr
    line = line
    team = team
    board = board
    c1 = c1
    c2 = c2
    Requests = {r1}
    Employees = {me, boss, peer, hr}
    Chains = {c1, c2}
    Seats = {line, team, board}
    NoSkip = {board}
    Unscoped = {}
    Requester <- OneRequester
    Kind <- AllReversible
    Matching <- AllMatch
    Priorities = {0}
    InitChain <- TwoChains
    InitOccupants <- Staffed
    MaxSteps = 3
    MaxEdits = 2
CHECK_DEADLOCK FALSE
INVARIANTS TypeOK PassedStepsClosed LastStepDecided RejectionEndsRequest
PROPERTIES DecidedRowsKept RefinesLifecycle
