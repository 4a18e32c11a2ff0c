SPECIFICATION FairSpec
CONSTANTS
    r1 = r1
    r2 = r2
    me = me
    boss = boss
    peer = peer
    hr = hr
    line = line
    team = team
    board = board
    c1 = c1
    c2 = c2
    Requests = {r1, r2}
    Employees = {me, boss, peer, hr}
    Chains = {c1}
    Seats = {line, team, board}
    NoSkip = {team, board}
    Unscoped = {}
    Requester <- OneRequester
    Kind <- OneOfEach
    Matching <- AllMatch
    Priorities = {0}
    InitChain <- LongChain
    InitOccupants <- Staffed
    MaxSteps = 3
    MaxEdits = 0
CHECK_DEADLOCK FALSE
INVARIANTS AckHeardByAll NoSkipSeatKept PendingIsActionable
PROPERTIES EventuallyClosed
