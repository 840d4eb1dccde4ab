\* Two runtimes of different sessions; calls go on while their process lives.
SPECIFICATION FairSpec
CONSTANTS
    p1 = p1
    p2 = p2
    r1 = r1
    c1 = c1
    d1 = d1
    m1 = m1
    o1 = o1
    s1 = s1
    s2 = s2
    Runtimes = {p1, p2}
    SessionOf <- MCSessionOf
    RunIds = {r1}
    Continuations = {c1}
    Completions = {d1}
    Malformed = {m1}
    Oversize = {o1}
    MaxTurns = 2
    MaxModelRetries = 1
    MaxHead = 9
    NoWorker = NoWorker
    NoResponse = NoResponse
INVARIANTS
    OneRequestPerTurn
    CustodyIsExact
PROPERTIES
    HistoryIsFinal
    LaneIsReleased
CHECK_DEADLOCK FALSE
