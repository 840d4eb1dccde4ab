\* The event appender and the generations of the broker, with fairness.
SPECIFICATION FairSpec
CONSTANTS
    Parts = {"AuthorityStore", "BrokerRuntime"}
    None = None
    a1 = a1
    a2 = a2
    b1 = b1
    b2 = b2
    d1 = d1
    d2 = d2
    d3 = d3
    d4 = d4
    d5 = d5
    d6 = d6
    d7 = d7
    d8 = d8
    d9 = d9
    Stages = 1
    StageFaults = 0

INVARIANTS
    AnswersStayTrue
    RepliesArePaired
PROPERTIES
    AcceptedIsAnswered
    RuntimeCallsReturn
CHECK_DEADLOCK FALSE
