\* The dispatch provider, V2 and V3 dispatch, execution and retained calls.
SPECIFICATION Spec
CONSTANTS
    Parts = {"HermeticDispatch", "DispatchV2", "ExecutionOwner", "RetainedCalls"}
    None = None
    a1 = a1
    a2 = a2
    b1 = b1
    b2 = b2
    c1 = c1
    c2 = c2
    d1 = d1
    d2 = d2
    d3 = d3
    d4 = d4
SYMMETRY ThreePairs
INVARIANTS
    
    InventoryIsTheHistory
PROPERTIES
    ProviderJournalsStayInOrder
    DispatchFollowsTheMandate
CHECK_DEADLOCK FALSE
