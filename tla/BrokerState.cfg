\* The bundle's files and the reads of them.
SPECIFICATION Spec
CONSTANTS
    Parts = {"AuthorityBundle", "AuthorityReads"}
    None = None
    a1 = a1
    a2 = a2
    b1 = b1
    b2 = b2
    d1 = d1
    d2 = d2
    d3 = d3
    d4 = d4
    d5 = d5
    d6 = d6
    d7 = d7
    d8 = d8
    d9 = d9
    Stages = 1
    StageFaults = 0
SYMMETRY Pair
INVARIANTS
    BundleFollowsDecisions
PROPERTIES
    ReadsAreAnchored
CHECK_DEADLOCK FALSE
