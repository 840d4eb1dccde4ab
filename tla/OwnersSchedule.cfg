\* The scheduler's owner and lease domain, and the effects owner three times.
SPECIFICATION Spec
CONSTANTS
    Parts = {"SchedulerOwner", "SchedulerLease", "EffectsOwner", "EffectsEvidence",
             "EffectsMembers"}
    None = None
    a1 = a1
    a2 = a2
    b1 = b1
    b2 = b2
    c1 = c1
    c2 = c2
    d1 = d1
    d2 = d2
    d3 = d3
    d4 = d4
SYMMETRY TwoPairs
INVARIANTS
    OccurrencesAreAccounted
    EffectsStayAccountable
PROPERTIES
    LeaseIsExclusive
CHECK_DEADLOCK FALSE
