\* The scheduler, native ingress, the custody of receipts, the deadlines of classes
\* and the retained source.
SPECIFICATION Spec
CONSTANTS
    Parts = {"Scheduler", "NativeIngress", "IngressFairness", "RetainedSource",
             "IngressCustody"}
    None = None
    NoEntitlement = NoEntitlement
    NoWorker = NoWorker
    a1 = a1
    a2 = a2
    b1 = b1
    b2 = b2
    d1 = d1
    d2 = d2
    d3 = d3
    d4 = d4
    d5 = d5
    d6 = d6
    d7 = d7
    d8 = d8
    d9 = d9
SYMMETRY TwoPairs
INVARIANTS
    CustodyLosesNothing
    ScheduledWorkIsDisposedOnce
    AckIsSelectedCustody
    DeadlinesHold
    OneTransferIdentity
CHECK_DEADLOCK FALSE
