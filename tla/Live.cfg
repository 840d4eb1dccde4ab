\* Planning, effects, deliveries and read-only calls.
SPECIFICATION Spec
CONSTANTS
    Parts = {"Planning", "Effects", "Compensation", "Delivery", "Deliveries", "ReadOnly"}
    None = None
    NoEntitlement = NoEntitlement
    NoWorker = NoWorker
    a1 = a1
    a2 = a2
    b1 = b1
    b2 = b2
    d1 = d1
    d2 = d2
    d3 = d3
    d4 = d4
    d5 = d5
    d6 = d6
    d7 = d7
    d8 = d8
    d9 = d9
SYMMETRY TwoPairs
INVARIANTS
    EffectsAreExact
PROPERTIES
    PlanningIsConsistent
    EffectStepsAreLive
    DeliveryIsExact
    ReadLineageIsSound
CHECK_DEADLOCK FALSE
