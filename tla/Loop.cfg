\* The agent loop, the workspace, its screens, the calendar and the journal.
SPECIFICATION Spec
CONSTANTS
    Parts = {"AgentLoop", "Workspace", "Screens", "CalendarReads", "EvidenceJournal"}
    None = None
    a1 = a1
    a2 = a2
    b1 = b1
    b2 = b2
    c1 = c1
    c2 = c2
    d1 = d1
    d2 = d2
    d3 = d3
    d4 = d4
SYMMETRY TwoPairs
INVARIANTS
    RunsSettleBeforeDelivery
    ScreensAreIssued
    CalendarPagesVerify
    FactsAreAsDisplayed
PROPERTIES
    WorkspaceShowsTheStore
CHECK_DEADLOCK FALSE
