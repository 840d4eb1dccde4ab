---------------------------- MODULE MCCapabilities ----------------------------
(***************************************************************************)
(* The capabilities, side by side: the owners of schedules, effects and    *)
(* executions, the agent loop and what it reads.  Each is checked on its   *)
(* own, so a behaviour exercises one of them: part says which, and v1, v2, *)
(* ... are its variables in the order of its module.                       *)
(***************************************************************************)
EXTENDS Naturals, Sequences, FiniteSets, TLC

CONSTANTS
    Parts,                   \* the parts a run exercises
    None,
    a1, a2, b1, b2, c1, c2,  \* three pairs of interchangeable values
    d1, d2, d3, d4           \* values that are not interchangeable

VARIABLES part, v1, v2, v3, v4, v5, v6, v7, v8, v9, v10

vars == <<part, v1, v2, v3, v4, v5, v6, v7, v8, v9, v10>>

A == {a1, a2}
B == {b1, b2}
C == {c1, c2}
TwoPairs == Permutations(A) \cup Permutations(B)
ThreePairs == TwoPairs \cup Permutations(C)
-----------------------------------------------------------------------------
(* Two clients, two definitions and two bounds.  The small bound admits one *)
(* member and the large one every interval of the instance.                 *)
Definitions == {[start |-> 1, period |-> 2, end |-> 0], [start |-> 0, period |-> 3, end |-> 4]}
Policies == {"SKIP", "COALESCE", "MATERIALIZE_EACH"}
Bounds == {[members |-> 2, manifest |-> 1, batch |-> 12], [members |-> 9, manifest |-> 9, batch |-> 60]}

Owner == INSTANCE SchedulerOwner WITH
    Clients <- A, MaxCutoff <- 4, MaxGeneration <- 1, MaxRevision <- 1, MaxRestarts <- 1,
    MaxBatches <- 4, frontier <- v1, authority <- v2, config <- v3, hold <- v4,
    boundary <- v5, disposed <- v6, roots <- v7, intervals <- v8, observed <- v9,
    prepared <- v10

(* Two services and four lease identities over four readings of the clock;  *)
(* generations and selectors run out.                                       *)
LeaseIds == {d1, d2, d3, d4}

Lease == INSTANCE SchedulerLease WITH
    Services <- A, MaxDuration <- 2, MaxGeneration <- 2, MaxSelector <- 1, MaxClock <- 3,
    MaxEpochs <- 1, clock <- v1, authority <- v2, view <- v3, used <- v4, fences <- v5,
    candidate <- v6

(* Two intents for one target, with one member each, and two callers: heads *)
(* for both to be accepted, authorized and sent, in every order.            *)
OneTarget == {d1}
OneMember == {d2}

Effect == INSTANCE EffectsOwner WITH
    Intents <- A, Targets <- OneTarget, Members <- OneMember, Callers <- B, MaxHead <- 6,
    MaxFence <- 2, MaxKids <- 1, MaxEvidence <- 1,
    effect <- v1, head <- v2, call <- v3, fence <- v4, stale <- v5

(* One intent that may be retransmitted and then observed twice; the same   *)
(* with two members and one caller, where outcomes may be partial.          *)
OneIntent == {d3}

Attempt == INSTANCE EffectsOwner WITH
    Intents <- OneIntent, Targets <- OneTarget, Members <- OneMember, Callers <- B, MaxHead <- 6,
    MaxFence <- 1, MaxKids <- 2, MaxEvidence <- 2,
    effect <- v1, head <- v2, call <- v3, fence <- v4, stale <- v5

OneCaller == {d4}

Batched == INSTANCE EffectsOwner WITH
    Intents <- OneIntent, Targets <- OneTarget, Members <- B, Callers <- OneCaller,
    MaxHead <- 7, MaxFence <- 1, MaxKids <- 2, MaxEvidence <- 2,
    effect <- v1, head <- v2, call <- v3, fence <- v4, stale <- v5

(* Two processes and two tickets; late receipts are registered for both     *)
(* transfers, two of them for the first.                                    *)
TwoConfigurations == {d2, d3}
Scenarios == <<"CONFIRM", "LOST_RESPONSE_AFTER_EFFECT">>
Late == <<2, 1>>

Hermetic == INSTANCE HermeticDispatch WITH
    Processes <- A, Transmissions <- B, Configurations <- TwoConfigurations,
    MaxEpoch <- 2, MaxGeneration <- 1, custody <- v1, marker <- v2, transfers <- v3,
    receipts <- v4, tail <- v5, holder <- v6, status <- v7, epoch <- v8

(* A V2 intent and a scoped V3 intent, two members each; the clock, the     *)
(* fence, the generation and the semantics change once in all.              *)
TwoIntents == {d1, d2}
ScopedIntent == {d2}

Dispatch == INSTANCE DispatchV2 WITH
    Intents <- TwoIntents, Scoped <- ScopedIntent, Members <- A, Evidence <- B, Callers <- C,
    NotBefore <- 0, Expires <- 1, MaxHead <- 6, MaxKids <- 2, MaxChanges <- 1,
    attempt <- v1, head <- v2, prepared <- v3, now <- v4, fence <- v5, generation <- v6,
    semantics <- v7

(* Two consequential calls and one other, two attempts, a worker restart.   *)
ThreeCalls == B \cup {d1}

Execution == INSTANCE ExecutionOwner WITH
    Calls <- ThreeCalls, Consequential <- B, Intents <- OneIntent, MaxCalls <- 2, MaxHead <- 10,
    MaxRuns <- 10, MaxAttempts <- 2, MaxSessions <- 2, MaxRetained <- 2, lineage <- v1,
    accepted <- v2, cancelled <- v3, accounted <- v4, registry <- v5, fenced <- v6, head <- v7,
    session <- v8, retained <- v9

(* Two Runs; labels are interchangeable because a response is any sequence  *)
(* of them.                                                                 *)
Retained == INSTANCE RetainedCalls WITH
    Runs <- A, Labels <- B, Acts <- C, MaxCalls <- 2, MaxRecords <- 6, MaxSessions <- 2,
    MaxRetained <- 1, records <- v1, fanouts <- v2, cancellations <- v3, session <- v4,
    retained <- v5

(* Two Runs and two tasks; a label is unrestricted, exactly the origin, or  *)
(* an endpoint that is not the origin.                                      *)
Labels == {{"origin", "other"}, {"origin"}, {"other"}}

Loop == INSTANCE AgentLoop WITH
    Runs <- A, Tasks <- B, Calls <- {d1, d2}, Endpoints <- {"origin", "other"},
    Origin <- "origin", MaxTurns <- 2, MaxToolCalls <- 2, MaxWorkers <- 2, MaxOps <- 5,
    runs <- v1, head <- v2, worker <- v3, adopted <- v4, lane <- v5, task <- v6, ops <- v7

(* Two tasks and two Runs.                                                  *)
Workspaces == INSTANCE Workspace WITH
    Tasks <- A, Runs <- B, MaxRows <- 2, MaxCalls <- 2, MaxOthers <- 2, log <- v1, fence <- v2,
    calendar <- v3, peer <- v4, current <- v5, spaces <- v6, tasks <- v7, calls <- v8,
    others <- v9

(* One policy with room, and one that leaves exactly the conversation's     *)
(* floor and fails it with one more family; the conversation demands more   *)
(* than its share.  One of the navigation commands is unresolvable.         *)
Policy(total) == [total |-> total, fixed |-> 1, output |-> 1, floor |-> 4]

Command(operation, family, screen) ==
    [operation |-> operation, location |-> [family |-> family, screen |-> screen]]

Navigation ==
    {Command("push", "core.planning", "detail"), Command("back", "core.planning", "overview"),
     Command("open", "core.conversation", "detail")}

Screen == INSTANCE Screens WITH
    Objects <- A, Families <- {"core.planning", "core.calendar"},
    Order <- <<"core.planning", "core.calendar">>, Commands <- Navigation,
    Policies <- {Policy(30), Policy(7)}, Requests <- {25}, MaxStates <- 3, MaxRetained <- 1,
    MaxFaults <- 2, issued <- v1, cache <- v2, h1 <- v3, objects <- v4, faults <- v5

(* One peer, two batches of one revision with different source heads, two   *)
(* agenda ranges and a detail, pages of one source.                         *)
Event(id, from, to) ==
    [id |-> id, from |-> from, to |-> to, policy |-> 1, labels |-> {{"e1", "e2"}},
     freshness |-> "CURRENT"]

Wide(id, from, to) == [Event(id, from, to) EXCEPT !.labels = {{"e1"}, {"e1", "e2"}}]

Observed(revision, sources, observations) ==
    [revision |-> revision, sources |-> sources, future |-> FALSE,
     observations |-> observations]

Observations ==
    << Observed(1, 1, {Event(1, 0, 2), Event(2, 1, 3), Event(3, 1, 1)}),
       Observed(1, 2, {[Event(1, 0, 2) EXCEPT !.freshness = "LAGGING"], Wide(2, 2, 4)}) >>

Calendar == INSTANCE CalendarReads WITH
    Peers <- {d1}, Batches <- Observations,
    Agendas <- {[from |-> 0, to |-> 2], [from |-> 1, to |-> 4]}, Endpoint <- "e1",
    Attempts <- A, MaxRows <- 1, MaxHeads <- 2, MaxSnapshots <- 1, provider <- v1,
    state <- v2, replaced <- v3, rows <- v4, snapshots <- v5, cursors <- v6, slots <- v7,
    originals <- v8, acquiring <- v9, reading <- v10

(* One item states the fact itself, one was observed by a provider, and one *)
(* may not be released to the endpoint.                                     *)
ItemSource(i) == IF i = "observed" THEN "provider" ELSE "principal"
ItemLabel(i) == IF i = "withheld" THEN {} ELSE {"cli"}

Journal == INSTANCE EvidenceJournal WITH
    Principals <- {d1}, Subjects <- A, Items <- {"stated", "observed", "withheld"},
    SourceOf <- ItemSource, EndpointsOf <- ItemLabel, Endpoint <- "cli", MaxCommands <- 3,
    MaxHead <- 3, MaxPolicy <- 2, MaxRows <- 3, head <- v1, records <- v2, policy <- v3,
    revoked <- v4, pending <- v5

ASSUME CapabilitiesAssumption ==
    /\ Owner!OwnerAssumption /\ Lease!LeaseAssumption /\ Effect!EffectsOwnerAssumption
    /\ Attempt!EffectsOwnerAssumption /\ Batched!EffectsOwnerAssumption
    /\ Hermetic!HermeticAssumption /\ Dispatch!DispatchAssumption
    /\ Execution!ExecutionOwnerAssumption /\ Retained!RetainedCallsAssumption
    /\ Loop!LabelsAssumption /\ Screen!CommandsAssumption
    /\ Journal!EvidenceJournalAssumption
-----------------------------------------------------------------------------
Empty9 == v9 = None /\ v10 = None
Empty8 == v8 = None /\ Empty9
Empty6 == v6 = None /\ v7 = None /\ Empty8
Kept9 == UNCHANGED <<v9, v10>>
Kept8 == UNCHANGED v8 /\ Kept9
Kept6 == UNCHANGED <<v6, v7>> /\ Kept8

Init ==
    /\ part \in Parts
    /\ \/ part = "SchedulerOwner" /\ Owner!Init
       \/ part = "SchedulerLease" /\ Lease!Init /\ v7 = None /\ Empty8
       \/ part = "EffectsOwner" /\ Effect!Init /\ Empty6
       \/ part = "EffectsEvidence" /\ Attempt!Init /\ Empty6
       \/ part = "EffectsMembers" /\ Batched!Init /\ Empty6
       \/ part = "HermeticDispatch" /\ Hermetic!Init /\ Empty9
       \/ part = "DispatchV2" /\ Dispatch!Init /\ Empty8
       \/ part = "ExecutionOwner" /\ Execution!Init /\ v10 = None
       \/ part = "RetainedCalls" /\ Retained!Init /\ Empty6
       \/ part = "AgentLoop" /\ Loop!Init /\ Empty8
       \/ part = "Workspace" /\ Workspaces!Init /\ v10 = None
       \/ part = "Screens" /\ Screen!Init /\ Empty6
       \/ part = "CalendarReads" /\ Calendar!Init
       \/ part = "EvidenceJournal" /\ Journal!Init /\ Empty6

Next ==
    \/ part = "SchedulerOwner" /\ Owner!Next /\ UNCHANGED part
    \/ part = "SchedulerLease" /\ Lease!Next /\ UNCHANGED <<part, v7>> /\ Kept8
    \/ part = "EffectsOwner" /\ Effect!Next /\ UNCHANGED part /\ Kept6
    \/ part = "EffectsEvidence" /\ Attempt!Next /\ UNCHANGED part /\ Kept6
    \/ part = "EffectsMembers" /\ Batched!Next /\ UNCHANGED part /\ Kept6
    \/ part = "HermeticDispatch" /\ Hermetic!Next /\ UNCHANGED part /\ Kept9
    \/ part = "DispatchV2" /\ Dispatch!Next /\ UNCHANGED part /\ Kept8
    \/ part = "ExecutionOwner" /\ Execution!Next /\ UNCHANGED <<part, v10>>
    \/ part = "RetainedCalls" /\ Retained!Next /\ UNCHANGED part /\ Kept6
    \/ part = "AgentLoop" /\ Loop!Next /\ UNCHANGED part /\ Kept8
    \/ part = "Workspace" /\ Workspaces!Next /\ UNCHANGED <<part, v10>>
    \/ part = "Screens" /\ Screen!Next /\ UNCHANGED part /\ Kept6
    \/ part = "CalendarReads" /\ Calendar!Next /\ UNCHANGED part
    \/ part = "EvidenceJournal" /\ Journal!Next /\ UNCHANGED part /\ Kept6

Spec == Init /\ [][Next]_vars
-----------------------------------------------------------------------------
\* No occurrence of a schedule is lost or disposed of twice, and a held interval
\* keeps the boundary and the membership it is resolved by
\* (definition_enumeration, prepare_resolution).
OccurrencesAreAccounted ==
    part = "SchedulerOwner" => Owner!IntervalsPartitionTime /\ Owner!HeldWorkIsResolvable

\* A lease generation has one holder for ever, and nobody takes a live lease
\* (evaluate_lease, prepare_rollover).
LeaseIsExclusive ==
    /\ [](part = "SchedulerLease" => Lease!FencesAreUnique)
    /\ [][part = "SchedulerLease" => Lease!LiveLeaseIsNotTaken]_vars

\* Two effects for one target are both sent and unresolved only when one names the
\* other; an attempt is closed only on reports that cover each member of each of
\* its transmissions, and its recovery obligation is open exactly while its outcome is
\* (prepare_transition of the effects owner).
EffectsStayAccountable ==
    /\ part = "EffectsOwner" => Effect!NoUnnamedReplacement /\ Effect!ClosedWorkIsObserved
    /\ part = "EffectsEvidence" => Attempt!ClosedWorkIsObserved
    /\ part = "EffectsMembers" => Batched!ClosedWorkIsObserved

\* However processes that share the provider's journals interleave and stop, the
\* journals stay in the order their loader demands, no transmission is emitted
\* twice, and a revocation that was seen is remembered (HermeticEffectsProvider,
\* HermeticDispatchResources).
ProviderJournalsStayInOrder ==
    /\ [](part = "HermeticDispatch" => Hermetic!JournalsStayInOrder)
    /\ [][part = "HermeticDispatch" => Hermetic!RevocationIsRemembered]_vars

\* A first send is published under its mandate's generation and, in V2, the fence
\* of its authorization; a closed obligation states the verdict of its receipts
\* for ever (prepare_dispatch, prepare_scoped_first_send, prepare_outcome).
DispatchFollowsTheMandate ==
    /\ [](part = "DispatchV2" => Dispatch!ClosureIsTheVerdict)
    /\ [][part = "DispatchV2" => Dispatch!DispatchIsCurrent]_vars


\* The inventory of calls is what the history says, whatever order its records
\* were published in (inventory_from_history).
InventoryIsTheHistory == part = "RetainedCalls" => Retained!InventoryIsTheHistory

\* The loop never moves past work it has not accounted for, and what a succeeded
\* Run delivers is allowed by every label of every Turn and cites its own commits
\* (advance, continuation, complete).
RunsSettleBeforeDelivery ==
    part = "AgentLoop" => Loop!HistoryIsSettled /\ Loop!DeliveryIsEntitled

\* Whenever proposal_context answers, each family of the batch is what the store
\* holds at the answer, and the accepted conversation keeps the shape every later
\* read insists on (R13Workspace, R12Workspace._history).
WorkspaceShowsTheStore ==
    /\ [](part = "Workspace" => Workspaces!ConversationStaysReadable)
    /\ [][part = "Workspace" => Workspaces!ProposalsShowTheStore]_vars

\* Every state in the cache, in memory or retained with a batch is the one the
\* journal issued at its sequence, and every issued state fits its token budget
\* (recover_cache, DashboardManager).
ScreensAreIssued == part = "Screens" => Screen!DisplayIsIssued /\ Screen!ScreensFitTheBudget

\* Every retained original read keeps verifying after any later invalidation, and
\* pages joined by cursors partition one query (decode_h1_original_calendar_read).
CalendarPagesVerify ==
    part = "CalendarReads" => Calendar!OriginalReadsVerify /\ Calendar!PagesPartitionTheQuery

\* A fact enters the journal only as it was displayed, and a row shown as positive
\* is the principal's only claim that still stands (Journal.execute, project).
FactsAreAsDisplayed ==
    part = "EvidenceJournal" => Journal!ConfirmedAsDisplayed /\ Journal!PositiveIsUndisputed
=============================================================================
