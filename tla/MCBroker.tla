------------------------------- MODULE MCBroker -------------------------------
(***************************************************************************)
(* The parts of the authority broker, side by side.  Each is checked on its *)
(* own, so a behaviour exercises one of them: part says which, and v1, v2,  *)
(* ... are its variables in the order of its module.                        *)
(***************************************************************************)
EXTENDS Naturals, Sequences, FiniteSets, TLC

CONSTANTS
    Parts,                       \* the parts a run exercises
    None,
    a1, a2, b1, b2,              \* two pairs of interchangeable values
    d1, d2, d3, d4, d5, d6, d7, d8, d9,  \* values that are not interchangeable
    Stages, StageFaults          \* bounds on CheckpointStore

VARIABLES part, v1, v2, v3, v4, v5, v6, v7, v8, v9, v10, v11, v12, v13, v14, v15

vars == <<part, v1, v2, v3, v4, v5, v6, v7, v8, v9, v10, v11, v12, v13, v14, v15>>

A == {a1, a2}
B == {b1, b2}
Pair == Permutations(A)
Pairs == Permutations(A) \cup Permutations(B)
One == {d1}
-----------------------------------------------------------------------------
(* Two processes and one operation of each kind.                            *)
Adopted == {d3}
Publication == {d2}

Bundle == INSTANCE AuthorityBundle WITH
    Processes <- A, Loops <- One, Auxiliary <- Publication, Adoptions <- Adopted,
    MaxEpoch <- 3, MaxFaults <- 2, store <- v1, journal <- v2, torn <- v3, anchor <- v4,
    reads <- v5, epoch <- v6, ledger <- v7, gate <- v8, faults <- v9, proc <- v10

(* Pages of one row, so that a walk of four takes four releases.            *)
Reads == INSTANCE AuthorityReads WITH
    Readers <- One, PageSize <- 1, MaxStore <- 3, MaxEpoch <- 3, MaxRestores <- 1,
    MaxWalks <- 2, store <- v1, file <- v2, anchor <- v3, readState <- v4, rows <- v5,
    walk <- v6, restores <- v7

(* Two threads and two preimages whose digests share a directory.           *)
Prefix == [p \in {d1, d2} |-> "directory"]

Checkpoint == INSTANCE CheckpointStore WITH
    Threads <- A, Preimages <- {d1, d2}, Invalid <- {"invalid"}, Foreign <- "foreign",
    Prefixes <- {"directory"}, MaxStages <- Stages, MaxFaults <- StageFaults,
    directories <- v1, objects <- v2, threads <- v3, returned <- v4, doubtful <- v5,
    stages <- v6, faults <- v7

(* A command, the same identity with other bytes, another command, one that *)
(* reuses the line, and one whose identities are not distinct.              *)
Command(id, line, revision, purpose) ==
    [id |-> id, line |-> line, revision |-> revision, purpose |-> purpose]

Planned ==
    {Command(d4, d7, d9, "p"), Command(d4, d7, d9, "q"), Command(d5, d8, d1, "p"),
     Command(d6, d7, d1, "p"), Command(d6, d8, d8, "p")}

Planner == INSTANCE PlanningRuntime WITH
    Callers <- A, Readers <- One, Principals <- {d2, d3}, Owner <- d2, Commands <- Planned,
    MaxTrust <- 1, MaxCalls <- 3, MaxRenders <- 1, MaxFaults <- 1, trust <- v1, fence <- v2,
    log <- v3, transaction <- v4, calls <- v5, renders <- v6, used <- v7, wrote <- v8

(* Two writers and two operator keys.                                       *)
Trust == INSTANCE TrustLog WITH
    Writers <- A, Keys <- B, Terms <- One, Commands <- {d2, d3}, MaxEntries <- 4,
    MaxFaults <- 2, body <- v1, anchored <- v2, headNew <- v3, rows <- v4, pin <- v5,
    binding <- v6, up <- v7, holder <- v8, step <- v9, work <- v10, faults <- v11

(* One of everything but pages and cursors, of which a poll takes several.  *)
Deployment == INSTANCE DeploymentTrust WITH
    Principals <- One, Credentials <- {d2}, Sources <- {d3}, Witnesses <- {d4}, Replays <- {d5},
    Pages <- A, Cursors <- B, Transitions <- {d6}, Keys <- {d7}, MaxDecisions <- 6,
    MaxAdvances <- 7, MaxFaults <- 1, atomic <- v1, journal <- v2, rows <- v3, svc <- v4, ranOn <- v5,
    faults <- v6

(* Two processes, two creates and a render over one entitlement head.       *)
Gate == INSTANCE GateJournal WITH
    Processes <- A, Creates <- B, Renders <- One, Heads <- {d2},
    Modes <- {"EVALUATION", "PRODUCTION"}, Cap <- 1, Expires <- 1, MaxClock <- 1,
    MaxEpoch <- 2, MaxImports <- 2, MaxFaults <- 1, entries <- v1, torn <- v2, store <- v3,
    anchor <- v4, reads <- v5, epoch <- v6, issued <- v7, clock <- v8, faults <- v9,
    gate <- v10, disclosed <- v11, committed <- v12, proc <- v13

(* One key under two fingerprints, the second one an owner publication,     *)
(* another key, two fences, one derivative and one pushed piece of evidence. *)
Publish(key, fingerprint, record, owner) ==
    [type |-> "publish", key |-> key, fingerprint |-> fingerprint, record |-> record,
     owner |-> owner, shape |-> "registered"]

FenceTo(generation, frontier, replay) ==
    [type |-> "fence", target |-> [generation |-> generation, frontier |-> frontier],
     replay |-> replay]

Requests ==
    {Publish(d1, d2, d4, FALSE), Publish(d1, d3, d5, TRUE), Publish(d8, d2, d9, FALSE),
     FenceTo("g1", 0, TRUE), FenceTo("g2", 1, FALSE),
     [type |-> "derivative", id |-> d6, source |-> d4],
     [type |-> "evidence", id |-> d7, fingerprint |-> d2, kind |-> "PUSH",
      redelivery |-> FALSE],
     [type |-> "followup", id |-> d7, expected |-> "LOCAL_ACK_AUTHORIZED",
      next |-> "PUSH_RESPONSE_ATTEMPT_ISSUED", attempt |-> a1]}

Store == INSTANCE AuthorityStore WITH
    Commands <- Requests, Capacity <- 2, EvidenceCapacity <- 1, Resolver <- TRUE,
    MaxCalls <- 3, MaxFaults <- 1, head <- v1, records <- v2, publications <- v3,
    fence <- v4, inbox <- v5, derivatives <- v6, ready <- v7, calls <- v8,
    ordinary <- v9, evidence <- v10, admitted <- v11, worker <- v12, accepting <- v13,
    closing <- v14, faults <- v15

(* Two threads that call once each while the supervisor replaces the        *)
(* generation.                                                              *)
Runtime == INSTANCE BrokerRuntime WITH
    Threads <- A, Supervisor <- d1, MaxCalls <- 1, MaxGenerations <- 2, MaxFaults <- 1,
    gate <- v1, call <- v2, calls <- v3, rt <- v4, sup <- v5, current <- v6,
    quarantine <- v7, retiring <- v8, epoch <- v9, transition <- v10, faults <- v11

ASSUME BrokerAssumption ==
    /\ Reads!ReadBounds /\ Checkpoint!PrefixIsAFunction /\ Gate!GateJournalAssumption
    /\ Runtime!RuntimeAssumption
-----------------------------------------------------------------------------
Empty14 == v14 = None /\ v15 = None
Empty12 == v12 = None /\ v13 = None /\ Empty14
Empty9 == v9 = None /\ v10 = None /\ v11 = None /\ Empty12
Empty7 == v7 = None /\ v8 = None /\ Empty9
Kept14 == UNCHANGED <<v14, v15>>
Kept12 == UNCHANGED <<v12, v13>> /\ Kept14
Kept9 == UNCHANGED <<v9, v10, v11>> /\ Kept12
Kept7 == UNCHANGED <<v7, v8>> /\ Kept9

Init ==
    /\ part \in Parts
    /\ \/ part = "AuthorityBundle" /\ Bundle!Init /\ v11 = None /\ Empty12
       \/ part = "AuthorityReads" /\ Reads!Init /\ v8 = None /\ Empty9
       \/ part = "CheckpointStore" /\ Checkpoint!Init /\ v8 = None /\ Empty9
       \/ part = "PlanningRuntime" /\ Planner!Init /\ Empty9
       \/ part = "TrustLog" /\ Trust!Init /\ Empty12
       \/ part = "DeploymentTrust" /\ Deployment!Init /\ Empty7
       \/ part = "GateJournal" /\ Gate!Init /\ Empty14
       \/ part = "AuthorityStore" /\ Store!Init
       \/ part = "BrokerRuntime" /\ Runtime!Init /\ Empty12

Next ==
    \/ part = "AuthorityBundle" /\ Bundle!Next /\ UNCHANGED <<part, v11>> /\ Kept12
    \/ part = "AuthorityReads" /\ Reads!Next /\ UNCHANGED <<part, v8>> /\ Kept9
    \/ part = "CheckpointStore" /\ Checkpoint!Next /\ UNCHANGED <<part, v8>> /\ Kept9
    \/ part = "PlanningRuntime" /\ Planner!Next /\ UNCHANGED part /\ Kept9
    \/ part = "TrustLog" /\ Trust!Next /\ UNCHANGED part /\ Kept12
    \/ part = "DeploymentTrust" /\ Deployment!Next /\ UNCHANGED part /\ Kept7
    \/ part = "GateJournal" /\ Gate!Next /\ UNCHANGED part /\ Kept14
    \/ part = "AuthorityStore" /\ Store!Next /\ UNCHANGED part
    \/ part = "BrokerRuntime" /\ Runtime!Next /\ UNCHANGED part /\ Kept12

Spec == Init /\ [][Next]_vars

\* The appender's worker task and its thread keep running.
StoreIsServed ==
    WF_vars(part = "AuthorityStore" /\ (Store!Take \/ Store!Execute \/ Store!Finish) /\ UNCHANGED part)

\* Every thread, every owner process and the supervisor keep running.
RuntimeRuns ==
    LET Runs(action) == part = "BrokerRuntime" /\ action /\ UNCHANGED part /\ Kept12 IN
    /\ \A a \in Runtime!Actors : WF_vars(Runs(Runtime!Call(a)))
    /\ \A g \in Runtime!Generations : WF_vars(Runs(Runtime!Owner(g)))
    /\ WF_vars(Runs(Runtime!Supervise))

FairSpec == Spec /\ StoreIsServed /\ RuntimeRuns
-----------------------------------------------------------------------------
\* The store is the journal's decisions in order, wherever a process stops the
\* files can be brought together again, a proposal commits only on the state
\* it was displayed against, and a definite outcome stays true (_append,
\* _prepare_startup and the proposal ledger).
BundleFollowsDecisions ==
    part = "AuthorityBundle" =>
        /\ Bundle!StoreFollowsDecisions /\ Bundle!BundleIsRecoverable
        /\ Bundle!AdoptedAsDisplayed /\ Bundle!DefiniteOutcomesAreTrue

\* A paged read returns one prefix of the anchored history, without gap or
\* repetition, and no page read before an invalidation or a restart is released
\* after it (_verified_publications, BrokerReadLedger.release).
ReadsAreAnchored ==
    /\ [](part = "AuthorityReads" => Reads!ReadIsOneAnchoredSnapshot)
    /\ [][part = "AuthorityReads" => Reads!ReleasedUnderCurrentState]_vars

\* The bytes of a reference stage_verified has returned survive losses of power
\* under the digest's name, whichever call installed them, unless an fsync of the
\* directory failed or the directory itself was lost (os.link, then os.fsync of the
\* directory).
ReturnedBytesSurvive == part = "CheckpointStore" => Checkpoint!ReturnedBytesSurvive

\* Concurrent calls that stage one canonical preimage all return its reference
\* (stage_verified).
ConcurrentStagesReturn == part = "CheckpointStore" => Checkpoint!ConcurrentStagesReturn

\* What create answers is what the log says, and a render between any creates
\* succeeds (SQLitePlanningStore.publish, R7PlanningRuntime).
PlanningAnswersAreTrue ==
    part = "PlanningRuntime" => Planner!OutcomesMatchTheLog /\ Planner!RendersSucceed

\* Whatever two writers proposed from one observation and wherever an append
\* stopped, every trust lineage is a chain and only the last line can be torn,
\* a command used twice ends the policies, and a policy is appended only under the
\* operator key of the protected pin (_locked_append of r7_trust_durability).
PoliciesStayReadable ==
    /\ [](part = "TrustLog" => Trust!TrustLogStaysReadable)
    /\ [][part = "TrustLog" => Trust!PolicyUnderCurrentPin]_vars

\* Unless a process went on after its materializer failed, one that recovers has
\* the very authority the one before it had, and a poll cursor advances one
\* disposed page at a time (DeploymentTrustService).
RecoveredTrustIsLive ==
    part = "DeploymentTrust" =>
        Deployment!ReplayYieldsTheLiveState /\ Deployment!PollAdvancesInOrder

\* Whatever crosses the gate was entitled, once and within its cap, and a decided
\* batch can always be materialized (BrokerDeploymentGate.commit_handoff,
\* R8PlanningRuntime._recover_pending).
HandoffsAreEntitledAndRecoverable ==
    part = "GateJournal" => Gate!ExposureIsEntitled /\ Gate!DecisionsStayRecoverable

\* Every answer the appender gives stays true of the durable store, whatever was
\* retried, cancelled, rolled back, left unacknowledged or lost in a crash
\* (EventAppender).
AnswersStayTrue == part = "AuthorityStore" => Store!AnswersStayTrue

\* A command the appender accepted is answered, also when the appender is closed
\* while the command is queued: submissions come to an end, and again and again
\* nobody is waiting (EventAppender.close).
AcceptedIsAnswered ==
    []<>(part = "AuthorityStore" => \A i \in DOMAIN v8 : ~Store!Waiting(i))

\* Replies carry no request identity, so the connection lock alone pairs them;
\* a generation's connection is closed only after the last call it admitted
\* (AuthorityBrokerRuntime.call, retire).
RepliesArePaired == part = "BrokerRuntime" => Runtime!RepliesArePaired

\* Every call returns and gives back the gate it holds, whatever the supervisor
\* retires meanwhile: each thread calls a bounded number of times, and again and
\* again every thread is idle (AuthorityBrokerRuntime.call).
RuntimeCallsReturn ==
    []<>(part = "BrokerRuntime" => \A t \in A : v2[t].pc = "idle")
=============================================================================
