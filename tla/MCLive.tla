-------------------------------- MODULE MCLive --------------------------------
(***************************************************************************)
(* The live PostgreSQL runtime besides the user database and the model     *)
(* calls: planning, effects, delivery, read-only calls, scheduling and      *)
(* intake, side by side.  Each is checked on its own, so a behaviour        *)
(* exercises one of them: part says which, and v1, v2, ... are its          *)
(* variables in the order of its module.                                    *)
(***************************************************************************)
EXTENDS Naturals, Sequences, FiniteSets, TLC

CONSTANTS
    Parts,                               \* the parts a run exercises
    None, NoEntitlement, NoWorker,
    a1, a2, b1, b2,                      \* two pairs of interchangeable values
    d1, d2, d3, d4, d5, d6, d7, d8, d9   \* values that are not interchangeable

VARIABLES part, v1, v2, v3, v4, v5, v6, v7, v8, v9, v10, v11, v12, v13, v14, v15, v16,
          v17, v18, v19, v20, v21, v22

vars == <<part, v1, v2, v3, v4, v5, v6, v7, v8, v9, v10, v11, v12, v13, v14, v15, v16,
          v17, v18, v19, v20, v21, v22>>

A == {a1, a2}
B == {b1, b2}
TwoPairs == Permutations(A) \cup Permutations(B)

Term(capability, cap, starts, expires, lease) ==
    [entitlement |-> "e1", mode |-> "EVALUATION", capability |-> capability, cap |-> cap,
     starts |-> starts, expires |-> expires, lease |-> lease]
-----------------------------------------------------------------------------
(* Commands that repeat an identity with other content, share a line, or    *)
(* use one identity twice (the second and the third may both commit); a     *)
(* plan request over one of them, two entitlements of one head, three       *)
(* instants.                                                                *)
Command(id, line, revision, purpose) ==
    [id |-> id, line |-> line, revision |-> revision, purpose |-> purpose, act |-> "first"]

Plan(act) ==
    [intent |-> d8, command |-> Command(d1, d4, d6, "p1"), expected |-> None, act |-> act,
     expires |-> 1]

Planner == INSTANCE Planning WITH
    Commands <- {Command(d1, d4, d6, "p1"), Command(d1, d5, d7, "p1"),
                 Command(d2, d4, d3, "p2"), Command(d3, d5, d5, "p2")},
    PlanRequests <- {Plan("first"), Plan("second")}, RenderOps <- {d9, d2}, ForeignIds <- {d6},
    NoRevision <- None, MaxTime <- 2,
    Terms <- {Term("planning.create_intention_line", 2, 0, 2, 2), Term("planning.read", 1, 1, 3, 2)},
    now <- v1, trust <- v2, current <- v3, handoffs <- v4, log <- v5, disclosed <- v6,
    reply <- v7

(* One tool effect of two members, with a takeover and a late receipt.      *)
Effect == INSTANCE Effects WITH
    Runtimes <- A, Tools <- {d1}, Compensations <- {}, OriginalOf <- <<>>, Members <- B,
    Ops <- {d2}, Horizons <- {1, 2}, MaxLate <- 1, MaxTime <- 2,
    Terms <- {Term("effects.first_send", 1, 0, 2, 2)},
    now <- v1, current <- v2, handoffs <- v3, worker <- v4, opened <- v5, crashed <- v6,
    run <- v7, obligations <- v8, call <- v9, previews <- v10, intent <- v11, send <- v12,
    claim <- v13, evidence <- v14, closure <- v15, reduction <- v16, order <- v17,
    jobs <- v18, transfer <- v19, late <- v20, attempts <- v21, used <- v22

(* A tool effect, its compensation and a takeover.                          *)
Compensation == INSTANCE Effects WITH
    Runtimes <- A, Tools <- {d1}, Compensations <- {d2}, OriginalOf <- [k \in {d2} |-> d1],
    Members <- {d3}, Ops <- B, Horizons <- {2}, MaxLate <- 0, MaxTime <- 2,
    Terms <- {Term("effects.first_send", 2, 0, 2, 2)},
    now <- v1, current <- v2, handoffs <- v3, worker <- v4, opened <- v5, crashed <- v6,
    run <- v7, obligations <- v8, call <- v9, previews <- v10, intent <- v11, send <- v12,
    claim <- v13, evidence <- v14, closure <- v15, reduction <- v16, order <- v17,
    jobs <- v18, transfer <- v19, late <- v20, attempts <- v21, used <- v22

(* One delivery, with a takeover, a power loss and late receipts.           *)
Deliver == INSTANCE Delivery WITH
    Runtimes <- A, Runs <- {d1}, Ops <- {d2}, MaxCut <- 1, MaxTime <- 1,
    Terms <- {Term("delivery.first_send", 1, 0, 1, 1)},
    now <- v1, current <- v2, handoffs <- v3, worker <- v4, opened <- v5, crashed <- v6,
    run <- v7, cited <- v8, cut <- v9, settled <- v10, accepted <- v11, history <- v12,
    send <- v13, claim <- v14, receipt <- v15, inbox <- v16, calls <- v17, jobs <- v18

(* Two deliveries that compete for the entitlement and for operation        *)
(* identities.                                                              *)
Deliveries == INSTANCE Delivery WITH
    Runtimes <- {d1}, Runs <- A, Ops <- B, MaxCut <- 1, MaxTime <- 1,
    Terms <- {Term("delivery.first_send", 2, 0, 1, 1)},
    now <- v1, current <- v2, handoffs <- v3, worker <- v4, opened <- v5, crashed <- v6,
    run <- v7, cited <- v8, cut <- v9, settled <- v10, accepted <- v11, history <- v12,
    send <- v13, claim <- v14, receipt <- v15, inbox <- v16, calls <- v17, jobs <- v18

(* Two runtimes, two sibling calls of one seal, two successor identities.   *)
Read == INSTANCE ReadOnly WITH
    Runtimes <- A, Calls <- B, FirstRun <- d1, Successors <- {d2, d3}, MaxAttempts <- 3,
    MaxEntries <- 2, worker <- v1, opened <- v2, entries <- v3, run <- v4, continued <- v5,
    branch <- v6, lineage <- v7, edges <- v8, openWork <- v9, job <- v10, reads <- v11

(* Two runtimes, a schedule of two occurrences, two bounds.                 *)
Schedule == INSTANCE Scheduler WITH
    Runtimes <- A, Start <- 0, Period <- 1, End <- 2,
    Policies <- {"SKIP", "COALESCE", "MATERIALIZE_EACH"},
    Bounds <- {[members |-> 1, batch |-> 2], [members |-> 2, batch |-> 3]},
    Duration <- 2, MaxClock <- 4, MaxGeneration <- 2, MaxWork <- 2, MaxSetbacks <- 1,
    worker <- v1, opened <- v2, clock <- v3, setbacks <- v4, last <- v5, config <- v6,
    bound <- v7, boundary <- v8, held <- v9, disposed <- v10, roots <- v11, lease <- v12,
    pending <- v13, work <- v14, valid <- v15

(* Two processes and two connections that submit two bodies under one       *)
(* identity.                                                                *)
Native == INSTANCE NativeIngress WITH
    Processes <- A, Connections <- B, Replays <- {d1}, Bodies <- {d2, d3}, MaxHead <- 4,
    MaxFaults <- 3, log <- v1, lane <- v2, config <- v3, conn <- v4, acked <- v5, faults <- v6

(* Two receipts of two classes, in slots of their own.                      *)
Receipt(slot, class) == [slot |-> slot, class |-> class, fence |-> 1, maximum |-> 0]

Custody == INSTANCE IngressCustody WITH
    Tokens <- {d1, d2}, TokenOf <- d1 :> Receipt(1, "CLI") @@ d2 :> Receipt(2, "TELEGRAM_POLL"),
    Fence <- 1, Raws <- {0, 1}, Attempts <- A,
    Reserve <- [class \in {"CLI", "TELEGRAM_POLL"} |-> [items |-> 1, bytes |-> 1, quarantine |-> 1]],
    snap <- v1, quarantines <- v2, proof <- v3, manifest <- v4

(* The second of three classes; sizes that leave every remainder of the     *)
(* quantum.                                                                 *)
Fairness == INSTANCE IngressFairness WITH
    ClassCount <- 3, Position <- 1, Quantum <- 2, Cap <- 5, MaxItem <- 5, Depth <- 3,
    Sizes <- {1, 3, 5}, MaxItems <- 3, MaxUInt <- 30, slot <- v1, deficit <- v2, ready <- v3,
    bounds <- v4, blocked <- v5, admitted <- v6, missed <- v7, refused <- v8

(* Two adapters over two slots, and two tokens.                             *)
Source == INSTANCE RetainedSource WITH
    Processes <- A, Slots <- B, Tokens <- {d1, d2}, Sizes <- {0, 2}, MaxItems <- 2,
    MaxTotal <- 3, MaxItem <- 2, MaxReads <- 3, raw <- v1, metadata <- v2, changed <- v3,
    transfers <- v4, tail <- v5, materialized <- v6, proc <- v7, delivered <- v8

ASSUME LiveAssumption ==
    /\ Planner!TermsAssumption
    /\ Effect!TermsAssumption /\ Effect!EffectsAssumption
    /\ Compensation!TermsAssumption /\ Compensation!EffectsAssumption
    /\ Deliver!TermsAssumption /\ Deliver!DeliveryAssumption
    /\ Deliveries!TermsAssumption /\ Deliveries!DeliveryAssumption
    /\ Read!ReadOnlyAssumption /\ Schedule!SchedulerAssumption /\ Native!IngressAssumption
    /\ Fairness!FairnessAssumption
-----------------------------------------------------------------------------
rest19 == <<v19, v20, v21, v22>>
rest16 == <<v16, v17, v18, rest19>>
rest12 == <<v12, v13, v14, v15, rest16>>
rest9 == <<v9, v10, v11, rest12>>
rest8 == <<v8, rest9>>
rest7 == <<v7, rest8>>
rest5 == <<v5, v6, rest7>>

Empty19 == v19 = None /\ v20 = None /\ v21 = None /\ v22 = None
Empty16 == v16 = None /\ v17 = None /\ v18 = None /\ Empty19
Empty12 == v12 = None /\ v13 = None /\ v14 = None /\ v15 = None /\ Empty16
Empty9 == v9 = None /\ v10 = None /\ v11 = None /\ Empty12
Empty8 == v8 = None /\ Empty9
Empty7 == v7 = None /\ Empty8
Empty5 == v5 = None /\ v6 = None /\ Empty7

Init ==
    /\ part \in Parts
    /\ \/ part = "Planning" /\ Planner!Init /\ Empty8
       \/ part = "Effects" /\ Effect!Init
       \/ part = "Compensation" /\ Compensation!Init
       \/ part = "Delivery" /\ Deliver!Init /\ Empty19
       \/ part = "Deliveries" /\ Deliveries!Init /\ Empty19
       \/ part = "ReadOnly" /\ Read!Init /\ Empty12
       \/ part = "Scheduler" /\ Schedule!Init /\ Empty16
       \/ part = "NativeIngress" /\ Native!Init /\ Empty7
       \/ part = "IngressCustody" /\ Custody!Init /\ Empty5
       \/ part = "IngressFairness" /\ Fairness!Init /\ Empty9
       \/ part = "RetainedSource" /\ Source!Init /\ Empty9

Next ==
    \/ part = "Planning" /\ Planner!Next /\ UNCHANGED <<part, rest8>>
    \/ part = "Effects" /\ Effect!Next /\ UNCHANGED part
    \/ part = "Compensation" /\ Compensation!Next /\ UNCHANGED part
    \/ part = "Delivery" /\ Deliver!Next /\ UNCHANGED <<part, rest19>>
    \/ part = "Deliveries" /\ Deliveries!Next /\ UNCHANGED <<part, rest19>>
    \/ part = "ReadOnly" /\ Read!Next /\ UNCHANGED <<part, rest12>>
    \/ part = "Scheduler" /\ Schedule!Next /\ UNCHANGED <<part, rest16>>
    \/ part = "NativeIngress" /\ Native!Next /\ UNCHANGED <<part, rest7>>
    \/ part = "IngressCustody" /\ Custody!Next /\ UNCHANGED <<part, rest5>>
    \/ part = "IngressFairness" /\ Fairness!Next /\ UNCHANGED <<part, rest9>>
    \/ part = "RetainedSource" /\ Source!Next /\ UNCHANGED <<part, rest9>>

Spec == Init /\ [][Next]_vars
-----------------------------------------------------------------------------
\* Planning handoffs and batches come together, the log can always be reduced, a
\* plan effect follows its plan, a render discloses what its handoff recorded,
\* every crossing is entitled, and nothing crosses after a revocation
\* (create_intention_line, render, preview_plan_effect).
PlanningIsConsistent ==
    /\ [](part = "Planning" =>
            /\ Planner!TypeOK /\ Planner!HandoffIffPublished /\ Planner!LogStaysReducible
            /\ Planner!PlanEffectIsJoint /\ Planner!DisclosureIsRecorded)
    /\ [][part = "Planning" => Planner!CrossingsAreEntitled /\ Planner!RevocationIsFinal]_vars

\* An effect is emitted at most once and owned by its Run, a closure states what
\* the provider did and never flips, the model sees one result of a call, and
\* every send has its handoff (commit_effect_send, emit_effect,
\* append_effect_receipt, resolve_original_effect).
EffectsAreExact ==
    /\ part = "Effects" => Effect!EffectsAreExact
    /\ part = "Compensation" => Compensation!EffectsAreExact

\* An emission is claimed by the current runtime, inside its horizon and window,
\* and a suspended Run resumes only on closed work; discovery finds every
\* unsettled send (emit_effect, resume_execution, discover_effect_work).
EffectStepsAreLive ==
    /\ [](part = "Compensation" => Compensation!DiscoveryIsComplete)
    /\ [][/\ part = "Effects" => Effect!ClaimsAreLive /\ Effect!ResumesOnClosedWork
          /\ part = "Compensation" => Compensation!ClaimsAreLive]_vars

\* A completed Run is accepted once, from the evidence its text cites, delivered
\* at most once and confirmed only when durable; a text whose evidence has moved
\* is never claimed for delivery (accept_completion, commit_delivery_send,
\* emit_delivery, reconcile_delivery).
DeliveryIsExact ==
    /\ [](/\ part = "Delivery" => Deliver!DeliveredOnce
          /\ part = "Deliveries" => Deliveries!DeliveredOnce)
    /\ [][/\ part = "Delivery" => Deliver!StaleTextIsNeverDelivered
          /\ part = "Deliveries" => Deliveries!StaleTextIsNeverDelivered]_vars

\* Every history read is charged to an attempt of its lineage first, a call that
\* may still be attempted belongs to the live Run, and recorded attempts are
\* never rewritten (execute_readonly_call, retry_readonly_in_successor).
ReadLineageIsSound ==
    /\ [](part = "ReadOnly" => Read!ReadsAreCharged /\ Read!LineageFollowsTheRun)
    /\ [][part = "ReadOnly" => Read!LineageIsStable]_vars

\* Every occurrence is disposed of exactly once, every published record can be
\* read again, and the work of a scheduled Run follows its leases
\* (scheduler_cycle, resolve_scheduler_overflow, transition_scheduler_lease).
ScheduledWorkIsDisposedOnce ==
    part = "Scheduler" =>
        /\ Schedule!DisposedExactlyOnce /\ Schedule!SchedulerStaysReadable
        /\ Schedule!WorkFollowsTheLease

\* What a transport acknowledged stays the one selected custody of its identity
\* (NativeCliIngress.receive).
AckIsSelectedCustody == part = "NativeIngress" => Native!AckIsSelectedCustody

\* A drained epoch has lost nothing, a draining one within its reserves is never
\* wedged, and a quarantined receipt ends in one result (close_drain,
\* finish_quarantine_parser).
CustodyLosesNothing ==
    part = "IngressCustody" =>
        /\ Custody!ClosedEpochLosesNothing /\ Custody!DrainCanClose /\ Custody!OneTerminalResult

\* Under the round of classes the deadline presumes, every generation is selected
\* before the deadline fixed at its admission, and the head of the line can always
\* be skipped (selection_deadline, block_and_rebase).
DeadlinesHold ==
    part = "IngressFairness" => Fairness!SelectedByDeadline /\ Fairness!RebaseIsNeverRefused

\* Every body handed to the broker is in the transfer log, where tokens and slots
\* correspond one to one (RetainedSourceAdapter.read).
OneTransferIdentity == part = "RetainedSource" => Source!OneTransferIdentity
=============================================================================
