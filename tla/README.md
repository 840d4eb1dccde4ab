# A TLA+ model of chiplog

chiplog is a personal planning and agent runtime. Each user has one PostgreSQL
database, and one runtime process at a time is the current worker of that
database. A Run is a conversation of Turns with a model; the model's calls read
history or cause external effects, and a completed Run is delivered to its user.
Beside this live core the repository holds an authority broker: a supervisor and
isolated owner processes over a journal, a sqlite store and a set of anchors, on
which the same capabilities are built a second time as owners of their records.

This directory models both, checks the models with TLC on small instances and
proves part of them with TLAPS for every value of the constants. Paths below are
relative to `src/src/chiplog/`.

## The system and its modules

`PROJECT.json` gives the source lines of every definition and lists the parts of
the repository with what is modelled of each. Definitions named as variants of
others (`SentUnlocked`, `AdmitsStale`, ...) are plausible mistakes, used to show
that a property can fail; no specification uses them.

### The live PostgreSQL runtime

| Module | Code | State and steps |
|---|---|---|
| `UserDatabase`, `PublicationLog` | `platform/postgres.py` | Provision, snapshot and publish statement by statement: advisory lock, row lock, REPEATABLE READ view, inserts, and a connection that breaks anywhere, also between a commit and its acknowledgement. `PublicationLog` is what callers are promised. |
| `ModelExecution` | `composition/postgres_execution.py`, `postgres_model_recovery.py`, `postgres_run_recovery.py` | Worker token, tenant head, Run chain, custody rows, suspension baselines, batches computed and not yet published (`inflight`), model calls in progress (`invs`). |
| `DeploymentGate` | `platform/postgres_gate.py` | `require`, `crossed` and the two gate tables, as operators of the calling transaction. |
| `Planning` | `composition/postgres_planning.py` | One action per operation, with the joint plan-and-effect publication. |
| `Effects`, `EffectEvidence` | `composition/postgres_effects.py`, `postgres_effect_work.py` | Calls and compensations from preview to closure; the provider may act and lose its response, and may sign late or contradicting receipts. `EffectEvidence` is `reduce_child_evidence`. |
| `Delivery` | `composition/postgres_completion.py`, `adapters/driven/delivery_local_cli.py` | Acceptance, send, claim, emission and receipt; the inbox file is linked, then its directory synced, and a loss of power may remove what was not synced. |
| `ReadOnly` | `composition/postgres_readonly.py`, `postgres_readonly_successor.py` | Accept, read and outcome of a read-only call as three steps; retries in the same Run or in a successor. |
| `Scheduler` | `composition/postgres_scheduler.py` | Cycles, overflow and its resolution, leases, and a wall clock that may be set back. |
| `NativeIngress` | `composition/postgres_ingress.py` and the native transports | Submissions from several processes up to the acknowledgement. |
| `IngressCustody`, `IngressFairness`, `RetainedSource` | `platform/_ingress_domain.py`, `adapters/driven/ingress_retained_source.py` | Staging, quarantine, drain and closure of an epoch; the deficit round robin and its deadlines; the transfer log of the retained source. |

Every publication is a batch appended on an expected head, under the row lock of
`user_state`. Most operations read a snapshot, compute, and publish only if the
head has not moved; these are two steps in the models. Others do everything in
one locked transaction and are one step. `ImplementsLog` shows that publishing in
`UserDatabase` implements one atomic append, which is why the other modules treat
a publication as one step. Opening a runtime replaces the worker token, and every
later transaction of an older runtime is refused. Calls to the outside run
outside any transaction, after their intent has been committed.

### The authority broker

| Module | Code | State and steps |
|---|---|---|
| `BrokerRuntime` | `platform/r7_runtime.py`, `platform/authority_gate.py`, `composition/r7_supervisor.py` | Threads that call an owner over one connection per generation, the connection lock, the gate, a generation whose start fails, retirement and quarantine. |
| `AuthorityStore` | `platform/_sqlite.py`, the event appender | Two lanes, admission, retries, faults and a close that races submissions. |
| `AuthorityBundle`, `AuthorityReads`, `ReadLedger` | `composition/r13_runtime.py`, `platform/authority_ledger.py`, `authority_reads.py`, `read_ledger.py` | Failed commits, torn appends, restarts, recovery; paged reads that race publications and restores. |
| `CheckpointStore` | `platform/authority_checkpoint.py` | `stage_verified` and resolution file operation by file operation; an fsync may fail, the process may be killed, and a loss of power undoes what a directory's last sync does not cover. |
| `TrustLog`, `DeploymentTrust` | `platform/r7_trust_durability.py`, `adapters/driven/deployment_trust/_journal.py`, `capabilities/deployment_trust/` | Durable steps of a decision, crashes, errors and short writes between them, recovery by replay. |
| `GateJournal` | `platform/r8_gate.py`, `composition/r8.py` | Handoffs of creates and renders, imports, torn entries, pending decisions. |
| `PlanningRuntime` | `composition/r6.py` | Create, render and trust decisions with concurrent callers. |

### Capabilities and their owners

| Module | Code | State and steps |
|---|---|---|
| `AgentLoop` | `capabilities/agent_loop/application.py`, `domain.py` | Turns, calls, continuation, completion, adoption of a new worker. |
| `Workspace`, `Screens` | `composition/r12.py`, `r13_workspace.py`, `capabilities/projections/` | Reads across awaits while other owners publish; the bindings of the conversation a workspace was opened for; issued screens, cache and budget. |
| `CalendarReads` | `composition/r11.py`, `adapters/driven/calendar_reads.py` | Acquisition, cursors, invalidation, original reads. |
| `EvidenceJournal` | `capabilities/evidence_journal/` | Candidates, displays, confirmations, retractions, the projection. |
| `SchedulerOwner`, `SchedulerLease` | `capabilities/agent_loop/scheduler_*.py` | Configuration, preparation and resolution of intervals; acquire, renew, takeover and rollover of leases. |
| `EffectsOwner`, `DispatchV2`, `HermeticDispatch` | `capabilities/effects/`, `adapters/driven/effects_hermetic.py` | Callers that prepare on one head and publish on another; custody and receipts in journals several processes share and may leave with a short last line. |
| `ExecutionOwner`, `RetainedCalls` | `capabilities/agent_loop/execution_*.py`, `composition/r14_*.py` | Attempts, fan-out, cancellation, accounting, completion. |

### Roots of the runs

`MCUserDatabase` and `MCModelExecution` instantiate one module each. `MCLive`,
`MCBroker` and `MCCapabilities` hold the others side by side: `part` says which
component a behaviour exercises, `v1`, `v2`, ... are the variables of that
component in its module's order, and each component is an `INSTANCE` with its
constants and these variables. A behaviour stays in one component, so the state
space is the sum of the components' and not their product; a property of a root
says `part = "X" => X!Property`. The constants' assumptions are ASSUMEd there.

## What the runs check

All runs but the last two pass.

- `user_database` (two connections; repeated, conflicting, colliding and stale
  publications): every commit extends the head its caller read, every snapshot is
  a prefix, no integrity error is met, publishing implements the log, every call
  returns or breaks.
- `model_execution` (two runtimes of two sessions, one Run, two Turns, one
  replacement, nine publications): one request leaves per Turn, custody holds the
  genuine response of the selected attempt, decided facts stay, and the execution
  lane is released.
- `live`: planning (four commands that share identities, three instants, two
  entitlements), one effect of two members with a late receipt, one effect and its
  compensation, one delivery and two competing ones, two sibling read-only calls.
- `intake`: two runtimes over a schedule of two occurrences, two processes that
  submit two bodies under one identity, the custody of two receipts, the deadlines of
  one of three classes, and two adapters over the retained source.
- `broker_state`: two processes over one bundle with one operation of each kind
  and two faults; pages of one row, so that a walk takes four releases.
- `broker_trust`: concurrent stages whose returned bytes survive losses of power
  (`ReturnedBytesSurvive`), planning calls, two writers of the trust log through two
  faults, the deployment's trust through a crash or a failed materialization, two
  processes at the gate.
- `broker_progress`: the appender with queues of one, and two callers while the
  supervisor replaces the generation, whose start may fail: answers stay true, also
  the refusals, accepted commands are answered, replies are paired, every call
  returns.
- `loop`: the agent loop with two Runs and two tasks, workspace, screens, calendar
  and journal, each with somebody who changes the state between two steps.
- `owners_schedule`: the scheduler's owner, the lease domain up to exhausted
  generations, the effects owner with two intents for one target, with one intent
  that is retransmitted and observed twice, and with one of two members, where
  outcomes may be partial.
- `owners_execution`: the hermetic provider, whose two journals stay in the order
  their loader demands (`ProviderJournalsStayInOrder`), dispatch of a V2 and a scoped
  V3 intent, the execution owner through a worker restart, retained calls.
- `broker_runtime_replaced` **finds a violation**. `_call_admitted` says "The
  connection lock remains held only to pair this response to its request", but
  when leaving the gate raises because its lock file was replaced, the lock is
  released with the reply unread, and the next caller takes it for its own
  (`platform/r7_runtime.py:1167`).
- `checkpoint_race` **finds a violation**. `stage_verified` links a file and
  unlinks the temporary name afterwards, and a reader refuses a file with two
  names; a concurrent stage of the same bytes may raise in that window
  (`platform/authority_checkpoint.py:271`), while
  `tests/platform/test_authority_checkpoint.py:169` expects four equal references.

### Bounds

Two runtimes, processes or callers give a stale and a current one, and either may
crash. Two Turns and one replacement give an attempt of an earlier Turn and one of
an earlier generation. Two members of a bundle give full, partial and failed
outcomes; one late receipt agrees with the first or contradicts it. Six heads of
`EffectsOwner` are just enough for both intents to be accepted, authorized and
sent, so the replacement the code must refuse would be reached; a second instance
follows one intent through seven heads, with a retransmission and two reports, and
a third one does so with two members and a single caller. `Screens` keeps the
three most recently navigated families and the instance has three, so the truncation
itself is not exercised. Clocks run across
the end of each window, so the boundary instants occur; the lease domain has four
readings of the clock for leases of at most two. Every `Max...` constant that caps a counter
(`MaxHead`, `MaxFaults`, `MaxClock`, `MaxCalls`, `MaxEpoch`, ...) exists for TLC
only; the theorems hold for every value of it.

### How to read some of the properties

- `BundleFollowsDecisions` and `HandoffsAreEntitledAndRecoverable` speak of the whole
  lines of a journal. Once a line is torn nothing decided has been lost, but startup
  and recovery refuse the journal for good.
- `ReturnedBytesSurvive` excludes a directory of which an fsync failed, and one that
  was itself lost with the power (see the observations).
- `ClaimsAreLive`, a part of `EffectStepsAreLive`, states the guards of
  `emit_effect` at the step that takes effect: what it adds is that no check made on an
  earlier snapshot is relied on there. `ClosedEpochLosesNothing`, a part of
  `CustodyLosesNothing`, is likewise close to the closing condition of an epoch, and
  adds that no receipt is allocated, staged or parsed behind it.
- `RecoveredTrustIsLive` and `PoliciesStayReadable` name the cases the code does not
  protect: a process that runs on after its materializer failed, a torn append, and a
  command used twice.
- `DispatchFollowsTheMandate` speaks of the fence and the clock at the preparation of
  a send: the publication compares only the head.
- `InventoryIsTheHistory` has one retained exchange at a time.

### Symmetry, deadlock and fairness

`a1, a2`, `b1, b2` and `c1, c2` are interchangeable in the runs that declare
symmetry, all of which check safety only. Only `user_database` checks for
deadlock: elsewhere the system may stop, once every process has crashed or a
bound on publications, faults or time is reached.

Fairness is assumed where the code's scheduling gives it: a live process runs its
coroutines and each await of a model call ends, because the transport has a timeout
(`ModelExecution`); a connection executes its next statement and a waiter for the
row lock is served, because PostgreSQL queues them (`UserDatabase`); the appender's
thread takes, executes and finishes commands (`AuthorityStore`); threads are
scheduled, a lock that stays free is granted, and an owner answers or dies
(`BrokerRuntime`). Nobody is assumed to start an operation. The other modules have
no fairness, since no loop in the repository retries their operations.

## What is proved

A theorem holds for any sets of processes, Runs, names and values and any bounds.
It has the form `Assumption /\ Spec => []Property`, where the assumption only says
that bounds are natural numbers and that null values differ from real ones
(`StreamsAssumption` also that a bundle has a member and that a compensation has an
original; `RuntimeAssumption` that there are finitely many threads). The roots
ASSUME the same formulas of their instances, so TLC evaluates them. Every
inductive invariant was first checked by TLC on the instance of its run.

None of the properties is inductive alone. What each proof adds:

- **`ModelExecutionInvariant`, `ModelExecutionProofs`** (`OneRequestPerTurn`,
  `CustodyIsExact`, `HistoryIsFinal`, type correctness): a batch whose expected head
  is still the head is exactly what its operation computes from the record still
  selected (`ProposalInv`), which carries the check made on the snapshot over to the
  publication; the shape of a Run by phase and the custody of its attempt
  (`RunInv`); which attempts have rows (`CustodyInv`); what each phase of a pending
  model call may rely on (`InvocationInv`).
- **`UserDatabaseProofs`** (`PublicationsAreSerial` and the refinement
  `ImplementsLog`): the committed tables are complete and a key names one
  publication (`LogInv`), the advisory lock protects provisioning (`ProvisionInv`),
  and at each statement a connection's row, view and written batch are those of a
  prefix of the log (`ConnInv`). Each statement then maps to a step or a stutter of
  `PublicationLog`.
- **`EffectsProofs`** (`EffectsAreExact` and the two action properties of
  `EffectStepsAreLive`): a closure is the reduction of observations that are still
  retained (`StreamInv`), a call's state is a function of its stream's records
  (`CallInv`), the one job that emits a stream finds it not emitted (`JobsInv`), and
  handoffs, sends and their order are one history (`GateInv`). That closures never
  flip follows from two lemmas about `reduce_child_evidence`: more evidence never
  turns one closed outcome into another (`ClosedOutcomesNeverFlip`), and a member no
  receipt has reported keeps an effect open (`AbsenceNeverCloses`).
- **`DeliveryProofs`** (`DeliveryIsExact`): a Run is SUCCEEDED exactly when it is
  accepted, at a cut no later than the present one (`AcceptInv`); a confirmation
  implies a synced file and a file implies the one provider call (`SendInv`); the
  conversation holds each SUCCEEDED Run once (`HistoryInv`).
- **`SchedulerLease`** (`LeaseIsExclusive`; the proof follows the specification):
  published leases are ordered within an epoch and epochs only grow, so a candidate
  whose cut is not the selected view is older than it and can never be published
  (`CandidateInv`, `Later`); one whose cut is selected is a transition its service
  is entitled to.
- **`NativeIngress`** (`AckIsSelectedCustody`; in the module): the log admits an
  identity once (`OneInbox`), so a lookup returns the custody of that identity and
  what was acknowledged stays the only one.
- **`BrokerRuntime`** (`RepliesArePaired`; in the module): the count of admitted
  calls is the number of actors inside the generation, the holder of the connection
  lock is one of them, and a live connection carries the frame of that holder or
  nothing (`ConnInv`). The theorem is about `Spec`; under `SpecWithReplacement`,
  where the gate's lock file may be replaced, the run `broker_runtime_replaced`
  refutes the same property.

Each proof has one lemma per action, over lemmas that say what a step leaves alone.

### Only model-checked

- Liveness: `LaneIsReleased`, `CallsReturn`, `AcceptedIsAnswered`,
  `RuntimeCallsReturn`. The prover has no support for fairness.
- `DiscoveryIsComplete`, a part of `EffectStepsAreLive`: it is about recursive paging
  and needs induction over data, which the prover cannot do.
- The safety properties of the other components: `Planning`, `ReadOnly`,
  `Scheduler`, `IngressCustody`, `IngressFairness`, `RetainedSource`, the broker
  besides `BrokerRuntime`, and the capabilities besides `SchedulerLease`. Several
  of them compute by recursion over sequences, which is out of the prover's reach as
  well; for the rest no inductive invariant has been worked out.

## What the models leave out

- Digests, canonical bytes, signatures and rendered text are abstract values; an
  authentic receipt is one the provider produced.
- `ModelExecution`: the retry budget is a number (the code also allows none); a
  trust revocation and the bound on request bytes are left out. A replay of a key
  returns a recorded value and has no action.
- `Effects`: one Run. `suspend_execution` also needs a sealed Turn, which is left
  out, so the model suspends more often than the code. The scheduler's fence and the
  emission of plan effects are left out.
- `Delivery`: the local inbox binding only. `Planning`: one caller, and trust is
  absent, valid or revoked. `Scheduler`: one schedule, not composed with
  `ModelExecution`.
- `CheckpointStore`: `composition/h1_v2_authority_cut.py`. `AuthorityStore`:
  validation of a record is one predicate, never false in the instance.
- `SchedulerOwner`: `scheduler.prepare_mandate_issuance`
  (`capabilities/agent_loop/_scheduler_process.py:49`), which compiles a record from
  its request and changes no state. `IngressFairness`: the scheduler that
  visits the classes is in no file of the repository; it is the environment the two
  deadline functions presume.
- `AgentLoop`: `replace_unemitted` and a live model recipient. `ExecutionOwner`:
  REPLACE and COMPLETE proposals, which have no mounted verifier, and
  `start_successor_execution_turn`, which nothing calls. `RetainedCalls`: a delivery
  completion after a fan-out (`capabilities/agent_loop/domain.py:570`), which has no
  publisher (`composition/r14_fanout_records.py:98` passes no observation).
  `DispatchV2`: the
  V3 dispositions before a send, which the code holds as not implemented.
- Not modelled at all: the application driver, which sequences modelled operations;
  cursors and digests of history pages; the model transport; producers of H1
  records no runtime publishes yet; the tooling of the repository.

## Observations made while modelling

These are behaviours a reader of the code may want to know; no document
contradicts them, and the models include them unless listed above.

- A Turn continued but not emitted when a takeover happens belongs to the old
  session, and only an abort leaves it (`composition/postgres_execution.py:470`).
- A receipt that arrives after acceptance leaves a delivery held
  (`composition/postgres_completion.py:294`).
- `DeploymentTrust`: after a materializer error the R6 process runs on with the old
  aggregate. A restart then repairs the materialization; if the process appends
  another decision instead, recovery materializes the missing one last and the
  aggregate is lost for good (`capabilities/deployment_trust/_model.py:201`).
- `TrustLog`: a crash, an error or a short write between body and head is repaired by
  nothing, and the log is refused from then on. A command or source identity used
  twice is appended (`platform/r7_trust_durability.py:542`), and the reader then
  refuses the whole lineage
  (`platform/prepared_self_delivery_policy_lineage.py:126`).
- `CheckpointStore`: a kill between link and unlink, or a loss of power that brings
  the temporary name back, leaves a file with two names, which is refused from then
  on. A failed sync of the directory leaves a file that a later call returns a
  reference to without syncing it.
- `RetainedSource` and `HermeticDispatch`: a line that lacks only its newline still
  decodes; the next append continues it, and the file then never decodes again
  (`adapters/driven/effects_hermetic.py:334`, `:363`; the loader at `:243`).
- `Workspace`: `read_batch` checks `_active` before its await only, and concurrent
  `_workspace` calls may leave two workspaces.
- `HermeticDispatch`: a kill between creating and writing the custody file leaves an
  empty one. `GateJournal`: a torn journal is terminal, and the production gate has no
  `authenticate`, so each R8 create is held. `PlanningRuntime`: a retry after a trust
  decision is answered CONFLICT, not REPLAY.
- `DispatchV2`: preparing a retransmission does not recheck horizon and fence, and
  after one `prepare_outcome` no longer interprets. `ExecutionOwner`: a second
  accumulation makes provenance stale, and a worker restart strands a captured Run;
  acceptance under V2 (`composition/r14_acceptance_v2_records.py:42`) does not compare
  the intent with the history, as V1 does
  (`composition/r14_acceptance_records.py:267`); and a V2 registry sealed for a Turn
  that showed no workspace cannot be completed on the first path.
- `EvidenceJournal`: any commit after a candidate makes its display unconfirmable.

## Running

`tlc -config <file>.cfg <root>` for each run of `PROJECT.json`, `tlapm <module>.tla`
for each module with theorems.
