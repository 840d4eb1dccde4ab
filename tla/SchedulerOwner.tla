--------------------------- MODULE SchedulerOwner ---------------------------
(***************************************************************************)
(* The isolated scheduler owner: prepare_configuration,                    *)
(* prepare_interval_request and what they call in                          *)
(* capabilities/agent_loop/scheduler_configuration.py,                     *)
(* scheduler_domain.py and scheduler_materialization.py.                   *)
(*                                                                         *)
(* A client builds a command from heads it observed earlier.  The broker   *)
(* reproduces the current records as the request's snapshot, the owner     *)
(* computes a batch from command and snapshot, and the broker publishes    *)
(* the batch if the tenant frontier of the snapshot is still current.  The *)
(* broker's publication is external code; a refused command leaves no      *)
(* trace and has no action.                                                *)
(*                                                                         *)
(* Heads and fingerprints are the records they digest.  Sizes are counted  *)
(* in members for a manifest and in records for a batch.                   *)
(***************************************************************************)
EXTENDS Integers, FiniteSets

CONSTANTS
    Clients,        \* authorised scheduler services
    Definitions,    \* FixedIntervalDefinition: [start, period, end]; end 0 is NO_END
    Policies,       \* subset of {"SKIP", "COALESCE", "MATERIALIZE_EACH"}
    Bounds,         \* SchedulerIntervalBound: [members, manifest, batch]
    MaxCutoff,      \* bound on due coordinates, for TLC only
    MaxGeneration,  \* the largest UInt64 bound generation
    MaxRevision,    \* bound on amendments of a stream, for TLC only
    MaxRestarts,    \* bound on broker restarts, for TLC only
    MaxBatches,     \* bound on published batches, for TLC only
    None

\* What the constants have to satisfy.
OwnerAssumption ==
    /\ \A d \in Definitions : d.start \in Nat /\ d.period \in Nat \ {0} /\ d.end \in Nat
    /\ Policies \subseteq {"SKIP", "COALESCE", "MATERIALIZE_EACH"}
    /\ \A b \in Bounds : b.members > 0 /\ b.manifest > 0 /\ b.batch > 0

VARIABLES
    frontier,   \* tenant frontier: number of published batches
    authority,  \* authority epoch, broker and runtime graph generation
    config,     \* ConfigurationSnapshot: schedule, policy, bound
    hold,       \* the active SchedulerOverflowHold, or None
    boundary,   \* previous_due_boundary of the next interval
    disposed,   \* published dispositions: [rev, due, kind]
    roots,      \* published execution lineages: the members of their subjects
    intervals,  \* published intervals, with the definition in force
    observed,   \* what every client last read, or None
    prepared    \* the owner's unpublished batch of every client, or None

vars == <<frontier, authority, config, hold, boundary, disposed, roots, intervals,
          observed, prepared>>
published == <<config, hold, boundary, disposed, roots, intervals>>
-----------------------------------------------------------------------------
(* The occurrence algebra.                                                 *)

Greater(a, b) == IF a > b THEN a ELSE b
Lesser(a, b) == IF a < b THEN a ELSE b

\* _validate_definition; "NO_END" is 0.
ValidDefinition(d) == d.end # 0 => d.end > d.start

\* definition_enumeration: the first index whose due coordinate is not below t.
FirstIndex(d, t) == Greater(0, (t - d.start + d.period - 1) \div d.period)

\* definition_enumeration and definition_members: the due coordinates of the
\* half-open interval that this revision has not disposed of.
definition_members(d, from, cutoff, done) ==
    LET stop  == IF d.end = 0 THEN cutoff ELSE Lesser(cutoff, d.end)
        first == FirstIndex(d, from)
        last  == Greater(first, FirstIndex(d, stop))
        index(due) == (due - d.start) \div d.period
    IN {d.start + i * d.period : i \in (first..(last - 1)) \ {index(due) : due \in done}}

policy_branch(policy, n) ==
    CASE n = 0 -> "BOUNDARY_ONLY_NO_WORK"
      [] policy = "SKIP" -> "SKIP_ALL"
      [] policy = "COALESCE" -> IF n = 1 THEN "COALESCE_SINGLE" ELSE "COALESCE_MULTI"
      [] OTHER -> IF n = 1 THEN "MATERIALIZE_EACH_SINGLE" ELSE "MATERIALIZE_EACH_MULTI"

execution_subjects(branch, members) ==
    CASE branch \in {"BOUNDARY_ONLY_NO_WORK", "SKIP_ALL"} -> {}
      [] branch = "COALESCE_MULTI" -> {members}
      [] OTHER -> {{t} : t \in members}

DispositionKind(branch) ==
    CASE branch = "SKIP_ALL" -> "SKIPPED"
      [] branch = "COALESCE_MULTI" -> "COALESCED_INTO"
      [] OTHER -> "CLAIMED_INDIVIDUALLY"

\* materialize_occurrence: the Run and its lineage, identified by the subject.
Root(rev, subject) == [rev |-> rev, subject |-> subject]

\* materialize_occurrence: primitive, lineage, epoch, selector, genesis lease,
\* Run, initialization, reciprocal and companion, one disposition a member and
\* the aggregate of a coalesced subject.
MembersOf(branch, subject) ==
    9 + Cardinality(subject) + (IF branch = "COALESCE_MULTI" THEN 1 ELSE 0)

\* _compile: the number of records of the whole batch.
BatchSize(kind, branch, members) ==
    LET subjects == execution_subjects(branch, members)
        materialised == CASE subjects = {} -> 0
                          [] branch = "COALESCE_MULTI" -> MembersOf(branch, members)
                          [] OTHER -> Cardinality(subjects) * MembersOf(branch, {0})
        skipped == IF branch = "SKIP_ALL" THEN Cardinality(members) ELSE 0
    IN 2 + materialised + skipped + (IF kind = "RESOLUTION" THEN 1 ELSE 0)
-----------------------------------------------------------------------------
(* The owner's batches: what publication will make current.                *)

\* The fields of the published state a batch leaves alone.
Same == [config |-> config, hold |-> hold, boundary |-> boundary,
         disposed |-> disposed, roots |-> roots, intervals |-> intervals]

DisposedDues == {r.due : r \in {x \in disposed : x.rev = config.schedule.rev}}

\* The boundary a command names: the heads it observed, and its cutoff.
Boundary(seen, cutoff) ==
    [schedule |-> seen.config.schedule, policy |-> seen.config.policy,
     from |-> seen.boundary, cutoff |-> cutoff, predecessor |-> seen.intervals]

\* stream_definition: the manifest is retained while it fits the bound.
Measure(b, done, limits) ==
    LET members == definition_members(b.schedule.def, b.from, b.cutoff, done)
    IN [members |-> members,
        form |-> IF Cardinality(members) <= limits.manifest
                 THEN "FULL_MANIFEST" ELSE "STREAMING_MANIFEST"]

\* _overflow_candidate: one record, which moves no boundary.
Hold(b, dimension, evidence) ==
    [Same EXCEPT !.hold = [boundary |-> b, bound |-> config.bound,
                           dimension |-> dimension, evidence |-> evidence]]

\* _compile: the decision disposes of every member and moves the boundary.
Compiled(b, members) ==
    LET branch == policy_branch(b.policy.kind, Cardinality(members))
        rev == b.schedule.rev
    IN [Same EXCEPT
          !.hold = None,
          !.boundary = b.cutoff,
          !.disposed = @ \cup {[rev |-> rev, due |-> t, kind |-> DispositionKind(branch)] :
                                 t \in members},
          !.roots = @ \cup {Root(rev, s) :
                              s \in execution_subjects(branch, members)},
          !.intervals = @ \cup {[from |-> b.from, cutoff |-> b.cutoff, rev |-> rev,
                                 def |-> b.schedule.def, members |-> members]}]

\* prepare_interval_request for scheduler.decide_interval: prepare_interval or
\* prepare_streamed_overflow.
Decided(b, evidence) ==
    LET members == evidence.members
        limits == config.bound.limits
        branch == policy_branch(b.policy.kind, Cardinality(members))
    IN CASE Cardinality(members) > limits.members -> Hold(b, "MEMBER_COUNT", evidence)
         [] evidence.form = "STREAMING_MANIFEST" -> Hold(b, "MANIFEST_BYTES", evidence)
         [] BatchSize("ORDINARY", branch, members) > limits.batch ->
              Hold(b, "SERIALIZED_BATCH_BYTES", evidence)
         [] OTHER -> Compiled(b, members)

\* The checks of a boundary against the snapshot, and of the submitted
\* membership against the complete enumeration.
BoundaryIsCurrent(b) ==
    /\ config.schedule # None /\ config.bound # None
    /\ b.from = boundary /\ b.predecessor = intervals
    /\ b.schedule = config.schedule /\ b.policy = config.policy
    /\ b.cutoff >= b.from

\* What the client enumerated from its own observation.
Submitted(seen, b) ==
    Measure(b, {r.due : r \in {x \in seen.disposed : x.rev = b.schedule.rev}},
            seen.config.bound.limits)
-----------------------------------------------------------------------------
Init ==
    /\ frontier = 0 /\ authority = 0
    /\ config = [schedule |-> None, policy |-> None, bound |-> None]
    /\ hold = None /\ boundary = 0
    /\ disposed = {} /\ roots = {} /\ intervals = {}
    /\ observed = [c \in Clients |-> None]
    /\ prepared = [c \in Clients |-> None]

\* A client reads the published heads.
Observe(c) ==
    /\ prepared[c] = None /\ frontier < MaxBatches
    /\ observed' = [observed EXCEPT ![c] =
         [config |-> config, hold |-> hold, boundary |-> boundary,
          disposed |-> disposed, intervals |-> intervals, authority |-> authority]]
    /\ UNCHANGED <<frontier, authority, prepared>> /\ UNCHANGED published

\* _batch: the owner's answer, bound to the cut of its snapshot.
Prepare(c, next) ==
    /\ prepared' = [prepared EXCEPT ![c] = [cut |-> frontier, next |-> next]]
    /\ observed' = [observed EXCEPT ![c] = None]
    /\ UNCHANGED <<frontier, authority>> /\ UNCHANGED published

Ready(c) == observed[c] # None /\ prepared[c] = None /\ frontier < MaxBatches

genesis(c) ==
    /\ Ready(c)
    /\ config.schedule = None /\ config.policy = None /\ config.bound = None /\ hold = None
    /\ \E d \in Definitions, p \in Policies, b \in Bounds :
         /\ ValidDefinition(d)
         /\ Prepare(c, [Same EXCEPT !.config =
              [schedule |-> [rev |-> 0, def |-> d], policy |-> [rev |-> 0, kind |-> p],
               bound |-> [gen |-> 0, limits |-> b]]])

\* Mutant: an amendment looks at the observed heads only.
HeadsAreCurrent(c) ==
    /\ config.schedule # None
    /\ observed[c].config.schedule = config.schedule
    /\ observed[c].config.policy = config.policy

\* amend: exact heads, and no active hold.
CanAmend(c) ==
    /\ config.schedule # None
    /\ observed[c].config.schedule = config.schedule
    /\ observed[c].config.policy = config.policy
    /\ hold = None

amend_schedule(c) ==
    /\ Ready(c) /\ CanAmend(c) /\ config.schedule.rev < MaxRevision
    /\ \E d \in Definitions :
         /\ ValidDefinition(d)
         /\ Prepare(c, [Same EXCEPT !.config.schedule =
              [rev |-> config.schedule.rev + 1, def |-> d]])

amend_policy(c) ==
    /\ Ready(c) /\ CanAmend(c) /\ config.policy.rev < MaxRevision
    /\ \E p \in Policies :
         Prepare(c, [Same EXCEPT !.config.policy = [rev |-> config.policy.rev + 1, kind |-> p]])

\* The bound may be replaced during a hold; its generation must not wrap.
replace_bound(c) ==
    /\ Ready(c)
    /\ observed[c].authority = authority
    /\ config.bound # None /\ observed[c].config.bound = config.bound
    /\ config.bound.gen < MaxGeneration
    /\ \E b \in Bounds :
         Prepare(c, [Same EXCEPT !.config.bound = [gen |-> config.bound.gen + 1, limits |-> b]])

decide_interval(c) ==
    /\ Ready(c) /\ observed[c].config.schedule # None
    /\ hold = None
    /\ observed[c].config.bound = config.bound
    /\ \E cutoff \in 0..MaxCutoff :
         LET b == Boundary(observed[c], cutoff)
             evidence == Measure(b, DisposedDues, config.bound.limits)
         IN /\ BoundaryIsCurrent(b)
            /\ Submitted(observed[c], b) = evidence
            /\ Prepare(c, Decided(b, evidence))

\* prepare_resolution: the exact active hold under a successor bound that
\* admits its whole membership.
Resolvable(h, evidence) ==
    LET branch == policy_branch(h.boundary.policy.kind, Cardinality(evidence.members)) IN
    /\ BoundaryIsCurrent(h.boundary)
    /\ config.bound.gen > h.bound.gen
    /\ evidence.form = "FULL_MANIFEST"
    /\ evidence.members = h.evidence.members
    /\ Cardinality(evidence.members) <= config.bound.limits.members
    /\ BatchSize("RESOLUTION", branch, evidence.members) <= config.bound.limits.batch

resolve_interval(c) ==
    /\ Ready(c) /\ observed[c].config.schedule # None
    /\ hold # None /\ observed[c].hold = hold
    /\ observed[c].config.bound = config.bound
    /\ LET evidence == Measure(hold.boundary, DisposedDues, config.bound.limits)
       IN /\ Resolvable(hold, evidence)
          /\ Submitted(observed[c], hold.boundary) = evidence
          /\ Prepare(c, Compiled(hold.boundary, evidence.members))

\* The broker publishes the batch at the cut it was prepared for, or drops it.
Publish(c) ==
    /\ prepared[c] # None /\ frontier < MaxBatches
    /\ prepared' = [prepared EXCEPT ![c] = None]
    /\ \/ /\ prepared[c].cut = frontier
          /\ frontier' = frontier + 1
          /\ config' = prepared[c].next.config /\ hold' = prepared[c].next.hold
          /\ boundary' = prepared[c].next.boundary
          /\ disposed' = prepared[c].next.disposed
          /\ roots' = prepared[c].next.roots
          /\ intervals' = prepared[c].next.intervals
       \/ /\ prepared[c].cut # frontier
          /\ UNCHANGED <<frontier>> /\ UNCHANGED published
    /\ UNCHANGED <<authority, observed>>

\* A new broker process: another authority epoch and runtime graph.
RestartBroker ==
    /\ authority < MaxRestarts
    /\ authority' = authority + 1
    /\ prepared' = [c \in Clients |-> None]
    /\ UNCHANGED <<frontier, observed>> /\ UNCHANGED published

Next ==
    \/ RestartBroker
    \/ \E c \in Clients :
         \/ Observe(c) \/ genesis(c) \/ amend_schedule(c) \/ amend_policy(c)
         \/ replace_bound(c) \/ decide_interval(c) \/ resolve_interval(c) \/ Publish(c)

Spec == Init /\ [][Next]_vars
-----------------------------------------------------------------------------
\* What a definition means: its due coordinates in a half-open interval.
Due(d, from, cutoff) ==
    {t \in from..(cutoff - 1) : /\ t >= d.start /\ (t - d.start) % d.period = 0
                                /\ d.end # 0 => t < d.end}

\* Published intervals follow one another without gap or overlap up to the
\* current boundary, and each disposed of exactly the due coordinates of the
\* definition then in force: index arithmetic, amendments between intervals and
\* resolved holds lose no occurrence and dispose of none twice
\* (scheduler_configuration.definition_enumeration).
IntervalsPartitionTime ==
    /\ \A i \in intervals : i.members = Due(i.def, i.from, i.cutoff)
    /\ \A t \in 0..(boundary - 1) :
         Cardinality({i \in intervals : i.from <= t /\ t < i.cutoff}) = 1
    /\ \A i \in intervals : i.cutoff <= boundary
    /\ Cardinality({r.due : r \in disposed}) = Cardinality(disposed)
    /\ \A r \in disposed : r.kind = "SKIPPED" <=> ~ \E s \in roots : s.rev = r.rev /\ r.due \in s.subject

\* Whatever was amended, replaced or restarted since, the boundary of an active
\* hold is still current and the interval still has exactly the membership that
\* was held, so a large enough successor bound resolves it
\* (scheduler_materialization.prepare_resolution refuses a resolution whose
\* boundary or membership changed).  A successor exists while the generation of
\* the bound is below the largest one.
HeldWorkIsResolvable ==
    hold # None =>
        /\ BoundaryIsCurrent(hold.boundary)
        /\ definition_members(config.schedule.def, hold.boundary.from, hold.boundary.cutoff,
                              DisposedDues) = hold.evidence.members
=============================================================================
