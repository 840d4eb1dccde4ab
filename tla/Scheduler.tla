------------------------------ MODULE Scheduler ------------------------------
(***************************************************************************)
(* The native scheduler: composition/postgres_scheduler.py with the pure   *)
(* occurrence algebra of capabilities/agent_loop/scheduler_domain.py and   *)
(* composition/postgres_scheduler_records.py.                              *)
(*                                                                         *)
(* One schedule of a user disposes of its occurrences interval by          *)
(* interval.  An interval that exceeds the adopted bound is held until a   *)
(* larger bound is adopted for exactly that interval.  Materialised        *)
(* occurrences create Runs whose later publications need a live lease of   *)
(* the publishing runtime.  Every runtime reads the same wall clock, which *)
(* may be stepped back, and refuses a reading below its own last one; a    *)
(* new process has no last reading.                                        *)
(*                                                                         *)
(* A cycle and a resolution compute from one snapshot and publish on an    *)
(* unchanged head, so each is one step; a lease transition also reads the  *)
(* clock in its transaction, so it is two.  Replay of an act changes       *)
(* nothing and has no action.                                              *)
(***************************************************************************)
EXTENDS Naturals, FiniteSets

CONSTANTS
    Runtimes,      \* runtime processes; each is opened at most once
    Start, Period, \* draft.start_ns and draft.period_ns
    End,           \* draft.end_exclusive_ns
    Policies,      \* missed-occurrence policies a draft may choose
    Bounds,        \* interval bounds a draft or a resolution may name
    Duration,      \* lease_duration_ns
    MaxClock,      \* the largest UInt64 clock reading and expiry
    MaxGeneration, \* the largest UInt64 lease generation
    MaxWork,       \* bound on publications per scheduled Run, for TLC only
    MaxSetbacks,   \* bound on backward steps of the wall clock, for TLC only
    None

Min2(a, b) == IF a < b THEN a ELSE b
Max2(a, b) == IF a > b THEN a ELSE b

\* What the constants have to satisfy.
SchedulerAssumption ==
    /\ Start \in Nat /\ End \in Nat /\ Start < End
    /\ Period \in Nat \ {0} /\ Duration \in Nat \ {0}
    /\ \A b \in Bounds : b.members \in Nat \ {0} /\ b.batch \in Nat \ {0}

VARIABLES
    worker, opened,  \* the runtime whose token is current; runtimes opened
    clock, setbacks, \* the wall clock, and how often it was stepped back
    last,            \* _last_clock of every runtime
    config,          \* the adopted Configuration, or None
    bound,           \* the selected SchedulerIntervalBoundHead
    boundary,        \* cutoff of the last ordinary interval
    held,            \* the overflow interval that is held, or None
    disposed,        \* how often every occurrence was disposed of
    roots,           \* materialised lineages: their members
    lease,           \* the selected lease of every root
    pending,         \* lease transitions computed and not yet published
    work,            \* publications of every scheduled Run: the leases used
    valid            \* every published record passes the reader's validation

vars == <<worker, opened, clock, setbacks, last, config, bound, boundary, held,
          disposed, roots, lease, pending, work, valid>>
\* _selected: what the published batches of the schedule reduce to.
schedule == <<config, bound, boundary, held, disposed, roots>>
leases == <<lease, pending, work>>
-----------------------------------------------------------------------------
Unleased == [kind |-> "UNLEASED", holder |-> None, gen |-> 0, expiry |-> 0]

\* prepare_members and eligible_manifest: the half-open interval of occurrences.
prepare_members(a, b) ==
    {t \in a..(b - 1) : t >= Start /\ (t - Start) % Period = 0}

Occurrences == {t \in Start..(End - 1) : (t - Start) % Period = 0}

policy_branch(policy, n) ==
    CASE n = 0 -> "BOUNDARY_ONLY_NO_WORK"
      [] policy = "SKIP" -> "SKIP_ALL"
      [] policy = "COALESCE" /\ n > 1 -> "COALESCE_MULTI"
      [] OTHER -> "MATERIALIZE_EACH"

\* One root per subject; a coalesced subject stands for all the members.
execution_subjects(policy, members) ==
    LET branch == policy_branch(policy, Cardinality(members)) IN
    CASE branch \in {"BOUNDARY_ONLY_NO_WORK", "SKIP_ALL"} -> {}
      [] branch = "COALESCE_MULTI" -> {members}
      [] OTHER -> {{t} : t \in members}

\* eligibility_overflows and the whole-batch size of _prepare.
Exceeds(policy, members, b) ==
    \/ Cardinality(members) > b.members
    \/ 1 + Cardinality(execution_subjects(policy, members)) > b.batch

\* _now: the reading is refused when it regresses in this process.
ClockAdmits(p) == last[p] <= clock /\ clock <= MaxClock
ReadsClock(p) == ClockAdmits(p) /\ last' = [last EXCEPT ![p] = clock]
-----------------------------------------------------------------------------
Init ==
    /\ \E p \in Runtimes : worker = p /\ opened = {p}
    /\ clock = 0 /\ setbacks = 0
    /\ last = [p \in Runtimes |-> 0]
    /\ config = None /\ bound = None /\ boundary = Start /\ held = None
    /\ disposed = [t \in Occurrences |-> 0]
    /\ roots = {}
    /\ lease = [r \in {} |-> Unleased]
    /\ pending = {} /\ work = [r \in {} |-> <<>>]
    /\ valid = TRUE

Open(p) ==
    /\ p \notin opened
    /\ worker' = p /\ opened' = opened \cup {p}
    /\ UNCHANGED <<clock, setbacks, last, valid>> /\ UNCHANGED schedule /\ UNCHANGED leases

\* Time passes, or an operator or NTP sets the wall clock back.
Tick ==
    /\ clock < MaxClock + 1
    /\ clock' = clock + 1
    /\ UNCHANGED <<worker, opened, setbacks, last, valid>>
    /\ UNCHANGED schedule /\ UNCHANGED leases

SetBack ==
    /\ setbacks < MaxSetbacks
    /\ setbacks' = setbacks + 1
    /\ \E t \in 0..clock : clock' = t /\ t < clock
    /\ UNCHANGED <<worker, opened, last, valid>> /\ UNCHANGED schedule /\ UNCHANGED leases

adopt_schedule(p) ==
    /\ worker = p /\ config = None
    /\ \E policy \in Policies, b \in Bounds :
          config' = [policy |-> policy] /\ bound' = [limit |-> b, gen |-> 0]
    /\ UNCHANGED <<worker, opened, clock, setbacks, last, boundary, held, disposed,
                   roots, valid>>
    /\ UNCHANGED leases

\* _validate_interval: what every later read of the log asks of the record.
IntervalValidates(start, cutoff, members, b, resolves) ==
    /\ start = boundary /\ start <= cutoff /\ cutoff <= End
    /\ members = prepare_members(start, cutoff)
    /\ resolves = (held # None)
    /\ resolves => /\ held = [start |-> start, cutoff |-> cutoff]
                   /\ b.gen = bound.gen + 1

\* The records of an ordinary interval: dispositions, roots, Runs and boundary.
Materialise(cutoff, members) ==
    /\ boundary' = cutoff /\ held' = None
    /\ disposed' = [t \in Occurrences |-> disposed[t] + IF t \in members THEN 1 ELSE 0]
    /\ roots' = roots \cup execution_subjects(config.policy, members)
    /\ lease' = [r \in roots' |-> IF r \in roots THEN lease[r] ELSE Unleased]
    /\ work' = [r \in roots' |-> IF r \in roots THEN work[r] ELSE <<>>]
    /\ UNCHANGED pending

\* The cutoff of a cycle never precedes the durable boundary.
Cutoff(now) == Max2(Min2(now, End), boundary)

scheduler_cycle(p) ==
    LET cutoff == Cutoff(clock)
        members == prepare_members(boundary, cutoff) IN
    /\ worker = p /\ config # None /\ held = None
    /\ ReadsClock(p)
    /\ valid' = (valid /\ IntervalValidates(boundary, cutoff, members, bound, FALSE))
    /\ IF Exceeds(config.policy, members, bound.limit)
       THEN /\ held' = [start |-> boundary, cutoff |-> cutoff]
            /\ UNCHANGED <<boundary, disposed, roots>> /\ UNCHANGED leases
       ELSE Materialise(cutoff, members)
    /\ UNCHANGED <<worker, opened, clock, setbacks, config, bound>>

\* The interval a resolution materialises: exactly the one that overflowed.
HeldInterval == held

\* resolve_scheduler_overflow: a sufficient bound, never a smaller one.
resolve_scheduler_overflow(p, b) ==
    LET i == HeldInterval
        members == prepare_members(i.start, i.cutoff)
        next == [limit |-> b, gen |-> bound.gen + 1] IN
    /\ worker = p /\ held # None
    /\ b.members >= bound.limit.members /\ b.batch >= bound.limit.batch
    /\ ~Exceeds(config.policy, members, b)
    /\ valid' = (valid /\ IntervalValidates(i.start, i.cutoff, members, next, TRUE))
    /\ bound' = next
    /\ Materialise(i.cutoff, members)
    /\ UNCHANGED <<worker, opened, clock, setbacks, last, config>>
-----------------------------------------------------------------------------
(* Leases of a materialised lineage.                                         *)

CanAcquire(l) == l.kind = "UNLEASED"
CanRenew(p, l, now) ==
    l.kind = "HELD" /\ now < l.expiry /\ l.holder = p /\ now + Duration > l.expiry

\* Mutant: a takeover does not wait for the expiry.
CanTakeOverEarly(p, l, now) == l.kind = "HELD"

CanTakeOver(p, l, now) == l.kind = "HELD" /\ now >= l.expiry

\* The lease a transition selects; a renewal keeps the generation.
Leased(p, l, now, transition) ==
    [kind |-> "HELD", holder |-> p, expiry |-> now + Duration,
     gen |-> CASE transition = "ACQUIRE" -> 1
               [] transition = "RENEW" -> l.gen
               [] OTHER -> l.gen + 1]

\* transition_scheduler_lease up to its transaction.
propose_lease(p, r, transition) ==
    LET l == lease[r]
        next == Leased(p, l, clock, transition) IN
    /\ worker = p /\ r \in roots
    /\ \A b \in pending : b.by # p
    /\ ReadsClock(p)
    /\ CASE transition = "ACQUIRE" -> CanAcquire(l)
         [] transition = "RENEW" -> CanRenew(p, l, clock)
         [] OTHER -> CanTakeOver(p, l, clock)
    /\ next.gen <= MaxGeneration /\ next.expiry <= MaxClock
    /\ pending' = pending \cup
           {[by |-> p, root |-> r, at |-> clock, transition |-> transition,
             observed |-> l, selected |-> next]}
    /\ UNCHANGED <<worker, opened, clock, setbacks, lease, work, valid>>
    /\ UNCHANGED schedule

\* _validate_lease: what every later read asks of the transition.
LeaseValidates(b) ==
    LET old == b.observed  new == b.selected IN
    /\ new.expiry = b.at + Duration
    /\ CASE b.transition = "ACQUIRE" -> old.kind = "UNLEASED" /\ new.gen = 1
         [] b.transition = "RENEW" ->
               /\ old.kind = "HELD" /\ b.at < old.expiry /\ old.expiry < new.expiry
               /\ new.gen = old.gen /\ new.holder = old.holder
         [] OTHER -> old.kind = "HELD" /\ b.at >= old.expiry /\ new.gen = old.gen + 1

\* The guard in the transaction: the root is unchanged and, by the clock read
\* there, neither the new lease nor a renewed one has expired.
LeaseStillAdmitted(b) ==
    /\ worker = b.by /\ lease[b.root] = b.observed
    /\ clock < b.selected.expiry
    /\ b.transition = "RENEW" => clock < b.observed.expiry

publish_lease(b) ==
    /\ LeaseStillAdmitted(b) /\ ReadsClock(b.by)
    /\ lease' = [lease EXCEPT ![b.root] = b.selected]
    /\ valid' = (valid /\ LeaseValidates(b))
    /\ pending' = pending \ {b}
    /\ UNCHANGED <<worker, opened, clock, setbacks, work>> /\ UNCHANGED schedule

refuse_lease(b) ==
    /\ ~(LeaseStillAdmitted(b) /\ ClockAdmits(b.by))
    /\ pending' = pending \ {b}
    /\ UNCHANGED <<worker, opened, clock, setbacks, last, lease, work, valid>>
    /\ UNCHANGED schedule

\* assert_current_lease, evaluated in the transaction of the publication.
LeaseIsCurrent(p, r) ==
    lease[r].kind = "HELD" /\ lease[r].holder = p /\ clock < lease[r].expiry

\* A publication of the scheduled Run under scheduler_fence; the publication
\* records the lease it was made under.
lease_fence(p, r) ==
    /\ worker = p /\ r \in roots
    /\ Cardinality(DOMAIN work[r]) < MaxWork
    /\ ReadsClock(p) /\ LeaseIsCurrent(p, r)
    /\ work' = [work EXCEPT ![r] =
           [i \in 1..(Cardinality(DOMAIN @) + 1) |->
               IF i \in DOMAIN @ THEN @[i]
               ELSE [by |-> p, gen |-> lease[r].gen]]]
    /\ UNCHANGED <<worker, opened, clock, setbacks, lease, pending, valid>>
    /\ UNCHANGED schedule
-----------------------------------------------------------------------------
Next ==
    \/ Tick \/ SetBack
    \/ \E p \in Runtimes :
          \/ Open(p) \/ adopt_schedule(p) \/ scheduler_cycle(p)
          \/ \E b \in Bounds : resolve_scheduler_overflow(p, b)
          \/ \E r \in roots :
                \/ lease_fence(p, r)
                \/ \E x \in {"ACQUIRE", "RENEW", "TAKEOVER"} : propose_lease(p, r, x)
    \/ \E b \in pending : publish_lease(b) \/ refuse_lease(b)

Spec == Init /\ [][Next]_vars
-----------------------------------------------------------------------------
\* Every occurrence before the durable boundary was disposed of exactly once and
\* none after it, over overflow holds, resolutions, restarts and clock setbacks;
\* and the roots of different intervals never share an occurrence
\* (scheduler_cycle and resolve_scheduler_overflow).
DisposedExactlyOnce ==
    /\ \A t \in Occurrences : disposed[t] = IF t < boundary THEN 1 ELSE 0
    /\ \A r, s \in roots : r # s => r \cap s = {}

\* No sequence of cycles, resolutions and lease transitions publishes a record
\* that _validate_interval or _validate_lease rejects: the log of the user can
\* always be read again (otherwise every later read raises PostgresIntegrityError).
SchedulerStaysReadable == valid

\* The publications of a scheduled Run follow its leases: generations never go
\* back, one generation has one holder, and no holder of an older generation
\* publishes after a takeover.
WorkFollowsTheLease ==
    \A r \in roots : \A i, j \in DOMAIN work[r] :
        i < j => /\ work[r][i].gen <= work[r][j].gen
                 /\ work[r][i].gen = work[r][j].gen => work[r][i].by = work[r][j].by
=============================================================================
