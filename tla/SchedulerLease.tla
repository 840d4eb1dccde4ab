--------------------------- MODULE SchedulerLease ---------------------------
(***************************************************************************)
(* The lease of one scheduled execution lineage, as the isolated scheduler *)
(* owner computes it: evaluate_lease in scheduler_leases.py, prepare_lease *)
(* in scheduler_preparation.py and prepare_rollover in                     *)
(* scheduler_rollover.py (capabilities/agent_loop).                        *)
(*                                                                         *)
(* A service proposes a transition of the view it read, the broker issues  *)
(* a proof that binds the command to that fence and to its trusted clock,  *)
(* and the owner evaluates command and proof.  The candidate is published  *)
(* later, when the clock has moved on, if the view is still the one it was *)
(* evaluated on.  The issuance and the publication are the broker's and    *)
(* external; a refused command leaves no trace.  At the largest generation *)
(* a takeover leaves the lineage exhausted, and only a rollover to a new   *)
(* physical epoch starts again from generation zero.                       *)
(***************************************************************************)
EXTENDS Naturals, FiniteSets, TLAPS

CONSTANTS
    Services,       \* authenticated holders, each with its session
    LeaseIds,       \* lease identities a command may propose
    MaxDuration,    \* max_lease_duration of the issued observation
    MaxGeneration,  \* UINT64_MAX of lease generations
    MaxSelector,    \* UINT64_MAX of physical selector versions
    MaxClock,       \* bound on the trusted clock, for TLC only
    MaxEpochs,      \* bound on authority epochs, for TLC only
    None

\* What the constants have to satisfy.
LeaseAssumption ==
    /\ None \notin LeaseIds
    /\ MaxGeneration \in Nat \ {0} /\ MaxDuration \in Nat

VARIABLES
    clock,      \* the broker's trusted clock
    authority,  \* the current authority epoch
    view,       \* SchedulerLineageView: selector version, epoch, lease
    used,       \* lease identities of the published history
    fences,     \* every [epoch, gen, id, holder] that was ever held
    candidate   \* the unpublished candidate of every service, or None

vars == <<clock, authority, view, used, fences, candidate>>
-----------------------------------------------------------------------------
GenesisLease == [kind |-> "UNLEASED", gen |-> 0]
HeldLease(holder, id, gen, expiry) ==
    [kind |-> "HELD", gen |-> gen, holder |-> holder, id |-> id, expiry |-> expiry]
ExhaustedLease(old, epoch) ==
    [kind |-> "GENERATION_EXHAUSTED_HOLD", gen |-> MaxGeneration, authority |-> epoch,
     preceding |-> old]

Fence(v) == [epoch |-> v.epoch, gen |-> v.lease.gen, id |-> v.lease.id,
             holder |-> v.lease.holder]

Init ==
    /\ clock = 0 /\ authority = 0
    /\ view = [selector |-> 0, epoch |-> 0, lease |-> GenesisLease]
    /\ used = {} /\ fences = {}
    /\ candidate = [s \in Services |-> None]

Tick ==
    /\ clock < MaxClock /\ clock' = clock + 1
    /\ UNCHANGED <<authority, view, used, fences, candidate>>

\* The broker starts another authority epoch.
AdvanceAuthority ==
    /\ authority < MaxEpochs /\ authority' = authority + 1
    /\ UNCHANGED <<clock, view, used, fences, candidate>>

\* The command a service proposes: lease id, expiry and generation, with the
\* clock reading of the issued proof.
Command(kind, id, expiry, gen) ==
    [kind |-> kind, id |-> id, expiry |-> expiry, gen |-> gen, now |-> clock]

\* The proposed expiry lies inside the registered horizon of the issued clock.
InHorizon(c) == c.now < c.expiry /\ c.expiry <= c.now + MaxDuration

\* evaluate_lease for ACQUIRE.
CanAcquire(c) == view.lease.kind = "UNLEASED" /\ c.gen = 1 /\ c.id \notin used

\* evaluate_lease for RENEW: the same holder, id and generation, still live.
CanRenew(s, c) ==
    /\ view.lease.kind = "HELD"
    /\ c.now < view.lease.expiry
    /\ view.lease.holder = s /\ c.id = view.lease.id /\ c.gen = view.lease.gen
    /\ c.expiry > view.lease.expiry

\* evaluate_lease for TAKEOVER: the generation a takeover must propose.
TakeoverGeneration(gen) == IF gen = MaxGeneration THEN MaxGeneration ELSE gen + 1

\* Mutant: a takeover is entitled at any reading of the clock.
TakeoverWithoutExpiry(c) ==
    /\ view.lease.kind = "HELD"
    /\ c.id \notin used /\ c.gen = TakeoverGeneration(view.lease.gen)

CanTakeOver(c) ==
    /\ view.lease.kind = "HELD" /\ c.now >= view.lease.expiry
    /\ c.id \notin used /\ c.gen = TakeoverGeneration(view.lease.gen)

\* evaluate_lease: the lease the transition would select.
NewLease(s, c) ==
    IF c.kind = "TAKEOVER" /\ view.lease.gen = MaxGeneration /\ c.gen = MaxGeneration
    THEN ExhaustedLease(view.lease, authority)
    ELSE HeldLease(s, c.id, c.gen, c.expiry)

\* prepare_lease: the record of a candidate, bound to the snapshot's view.
prepare_lease(s) ==
    /\ candidate[s] = None
    /\ \E kind \in {"ACQUIRE", "RENEW", "TAKEOVER"}, id \in LeaseIds,
          expiry \in clock..(clock + MaxDuration + 1), gen \in 0..MaxGeneration :
         LET c == Command(kind, id, expiry, gen) IN
         /\ InHorizon(c)
         /\ CASE kind = "ACQUIRE"  -> CanAcquire(c)
              [] kind = "RENEW"    -> CanRenew(s, c)
              [] kind = "TAKEOVER" -> CanTakeOver(c)
         /\ candidate' = [candidate EXCEPT ![s] =
              [cut |-> view, id |-> id, next |-> [view EXCEPT !.lease = NewLease(s, c)]]]
    /\ UNCHANGED <<clock, authority, view, used, fences>>

\* prepare_rollover: the epoch derived from the exhausted snapshot.
SuccessorEpoch(epoch) == epoch + 1

\* prepare_rollover: six records that fence the old epoch and select the new one.
prepare_rollover(s) ==
    /\ candidate[s] = None
    /\ view.lease.kind = "GENERATION_EXHAUSTED_HOLD"
    /\ view.lease.authority = authority
    /\ view.selector < MaxSelector
    /\ candidate' = [candidate EXCEPT ![s] =
         [cut |-> view, id |-> None,
          next |-> [selector |-> view.selector + 1, epoch |-> SuccessorEpoch(view.epoch),
                    lease |-> GenesisLease]]]
    /\ UNCHANGED <<clock, authority, view, used, fences>>

\* The broker selects the candidate at the cut it was prepared for, or drops it.
Publish(s) ==
    /\ candidate[s] # None
    /\ candidate' = [candidate EXCEPT ![s] = None]
    /\ \/ /\ candidate[s].cut = view
          /\ view' = candidate[s].next
          /\ used' = used \cup ({candidate[s].id} \ {None})
          /\ fences' = fences \cup (IF view'.lease.kind = "HELD" THEN {Fence(view')} ELSE {})
       \/ candidate[s].cut # view /\ UNCHANGED <<view, used, fences>>
    /\ UNCHANGED <<clock, authority>>

Next ==
    \/ Tick \/ AdvanceAuthority
    \/ \E s \in Services : prepare_lease(s) \/ prepare_rollover(s) \/ Publish(s)

Spec == Init /\ [][Next]_vars
-----------------------------------------------------------------------------
\* A fence names one holder and one lease for ever: no transition, exhaustion
\* or rollover lets two services hold the same generation of an epoch, or one
\* lease identity return under another generation
\* (scheduler_leases.evaluate_lease, scheduler_rollover.prepare_rollover).
FencesAreUnique ==
    \A a, b \in fences :
        (a.epoch = b.epoch /\ a.gen = b.gen) \/ a.id = b.id => a = b

\* A live lease is only changed by its holder: a proof that is older than the
\* cut at which it is used never takes a lease that the trusted clock still
\* covers, and the exhausting takeover is no exception.
LiveLeaseIsNotTaken ==
    view.lease.kind = "HELD" /\ clock < view.lease.expiry
     => /\ view'.epoch = view.epoch /\ view'.lease.kind = "HELD"
        /\ view'.lease.id = view.lease.id

\* A lease generation has one holder for ever, and nobody takes a live lease.
LeaseIsExclusive == []FencesAreUnique /\ [][LiveLeaseIsNotTaken]_vars
-----------------------------------------------------------------------------
(* The inductive invariant.  A view never comes back: every publication      *)
(* moves the lineage forward in its epoch, generation, expiry or exhaustion, *)
(* so a candidate that can still be published was evaluated on the lease     *)
(* that is still selected, and at a clock that has only moved on since.      *)

LeaseShape(l) ==
    \/ l = GenesisLease
    \/ /\ l.kind = "HELD"
       /\ l = HeldLease(l.holder, l.id, l.gen, l.expiry)
       /\ l.holder \in Services /\ l.id \in LeaseIds
       /\ l.gen \in 1..MaxGeneration /\ l.expiry \in Nat
    \/ l.kind = "GENERATION_EXHAUSTED_HOLD" /\ l.gen = MaxGeneration

ViewShape(v) ==
    /\ v = [selector |-> v.selector, epoch |-> v.epoch, lease |-> v.lease]
    /\ v.selector \in Nat /\ v.epoch \in Nat /\ LeaseShape(v.lease)

\* The lease b comes after a in one epoch.
LaterLease(a, b) ==
    \/ a.gen < b.gen
    \/ /\ a.gen = b.gen /\ a.kind = "HELD"
       /\ \/ b.kind = "HELD" /\ a.expiry < b.expiry
          \/ b.kind = "GENERATION_EXHAUSTED_HOLD"

Later(a, b) == a.epoch < b.epoch \/ (a.epoch = b.epoch /\ LaterLease(a.lease, b.lease))

WithLease(l) == [selector |-> view.selector, epoch |-> view.epoch, lease |-> l]

\* What a candidate of the selected view is: an acquisition, a renewal, a takeover
\* of an expired lease, an exhausting takeover or a rollover.
Entitled(s, c) ==
    LET lease == c.next.lease
        taken(gen) == /\ lease.expiry \in Nat
                      /\ c.next = WithLease(HeldLease(s, c.id, gen, lease.expiry)) IN
    \/ view.lease.kind = "UNLEASED" /\ c.id \in LeaseIds \ used /\ taken(1)
    \/ /\ view.lease.kind = "HELD" /\ view.lease.holder = s /\ c.id = view.lease.id
       /\ taken(view.lease.gen) /\ lease.expiry > view.lease.expiry
    \/ /\ view.lease.kind = "HELD" /\ view.lease.expiry <= clock
       /\ c.id \in LeaseIds \ used
       /\ \/ view.lease.gen < MaxGeneration /\ taken(view.lease.gen + 1)
          \/ /\ view.lease.gen = MaxGeneration
             /\ c.next = WithLease(ExhaustedLease(view.lease, lease.authority))
    \/ /\ view.lease.kind = "GENERATION_EXHAUSTED_HOLD" /\ c.id = None
       /\ c.next = [selector |-> view.selector + 1, epoch |-> view.epoch + 1,
                    lease |-> GenesisLease]

CandidateInv(s, c) ==
    /\ ViewShape(c.cut)
    /\ c.cut = view \/ Later(c.cut, view)
    /\ c.cut = view => Entitled(s, c)

IInv ==
    /\ clock \in Nat /\ used \subseteq LeaseIds
    /\ ViewShape(view)
    /\ fences \subseteq [epoch : Nat, gen : 1..MaxGeneration, id : used, holder : Services]
    /\ \A f \in fences : f.epoch < view.epoch \/ (f.epoch = view.epoch /\ f.gen <= view.lease.gen)
    /\ view.lease.kind = "HELD" => Fence(view) \in fences
    /\ candidate = [s \in Services |-> candidate[s]]
    /\ \A s \in Services : candidate[s] # None => CandidateInv(s, candidate[s])
    /\ FencesAreUnique
-----------------------------------------------------------------------------
\* The order of views is a strict order: what came before stays before, and a
\* view that was left is never selected again.
LEMMA LaterIsTransitive ==
    ASSUME LeaseAssumption, NEW a, NEW b, NEW c,
           ViewShape(a), ViewShape(b), ViewShape(c), Later(a, b), Later(b, c)
    PROVE  Later(a, c)
<1>1. /\ a.epoch \in Nat /\ b.epoch \in Nat /\ c.epoch \in Nat
      /\ LeaseShape(a.lease) /\ LeaseShape(b.lease) /\ LeaseShape(c.lease)
    BY DEF ViewShape
<1>2. ASSUME LaterLease(a.lease, b.lease), LaterLease(b.lease, c.lease)
      PROVE  LaterLease(a.lease, c.lease)
    BY <1>1, <1>2 DEF LaterLease, LeaseShape, GenesisLease, HeldLease, LeaseAssumption
<1>3. QED
    BY <1>1, <1>2 DEF Later

LEMMA LaterIsOther ==
    ASSUME LeaseAssumption, NEW a, NEW b, ViewShape(a), Later(a, b)
    PROVE  a # b
BY DEF Later, LaterLease, ViewShape, LeaseShape, GenesisLease, HeldLease, LeaseAssumption

\* An entitled candidate moves the lineage forward.
LEMMA EntitledMoves ==
    ASSUME LeaseAssumption, IInv, NEW s \in Services, NEW c, Entitled(s, c)
    PROVE  ViewShape(c.next) /\ Later(view, c.next)
<1>1. /\ view.selector \in Nat /\ view.epoch \in Nat /\ LeaseShape(view.lease)
      /\ MaxGeneration \in Nat \ {0} /\ used \subseteq LeaseIds
    BY DEF IInv, ViewShape, LeaseAssumption
<1>2. ASSUME view.lease.kind = "UNLEASED", c.id \in LeaseIds, c.next.lease.expiry \in Nat,
             c.next = WithLease(HeldLease(s, c.id, 1, c.next.lease.expiry))
      PROVE  ViewShape(c.next) /\ Later(view, c.next)
    BY <1>1, <1>2 DEF WithLease, HeldLease, GenesisLease, LeaseShape, ViewShape, Later, LaterLease
<1>3. ASSUME NEW g \in 1..MaxGeneration, view.lease.kind = "HELD", c.id \in LeaseIds,
             c.next.lease.expiry \in Nat,
             c.next = WithLease(HeldLease(s, c.id, g, c.next.lease.expiry)),
             \/ g = view.lease.gen /\ c.next.lease.expiry > view.lease.expiry
             \/ g = view.lease.gen + 1
      PROVE  ViewShape(c.next) /\ Later(view, c.next)
    BY <1>1, <1>3 DEF WithLease, HeldLease, GenesisLease, LeaseShape, ViewShape, Later, LaterLease
<1>4. ASSUME view.lease.kind = "HELD", view.lease.gen = MaxGeneration,
             c.next = WithLease(ExhaustedLease(view.lease, c.next.lease.authority))
      PROVE  ViewShape(c.next) /\ Later(view, c.next)
    BY <1>1, <1>4 DEF WithLease, ExhaustedLease, LeaseShape, ViewShape, Later, LaterLease
<1>5. ASSUME c.next = [selector |-> view.selector + 1, epoch |-> view.epoch + 1,
                       lease |-> GenesisLease]
      PROVE  ViewShape(c.next) /\ Later(view, c.next)
    BY <1>1, <1>5 DEF LeaseShape, ViewShape, Later
<1>6. view.lease.kind = "HELD" =>
        view.lease.gen \in 1..MaxGeneration /\ view.lease.id \in LeaseIds
    BY <1>1 DEF LeaseShape, GenesisLease
<1>7. QED
    BY <1>1, <1>2, <1>3, <1>4, <1>5, <1>6 DEF Entitled

\* While the view stands, a candidate of it stays what it is: the clock only
\* moves on.
LEMMA CandidatesStand ==
    ASSUME IInv, view' = view, used' = used, clock' \in Nat, clock <= clock',
           NEW s \in Services, candidate'[s] = candidate[s], CandidateInv(s, candidate[s])
    PROVE  CandidateInv(s, candidate[s])'
<1>1. ViewShape(candidate[s].cut)' /\ (candidate[s].cut = view \/ Later(candidate[s].cut, view))'
    BY DEF CandidateInv, ViewShape, LeaseShape, Later, LaterLease
<1>2. view.lease.kind = "HELD" /\ view.lease.expiry <= clock => view.lease.expiry <= clock'
    BY DEF IInv, ViewShape, LeaseShape, GenesisLease
<1>3. Entitled(s, candidate[s]) => Entitled(s, candidate[s])'
    BY <1>2 DEF Entitled, WithLease
<1>4. QED
    BY <1>1, <1>3 DEF CandidateInv

\* A step that leaves the lineage alone and touches no candidate but one, which
\* then is entitled, keeps the invariant.
LEMMA PrepareKeeps ==
    ASSUME LeaseAssumption, IInv, UNCHANGED <<view, used, fences>>,
           clock' \in Nat, clock <= clock',
           candidate' = [s \in Services |-> candidate'[s]],
           \A s \in Services : \/ candidate'[s] = candidate[s]
                               \/ /\ candidate'[s].cut = view
                                  /\ Entitled(s, candidate'[s])
    PROVE  IInv'
<1>1. ASSUME NEW s \in Services, candidate'[s] # None
      PROVE  CandidateInv(s, candidate[s])'
    <2>1. CASE candidate'[s] = candidate[s]
        BY <1>1, <2>1, CandidatesStand DEF IInv
    <2>2. CASE candidate'[s].cut = view /\ Entitled(s, candidate'[s])
        <3>1. ViewShape(candidate[s].cut)' /\ (candidate[s].cut = view)'
            BY <2>2 DEF IInv, ViewShape, LeaseShape
        <3>2. Entitled(s, candidate[s])'
            <4>1. view.lease.kind = "HELD" /\ view.lease.expiry <= clock => view.lease.expiry <= clock'
                BY DEF IInv, ViewShape, LeaseShape, GenesisLease
            <4>2. QED
                BY <2>2, <4>1 DEF Entitled, WithLease
        <3>3. QED
            BY <3>1, <3>2 DEF CandidateInv
    <2>3. QED
        BY <2>1, <2>2
<1>2. FencesAreUnique' /\ Fence(view)' = Fence(view)
    BY DEF IInv, FencesAreUnique, Fence
<1>3. QED
    BY <1>1, <1>2 DEF IInv

LEMMA InitIInv == LeaseAssumption /\ Init => IInv
BY DEF Init, IInv, ViewShape, LeaseShape, GenesisLease, FencesAreUnique, LeaseAssumption

\* prepare_lease derives an entitled candidate.
LEMMA PrepareLeaseStep ==
    ASSUME LeaseAssumption, IInv, NEW s \in Services, prepare_lease(s)
    PROVE  IInv'
<1>1. PICK kind \in {"ACQUIRE", "RENEW", "TAKEOVER"}, id \in LeaseIds,
           expiry \in clock..(clock + MaxDuration + 1), gen \in 0..MaxGeneration :
         LET c == Command(kind, id, expiry, gen) IN
         /\ InHorizon(c)
         /\ CASE kind = "ACQUIRE"  -> CanAcquire(c)
              [] kind = "RENEW"    -> CanRenew(s, c)
              [] kind = "TAKEOVER" -> CanTakeOver(c)
         /\ candidate' = [candidate EXCEPT ![s] =
              [cut |-> view, id |-> id, next |-> [view EXCEPT !.lease = NewLease(s, c)]]]
    BY DEF prepare_lease
<1> DEFINE cmd == Command(kind, id, expiry, gen)
<1>t. /\ clock \in Nat /\ expiry \in Nat /\ MaxGeneration \in Nat \ {0}
      /\ view = [selector |-> view.selector, epoch |-> view.epoch, lease |-> view.lease]
      /\ LeaseShape(view.lease)
    BY DEF IInv, ViewShape, LeaseAssumption
<1>2. /\ candidate'[s].cut = view /\ candidate'[s].id = id
      /\ candidate'[s].next = WithLease(NewLease(s, cmd))
    BY <1>1, <1>t DEF IInv, WithLease
<1>3. cmd = [kind |-> kind, id |-> id, expiry |-> expiry, gen |-> gen, now |-> clock]
    BY DEF Command
<1>4. Entitled(s, candidate'[s])
    <2>1. CASE kind = "ACQUIRE"
        <3>1. CanAcquire(cmd)
            BY <1>1, <2>1
        <3>2. NewLease(s, cmd) = HeldLease(s, id, 1, expiry)
            BY <2>1, <1>3, <3>1 DEF NewLease, CanAcquire
        <3>3. QED
            BY <1>2, <1>3, <1>t, <3>1, <3>2 DEF Entitled, CanAcquire, WithLease, HeldLease
    <2>2. CASE kind = "RENEW"
        <3>1. CanRenew(s, cmd)
            BY <1>1, <2>2
        <3>2. NewLease(s, cmd) = HeldLease(s, id, view.lease.gen, expiry)
            BY <2>2, <1>3, <3>1 DEF NewLease, CanRenew
        <3>3. QED
            BY <1>2, <1>3, <1>t, <3>1, <3>2 DEF Entitled, CanRenew, WithLease, HeldLease
    <2>3. CASE kind = "TAKEOVER"
        <3>1. CanTakeOver(cmd)
            BY <1>1, <2>3
        <3>t. view.lease.gen \in 1..MaxGeneration /\ view.lease.expiry \in Nat
            BY <1>t, <3>1 DEF CanTakeOver, LeaseShape, GenesisLease
        <3>2. CASE view.lease.gen = MaxGeneration
            <4>1. NewLease(s, cmd) = ExhaustedLease(view.lease, authority)
                BY <2>3, <1>3, <3>1, <3>2 DEF NewLease, CanTakeOver, TakeoverGeneration
            <4>2. QED
                BY <1>2, <1>3, <1>t, <3>1, <3>2, <3>t, <4>1
                   DEF Entitled, CanTakeOver, WithLease, ExhaustedLease
        <3>3. CASE view.lease.gen # MaxGeneration
            <4>1. NewLease(s, cmd) = HeldLease(s, id, view.lease.gen + 1, expiry)
                BY <2>3, <1>3, <3>1, <3>3 DEF NewLease, CanTakeOver, TakeoverGeneration
            <4>2. QED
                BY <1>2, <1>3, <1>t, <3>1, <3>3, <3>t, <4>1
                   DEF Entitled, CanTakeOver, WithLease, HeldLease
        <3>4. QED
            BY <3>2, <3>3
    <2>4. QED
        BY <2>1, <2>2, <2>3
<1>5. \A u \in Services : u # s => candidate'[u] = candidate[u]
    BY <1>1 DEF IInv
<1>6. candidate' = [u \in Services |-> candidate'[u]]
    BY <1>1 DEF IInv
<1>7. QED
    BY <1>2, <1>4, <1>5, <1>6, <1>t, PrepareKeeps DEF prepare_lease

\* prepare_rollover derives an entitled candidate.
LEMMA PrepareRolloverStep ==
    ASSUME LeaseAssumption, IInv, NEW s \in Services, prepare_rollover(s)
    PROVE  IInv'
<1>1. /\ candidate'[s].cut = view /\ Entitled(s, candidate'[s])
    BY DEF prepare_rollover, IInv, Entitled, SuccessorEpoch
<1>2. \A u \in Services : u # s => candidate'[u] = candidate[u]
    BY DEF prepare_rollover, IInv
<1>3. candidate' = [u \in Services |-> candidate'[u]]
    BY DEF prepare_rollover, IInv
<1>4. QED
    BY <1>1, <1>2, <1>3, PrepareKeeps DEF prepare_rollover, IInv

\* What publishing a candidate at its cut does to the fences.
LEMMA PublishedFences ==
    ASSUME LeaseAssumption, IInv, NEW s \in Services, Publish(s),
           candidate[s].cut = view
    PROVE  /\ fences' \subseteq [epoch : Nat, gen : 1..MaxGeneration, id : used', holder : Services]
           /\ \A f \in fences' : \/ f.epoch < view'.epoch
                                 \/ f.epoch = view'.epoch /\ f.gen <= view'.lease.gen
           /\ view'.lease.kind = "HELD" => Fence(view)' \in fences'
           /\ FencesAreUnique'
<1> DEFINE c == candidate[s]
<1>t. /\ Entitled(s, c) /\ LeaseShape(view.lease) /\ view.epoch \in Nat
      /\ used \subseteq LeaseIds /\ None \notin LeaseIds /\ MaxGeneration \in Nat \ {0}
      /\ fences \subseteq [epoch : Nat, gen : 1..MaxGeneration, id : used, holder : Services]
    BY DEF IInv, CandidateInv, Publish, ViewShape, LeaseAssumption
<1>p. /\ view' = c.next /\ used' = used \cup ({c.id} \ {None})
      /\ fences' = fences \cup (IF view'.lease.kind = "HELD" THEN {Fence(view')} ELSE {})
    BY DEF Publish
<1>f. \A f \in fences : f.epoch < view.epoch \/ (f.epoch = view.epoch /\ f.gen <= view.lease.gen)
    BY DEF IInv
<1> DEFINE Goal == /\ fences' \subseteq [epoch : Nat, gen : 1..MaxGeneration, id : used',
                                        holder : Services]
                   /\ \A f \in fences' : \/ f.epoch < view'.epoch
                                         \/ f.epoch = view'.epoch /\ f.gen <= view'.lease.gen
                   /\ view'.lease.kind = "HELD" => Fence(view)' \in fences'
                   /\ FencesAreUnique'
<1>g. view.lease.gen \in Nat
    BY <1>t DEF LeaseShape, GenesisLease
<1>1. ASSUME NEW g \in 1..MaxGeneration, g > view.lease.gen, c.id \in LeaseIds \ used,
             NEW x, c.next = WithLease(HeldLease(s, c.id, g, x))
      PROVE  Goal
    <2>1. /\ view'.epoch = view.epoch /\ view'.lease = HeldLease(s, c.id, g, x)
          /\ used' = used \cup {c.id}
        BY <1>1, <1>p, <1>t DEF WithLease
    <2>2. PICK n : n = [epoch |-> view.epoch, gen |-> g, id |-> c.id, holder |-> s]
        OBVIOUS
    <2>3. Fence(view') = n /\ Fence(view)' = n /\ fences' = fences \cup {n}
        BY <2>1, <2>2, <1>p DEF Fence, HeldLease
    <2>4. n \in [epoch : Nat, gen : 1..MaxGeneration, id : used', holder : Services]
        BY <2>1, <2>2, <1>t
    <2>5. \A f \in fences : f.id # n.id /\ ~(f.epoch = n.epoch /\ f.gen = n.gen)
        BY <1>1, <1>f, <1>t, <1>g, <2>2
    <2>6. FencesAreUnique'
        BY <2>3, <2>5 DEF IInv, FencesAreUnique
    <2>7. \A f \in fences' : \/ f.epoch < view'.epoch
                             \/ f.epoch = view'.epoch /\ f.gen <= view'.lease.gen
        BY <1>1, <1>f, <1>t, <1>g, <2>1, <2>2, <2>3 DEF HeldLease
    <2>8. QED
        BY <1>t, <2>1, <2>3, <2>4, <2>6, <2>7
<1>2. ASSUME view.lease.kind = "HELD", view.lease.holder = s, c.id = view.lease.id,
             NEW x, c.next = WithLease(HeldLease(s, c.id, view.lease.gen, x))
      PROVE  Goal
    <2>1. /\ view'.epoch = view.epoch /\ view'.lease = HeldLease(s, c.id, view.lease.gen, x)
        BY <1>2, <1>p DEF WithLease
    <2>2. Fence(view) \in fences
        BY <1>2 DEF IInv
    <2>3. Fence(view') = Fence(view) /\ Fence(view)' = Fence(view)
        BY <1>2, <2>1 DEF Fence, HeldLease
    <2>4. c.id \in used
        BY <1>2, <1>t, <2>2 DEF Fence
    <2>5. fences' = fences /\ used' = used
        BY <2>2, <2>3, <2>4, <1>p
    <2>6. QED
        BY <1>t, <1>f, <2>1, <2>2, <2>3, <2>5 DEF HeldLease, IInv, FencesAreUnique
<1>3. ASSUME c.next.lease.kind # "HELD",
             \/ view.epoch < c.next.epoch
             \/ view.epoch = c.next.epoch /\ view.lease.gen = c.next.lease.gen,
             c.next.epoch \in Nat
      PROVE  Goal
    <2>1. fences' = fences /\ used \subseteq used'
        BY <1>3, <1>p
    <2>2. QED
        BY <1>3, <1>t, <1>p, <1>f, <2>1 DEF IInv, FencesAreUnique
<1>4. CASE view.lease.kind = "UNLEASED"
    BY <1>1, <1>4, <1>t DEF Entitled, LeaseShape, GenesisLease
<1>5. CASE view.lease.kind = "HELD"
    <2>1. view.lease.gen \in 1..MaxGeneration
        BY <1>5, <1>t DEF LeaseShape, GenesisLease
    <2>2. CASE \E x : c.next = WithLease(ExhaustedLease(view.lease, x)) /\ view.lease.gen = MaxGeneration
        BY <1>3, <1>t, <2>2, SMTT(30) DEF WithLease, ExhaustedLease
    <2>3. CASE /\ view.lease.gen < MaxGeneration /\ c.id \in LeaseIds \ used
               /\ \E x : c.next = WithLease(HeldLease(s, c.id, view.lease.gen + 1, x))
        <3>1. view.lease.gen + 1 \in 1..MaxGeneration /\ view.lease.gen + 1 > view.lease.gen
            BY <2>1, <2>3, <1>t
        <3>2. QED
            BY <1>1, <2>3, <3>1
    <2>4. QED
        BY <1>2, <1>5, <1>t, <2>2, <2>3 DEF Entitled
<1>6. CASE view.lease.kind = "GENERATION_EXHAUSTED_HOLD"
    BY <1>3, <1>6, <1>t DEF Entitled, GenesisLease
<1>7. QED
    BY <1>4, <1>5, <1>6, <1>t DEF Entitled

\* A publication at the cut moves the lineage forward, and leaves every other
\* candidate behind it; a publication elsewhere changes nothing.
LEMMA PublishStep ==
    ASSUME LeaseAssumption, IInv, NEW s \in Services, Publish(s)
    PROVE  IInv'
<1>c. /\ candidate' = [candidate EXCEPT ![s] = None] /\ clock' = clock
      /\ candidate' = [u \in Services |-> candidate'[u]]
      /\ \A u \in Services : u # s => candidate'[u] = candidate[u]
      /\ candidate'[s] = None
    BY DEF Publish, IInv
<1>1. CASE candidate[s].cut = view
    <2>1. view' = candidate[s].next /\ used' = used \cup ({candidate[s].id} \ {None})
        BY <1>1 DEF Publish
    <2>2. Entitled(s, candidate[s])
        BY <1>1 DEF IInv, CandidateInv, Publish
    <2>3. ViewShape(view') /\ Later(view, view')
        BY <2>1, <2>2, EntitledMoves
    <2>4. used' \subseteq LeaseIds
        BY <2>1, <2>2 DEF Entitled, IInv, ViewShape, LeaseShape, GenesisLease
    <2>5. ASSUME NEW u \in Services, candidate'[u] # None
          PROVE  CandidateInv(u, candidate[u])'
        <3>1. candidate'[u] = candidate[u] /\ CandidateInv(u, candidate[u])
            BY <1>c, <2>5 DEF IInv
        <3>2. ViewShape(candidate[u].cut) /\ Later(candidate[u].cut, view')
            BY <2>3, <3>1, LaterIsTransitive DEF CandidateInv, IInv
        <3>3. candidate[u].cut # view'
            BY <3>2, LaterIsOther
        <3>4. QED
            BY <3>1, <3>2, <3>3 DEF CandidateInv
    <2>6. ViewShape(view)'
        BY <2>3 DEF ViewShape
    <2>7. QED
        BY <1>1, <1>c, <2>4, <2>5, <2>6, PublishedFences DEF IInv
<1>2. CASE candidate[s].cut # view
    <2>1. UNCHANGED <<view, used, fences>>
        BY <1>2 DEF Publish
    <2>2. ASSUME NEW u \in Services, candidate'[u] # None
          PROVE  CandidateInv(u, candidate[u])'
        <3>1. candidate'[u] = candidate[u] /\ CandidateInv(u, candidate[u])
            BY <1>c, <2>2 DEF IInv
        <3>2. QED
            BY <1>c, <2>1, <3>1, CandidatesStand DEF IInv
    <2>3. FencesAreUnique' /\ Fence(view)' = Fence(view) /\ ViewShape(view)'
        BY <2>1 DEF IInv, FencesAreUnique, Fence
    <2>4. QED
        BY <1>c, <2>1, <2>2, <2>3 DEF IInv
<1>3. QED
    BY <1>1, <1>2

LEMMA NextIInv == LeaseAssumption /\ IInv /\ [Next]_vars => IInv'
<1> SUFFICES ASSUME LeaseAssumption, IInv, [Next]_vars PROVE IInv' OBVIOUS
<1>1. ASSUME UNCHANGED <<view, used, fences, candidate>>, clock' \in Nat, clock <= clock'
      PROVE  IInv'
    BY <1>1, PrepareKeeps DEF IInv
<1>2. CASE Tick \/ AdvanceAuthority \/ UNCHANGED vars
    BY <1>1, <1>2 DEF Tick, AdvanceAuthority, vars, IInv
<1>3. QED
    BY <1>2, PrepareLeaseStep, PrepareRolloverStep, PublishStep DEF Next

\* A step changes a live lease only by its holder's renewal.
LEMMA LiveLeaseStands ==
    ASSUME LeaseAssumption, IInv, [Next]_vars PROVE LiveLeaseIsNotTaken
<1> SUFFICES ASSUME view.lease.kind = "HELD", clock < view.lease.expiry
             PROVE  /\ view'.epoch = view.epoch /\ view'.lease.kind = "HELD"
                    /\ view'.lease.id = view.lease.id
    BY DEF LiveLeaseIsNotTaken
<1>1. CASE view' = view
    BY <1>1
<1>2. ASSUME NEW s \in Services, Publish(s), candidate[s].cut = view
      PROVE  /\ view'.epoch = view.epoch /\ view'.lease.kind = "HELD"
             /\ view'.lease.id = view.lease.id
    <2>1. Entitled(s, candidate[s]) /\ view' = candidate[s].next
        BY <1>2 DEF IInv, CandidateInv, Publish
    <2>2. clock \in Nat /\ view.lease.expiry \in Nat
        BY DEF IInv, ViewShape, LeaseShape, GenesisLease
    <2>3. QED
        BY <2>1, <2>2 DEF Entitled, WithLease, HeldLease
<1>3. QED
    BY <1>1, <1>2 DEF Next, Tick, AdvanceAuthority, prepare_lease, prepare_rollover, Publish, vars

\* For any number of services and lease identities, any horizon and any largest
\* generation: whatever commands, clock readings and publications interleave, a
\* fence has one holder for ever and a live lease is only changed by its holder
\* (evaluate_lease, prepare_lease, prepare_rollover).
THEOREM LeaseStaysExclusive == LeaseAssumption /\ Spec => LeaseIsExclusive
<1> SUFFICES ASSUME LeaseAssumption PROVE Spec => LeaseIsExclusive OBVIOUS
<1>1. Init => IInv BY InitIInv
<1>2. IInv /\ [Next]_vars => IInv' BY NextIInv
<1>3. IInv /\ [Next]_vars => LiveLeaseIsNotTaken BY LiveLeaseStands
<1>4. IInv => FencesAreUnique BY DEF IInv
<1>5. QED BY <1>1, <1>2, <1>3, <1>4, PTL DEF Spec, LeaseIsExclusive
=============================================================================
