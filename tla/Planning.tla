------------------------------- MODULE Planning -------------------------------
(***************************************************************************)
(* Planning on the user's database: composition/postgres_planning.py with  *)
(* capabilities/planning/_planning.py, the projection it renders, and the  *)
(* joint plan-and-effect publication of postgres_effect_work.py.           *)
(*                                                                         *)
(* Every operation is one transaction under the row lock on user_state, so *)
(* every operation is one step.  What makes it hard is what happens        *)
(* between the calls: the clock passes the window of the entitlement, the  *)
(* operator imports other terms, the credential is revoked, another owner  *)
(* takes a record identity, and callers repeat commands, change them, or   *)
(* present a request made for an earlier state.                            *)
(*                                                                         *)
(* A canonical byte string is the value it encodes, so a command is its    *)
(* own payload and its own request fingerprint (the trust reference in the *)
(* fingerprint is constant while the credential is valid).                 *)
(***************************************************************************)
EXTENDS DeploymentGate, Sequences, SequencesExt

CONSTANTS
    Commands,      \* [id, line, revision, purpose, act]
    PlanRequests,  \* [intent, command, expected, act, expires]
    RenderOps,     \* operation identities of disclosure requests
    ForeignIds,    \* record identities other owners may publish
    NoRevision,    \* PlanEffectRequest.expected_planning_revision is None
    MaxTime        \* bound on the clock, for TLC only

VARIABLES
    now,        \* time.time_ns()
    trust,      \* the deployment-trust state that _context authenticates
    current,    \* table gate_current
    handoffs,   \* table gate_handoffs
    log,        \* the publications of the user database, in sequence
    disclosed,  \* operation and content of every successful render
    reply       \* how the last call ended

vars == <<now, trust, current, handoffs, log, disclosed, reply>>

-----------------------------------------------------------------------------
(* The log and what the owners read from it.                                 *)

RecordIds(c) ==
    {c.id, <<c.id, "authorization">>, <<c.id, "result">>, c.line, c.revision}

PlanBatch(c) == [op |-> "planning.create", body |-> c, ids |-> RecordIds(c)]
PreviewBatch(r) == [op |-> "effects.action-preview", body |-> r, ids |-> {<<"preview", r>>}]
IntentBatch(r) == [op |-> "effects.plan-intent", body |-> r, ids |-> {<<"intent", r>>}]
ForeignBatch(x) == [op |-> "other", body |-> x, ids |-> {x}]

AllIds == UNION {b.ids : b \in ToSet(log)}

Bodies(op) ==
    LET batches == SelectSeq(log, LAMBDA b : b.op = op)
    IN  [i \in DOMAIN batches |-> batches[i].body]

publications == Bodies("planning.create")

\* _reduce: a projection row per line; a line allocated twice cannot be reduced.
Rebuilds == \A i, j \in DOMAIN publications :
                publications[i].line = publications[j].line => i = j

\* What render returns: the lines in commit order with their current purpose.
Rendered(pubs) == [i \in DOMAIN pubs |-> <<pubs[i].line, pubs[i].purpose>>]

LatestRevision(line) ==
    LET own == SelectSeq(publications, LAMBDA c : c.line = line)
    IN  IF own = <<>> THEN NoRevision ELSE Last(own).revision

-----------------------------------------------------------------------------
\* _PlanningUseCase.execute with an authenticated context; the revalidation
\* inside it reads the same locked trust state and succeeds again.
execute(c) ==
    LET prior == {p \in ToSet(publications) : p.id = c.id} IN
    IF Cardinality({c.id, c.line, c.revision}) # 3 THEN "DENIED"
    ELSE IF prior # {} THEN IF prior = {c} THEN "REPLAY" ELSE "CONFLICT"
    ELSE IF RecordIds(c) \cap AllIds # {} THEN "CONFLICT"
    ELSE "COMMITTED"

\* The reply of publish_plan_in_transaction.  It writes the planning batch and
\* the handoff exactly when the reply is COMMITTED.
publish_plan_in_transaction(c, request) ==
    LET gate == require(current, handoffs, now, request, "planning.create", c, FALSE)
        outcome == execute(c)
    IN  IF trust # "VALID" THEN "PermissionError"
        ELSE IF request.operation_id # c.id \/ gate = "HOLD" THEN "DENIED"
        ELSE IF gate = "CONFLICT" THEN "ValueError"
        ELSE IF outcome = "COMMITTED" /\ gate # "FRESH" THEN "RuntimeError"
        ELSE outcome

\* Mutant: the handoff is not recorded.
CrossedPlanningForgotten(request, c) == handoffs
CrossedPlanning(request, c) == crossed(handoffs, request, c)

create(c, request) ==
    LET outcome == publish_plan_in_transaction(c, request) IN
    /\ reply' = outcome
    /\ IF outcome = "COMMITTED"
       THEN /\ log' = Append(log, PlanBatch(c))
            /\ handoffs' = CrossedPlanning(request, c)
       ELSE UNCHANGED <<log, handoffs>>
    /\ UNCHANGED <<now, trust, current, disclosed>>

RenderGate(request) ==
    require(current, handoffs, now, request, "cli.render", Rendered(publications), FALSE)

render(request) ==
    LET gate == RenderGate(request)
        result == Rendered(publications)
    IN  /\ IF trust # "VALID" \/ gate \notin {"FRESH", "RECORDED"} \/ ~Rebuilds
           THEN reply' = "PermissionError" /\ UNCHANGED <<handoffs, disclosed>>
           ELSE /\ reply' = "RENDERED"
                /\ handoffs' = IF gate = "FRESH" THEN crossed(handoffs, request, result)
                               ELSE handoffs
                /\ disclosed' = disclosed \cup {[op |-> request.operation_id, content |-> result]}
        /\ UNCHANGED <<now, trust, current, log>>

\* preview_action of a plan-effect proposal.
preview_action(r) ==
    /\ trust = "VALID" /\ now < r.expires
    /\ PreviewBatch(r) \notin ToSet(log)
    /\ log' = Append(log, PreviewBatch(r))
    /\ reply' = "PREVIEWED"
    /\ UNCHANGED <<now, trust, current, handoffs, disclosed>>

PlanEffectAdmitted(r, c, request) ==
    /\ trust = "VALID"
    /\ PreviewBatch(r) \in ToSet(log) /\ now < r.expires
    /\ c = r.command /\ c.act = r.act
    /\ r.expected = LatestRevision(c.line)
    /\ publish_plan_in_transaction(c, request) = "COMMITTED"

AdoptedBy(r) == {x \in ToSet(Bodies("effects.plan-intent")) : x.intent = r.intent}

\* publish_plan_effect: two owner batches and the handoff in one transaction;
\* every refusal raises and rolls all of them back.
publish_plan_effect(r, c, request) ==
    /\ IF trust = "VALID" /\ AdoptedBy(r) # {}
       THEN /\ reply' = IF AdoptedBy(r) = {r} /\ c = r.command THEN "REPLAY" ELSE "LoopRejected"
            /\ UNCHANGED <<log, handoffs>>
       ELSE IF PlanEffectAdmitted(r, c, request)
       THEN /\ log' = log \o <<PlanBatch(c), IntentBatch(r)>>
            /\ handoffs' = CrossedPlanning(request, c)
            /\ reply' = "COMMITTED"
       ELSE reply' = "LoopRejected" /\ UNCHANGED <<log, handoffs>>
    /\ UNCHANGED <<now, trust, current, disclosed>>

\* import_current compares the previous row and replaces it; terms or
\* liveness, or both, may change.
import_entitlement(e) ==
    /\ current' = e
    /\ reply' = "IMPORTED"
    /\ UNCHANGED <<now, trust, handoffs, log, disclosed>>

\* initialize and bootstrap in one transaction; repeated with the same token it
\* returns without a new decision.
bootstrap ==
    /\ trust = "ABSENT"
    /\ trust' = "VALID" /\ reply' = "BOOTSTRAPPED"
    /\ UNCHANGED <<now, current, handoffs, log, disclosed>>

revoke ==
    /\ trust # "ABSENT"
    /\ trust' = "REVOKED" /\ reply' = "REVOKED"
    /\ UNCHANGED <<now, current, handoffs, log, disclosed>>

\* A batch of another capability of the same user (UserDatabase.publish).
PublishForeign(x) ==
    /\ x \notin AllIds
    /\ log' = Append(log, ForeignBatch(x))
    /\ UNCHANGED <<now, trust, current, handoffs, disclosed, reply>>

Tick ==
    /\ now < MaxTime
    /\ now' = now + 1
    /\ UNCHANGED <<trust, current, handoffs, log, disclosed, reply>>

-----------------------------------------------------------------------------
Init ==
    /\ now = 0
    /\ trust = "ABSENT"
    /\ current = NoEntitlement
    /\ handoffs = {} /\ log = <<>> /\ disclosed = {}
    /\ reply = "NONE"

\* A caller's request names terms it has read, an operation identity, and the
\* payload it expects; a disclosure may be predicted from an older log.
CreateRequests(c) ==
    {Request(op, "planning.create", c, t) : op \in {d.id : d \in Commands}, t \in Terms}
RenderRequests ==
    {Request(op, "cli.render", Rendered(SubSeq(publications, 1, n)), t) :
        op \in RenderOps, n \in 0..Len(publications), t \in Terms}

Next ==
    \/ bootstrap \/ revoke \/ Tick
    \/ \E e \in Entitlements : import_entitlement(e)
    \/ \E c \in Commands : \E request \in CreateRequests(c) : create(c, request)
    \/ \E request \in RenderRequests : render(request)
    \/ \E r \in PlanRequests : preview_action(r)
    \/ \E r \in PlanRequests, c \in Commands :
          \E request \in CreateRequests(c) : publish_plan_effect(r, c, request)
    \/ \E x \in ForeignIds : PublishForeign(x)

Spec == Init /\ [][Next]_vars
-----------------------------------------------------------------------------
Replies == {"NONE", "PermissionError", "DENIED", "ValueError", "RuntimeError",
            "REPLAY", "CONFLICT", "COMMITTED", "RENDERED", "PREVIEWED",
            "LoopRejected", "IMPORTED", "BOOTSTRAPPED", "REVOKED"}

TypeOK ==
    /\ now \in 0..MaxTime
    /\ trust \in {"ABSENT", "VALID", "REVOKED"}
    /\ current \in Entitlements \cup {NoEntitlement}
    /\ \A h \in handoffs : h.request.terms \in Terms /\ h.payload = h.request.payload
    /\ \A d \in disclosed : d.op \in RenderOps
    /\ reply \in Replies

\* A planning handoff and its planning batch exist together or not at all, so
\* the RuntimeError "recorded deployment handoff has no committed planning
\* batch" cannot be raised, whatever was imported, repeated or rolled back.
HandoffIffPublished ==
    /\ \A h \in handoffs : h.request.surface_id = "planning.create" =>
          h.payload \in ToSet(publications)
    /\ \A c \in ToSet(publications) : \E h \in handoffs :
          h.request.operation_id = c.id /\ h.payload = c
    /\ reply # "RuntimeError"

\* The projection of the log can always be rebuilt and no record identity is
\* published twice: a command identity, a line and a revision belong to one
\* publication, although other owners publish in the same database.
LogStaysReducible ==
    /\ Rebuilds
    /\ \A i, j \in DOMAIN log : i # j => log[i].ids \cap log[j].ids = {}

\* A plan-effect intent directly follows the planning batch it adopted: the two
\* owners' batches commit together or not at all, and no intent exists for a
\* plan that was committed by another call.
PlanEffectIsJoint ==
    \A i \in DOMAIN log :
        log[i].op = "effects.plan-intent" =>
            i > 1 /\ log[i - 1] = PlanBatch(log[i].body.command)

\* What a render operation disclosed is what its handoff recorded, so one
\* operation never discloses two different states of the plan.
DisclosureIsRecorded ==
    /\ \A d \in disclosed : \E h \in handoffs :
          /\ h.request.surface_id = "cli.render"
          /\ h.request.operation_id = d.op /\ h.payload = d.content
    /\ \A d, e \in disclosed : d.op = e.op => d = e

\* Every crossing happens inside the window of the entitlement that is current
\* at that moment, and never exceeds the cap of its head and mode.
CrossingsAreEntitled ==
    \A h \in handoffs' \ handoffs :
       /\ current # NoEntitlement /\ h.request.terms = current.terms
       /\ current.live
       /\ now \in current.terms.starts..(current.terms.expires - 1)
       /\ now < current.terms.lease
       /\ Cardinality(Crossings(handoffs', current.terms)) <= current.terms.cap

\* After revocation nothing is planned, disclosed or handed off any more.
RevocationIsFinal ==
    trust = "REVOKED" =>
       /\ trust' = "REVOKED"
       /\ publications' = publications
       /\ UNCHANGED <<handoffs, disclosed>>
=============================================================================
