-------------------------------- MODULE Effects --------------------------------
(***************************************************************************)
(* External effects on the user's database: composition/postgres_effects.py*)
(* and postgres_effect_work.py, with the hermetic provider                 *)
(* (adapters/driven/effects_hermetic.py) and the parts of the Run that     *)
(* effects touch (postgres_run_recovery.py, the call branches of           *)
(* postgres_execution.py).                                                 *)
(*                                                                         *)
(* A stream is a consequential tool call of the one Run, or a compensation *)
(* of another stream.  It goes through preview, adoption, first send (the  *)
(* gate is crossed), emission claim, provider call, receipts, closure.     *)
(*                                                                         *)
(* An operation in one transaction is one step.  An operation that reads a *)
(* snapshot and publishes on an unchanged head is one step as well, unless *)
(* it checks the clock in between (preview_effect, adopt_effect): then it  *)
(* is a job in two steps, and every publication makes it stale.  The       *)
(* provider call of emit_effect runs after the claim has committed and     *)
(* outside any transaction, so it is a job in three steps, which a         *)
(* takeover or a crash may interrupt.                                      *)
(***************************************************************************)
EXTENDS DeploymentGate, EffectEvidence, Sequences, SequencesExt

CONSTANTS
    Runtimes,       \* runtime processes; each is opened at most once
    Tools,          \* original consequential calls of the Run
    Compensations,  \* compensation intents
    OriginalOf,     \* the stream a compensation compensates
    Members,        \* bundle members of every effect
    Ops,            \* operation identities of deployment requests
    Horizons,       \* expires_at_ns values of proposals
    MaxLate,        \* late receipts per transmission (late_receipt_scenarios)
    MaxTime,        \* bound on the clock, for TLC only
    NoWorker, None

\* What the constants have to satisfy.
StreamsAssumption ==
    /\ Tools \cap Compensations = {}
    /\ OriginalOf \in [Compensations -> Tools \cup Compensations]
    /\ Members # {}
    /\ NoWorker \notin Runtimes

Streams == Tools \cup Compensations
CallStates == {"INITIALIZED", "ACCEPTED", "OUTCOME_UNKNOWN", "SUCCEEDED",
               "FAILED_DEFINITE", "CANCELLED"}

VARIABLES
    now, current, handoffs,  \* the clock and the gate tables
    worker, opened, crashed, \* user_state.worker and the processes
    run,          \* state of the Run
    obligations,  \* original_obligations of the Run
    call,         \* latest call state; ACCEPTED with an unknown outcome is its own value
    previews,     \* retained previews per stream
    intent,       \* the adopted preview per stream
    send,         \* the gate request of the first send
    claim,        \* the emission claim: the runtime that took it
    evidence,     \* retained receipts, in order
    closure,      \* outcome of the closure
    reduction,    \* latest reduction
    order,        \* streams in the order of their send records
    jobs,         \* operations between two of their steps
    transfer,     \* provider: its first receipt for a transmission
    late,         \* provider: later receipts for it
    attempts,     \* provider: calls of emit_issued
    used          \* results of calls given to the model

gate == <<now, current, handoffs>>
processes == <<worker, opened, crashed>>
runvars == <<run, obligations, call>>
records == <<previews, intent, send, claim, evidence, closure, reduction, order>>
provider == <<transfer, late, attempts>>
vars == <<gate, processes, runvars, records, jobs, provider, used>>

-----------------------------------------------------------------------------
Current(p) == worker = p /\ p \notin crashed

\* Every publication moves the head.  A preview or an adoption computed from an
\* older head will be refused, which changes nothing: it ends here.
Staled(js) == {j \in js : j.op \notin {"preview", "adopt"}}

Receipt(seq, happened, incapable) ==
    [seq |-> seq, occurred |-> happened, incapable |-> incapable]

\* The one transmission of the first send; it names its stream.
Child(s) == s

ObservationsOf(s, receipts) ==
    UNION {{[child |-> Child(s), member |-> m, outcome |-> "OCCURRED"] : m \in r.occurred} \cup
           {[child |-> Child(s), member |-> m, outcome |-> "PERMANENTLY_INCAPABLE"] :
               m \in r.incapable} : r \in ToSet(receipts)}

evidence_outcome(s, receipts) ==
    reduce_child_evidence("OUTCOME_UNKNOWN", {Child(s)}, Members, ObservationsOf(s, receipts))

NoReduction == [closed |-> FALSE, count |-> 0, outcome |-> None]

\* current_effect_result does not raise LoopHold.
HasCurrentResult(s) ==
    /\ closure[s] # None
    /\ reduction[s].closed
    /\ reduction[s].count = Len(evidence[s])
    /\ reduction[s].outcome = evidence_outcome(s, evidence[s])
    /\ reduction[s].outcome \in ClosedOutcomes

\* evidence_inventory_head: names the claim and the retained evidence.
Inventory(s) == IF claim[s] = None THEN None ELSE Len(evidence[s])

require_subject_live(s) ==
    /\ s \in Tools => run = "ACTIVE"
    /\ s \in Compensations => Inventory(OriginalOf[s]) = intent[s].basis

EffectRequests(payload) ==
    {Request(op, "effects.first_send", payload, t) : op \in Ops, t \in Terms}

GateAdmits(request, payload) ==
    require(current, handoffs, now, request, "effects.first_send", payload, TRUE)
        \in {"FRESH", "RECORDED"}

\* What the absent value has to satisfy: it is none of the retained values.
NoneAssumption ==
    /\ None \notin Runtimes \cup ClosedOutcomes
    /\ None \notin [expires : Horizons, basis : Nat \cup {None}]
    /\ \A s \in Streams : None \notin EffectRequests(<<"send", s>>)
    /\ \A happened, incapable \in SUBSET Members : Receipt(0, happened, incapable) # None

EffectsAssumption == StreamsAssumption /\ NoneAssumption /\ MaxTime \in Nat

-----------------------------------------------------------------------------
Job(p, op, s, body) == [by |-> p, op |-> op, stream |-> s, body |-> body]
Drop(j) == jobs \ {j}

\* preview_effect: read and check; then publish.
preview_effect(p, t, expires) ==
    /\ Current(p)
    /\ call[t] = "INITIALIZED" /\ run = "ACTIVE" /\ now < expires
    /\ jobs' = jobs \cup {Job(p, "preview", t, [expires |-> expires, basis |-> None])}
    /\ UNCHANGED <<gate, processes, runvars, records, provider, used>>

PublishPreview(j) ==
    /\ j.op = "preview" /\ Current(j.by)
    /\ j.body \notin previews[j.stream]
    /\ previews' = [previews EXCEPT ![j.stream] = @ \cup {j.body}]
    /\ jobs' = Staled(Drop(j))
    /\ UNCHANGED <<gate, processes, runvars, intent, send, claim, evidence, closure,
                   reduction, order, provider, used>>

CanAdopt(t) == intent[t] = None /\ run = "ACTIVE" /\ call[t] = "INITIALIZED"

adopt_effect(p, t, preview) ==
    /\ Current(p)
    /\ preview \in previews[t] /\ CanAdopt(t) /\ now < preview.expires
    /\ jobs' = jobs \cup {Job(p, "adopt", t, preview)}
    /\ UNCHANGED <<gate, processes, runvars, records, provider, used>>

PublishAdoption(j) ==
    /\ j.op = "adopt" /\ Current(j.by)
    /\ intent' = [intent EXCEPT ![j.stream] = j.body]
    /\ call' = [call EXCEPT ![j.stream] = "ACCEPTED"]
    /\ jobs' = Staled(Drop(j))
    /\ UNCHANGED <<gate, processes, run, obligations, previews, send, claim, evidence,
                   closure, reduction, order, provider, used>>

\* cancel_execution_call; the Run need not be ACTIVE.
cancel_execution_call(p, t) ==
    /\ Current(p) /\ call[t] = "INITIALIZED"
    /\ call' = [call EXCEPT ![t] = "CANCELLED"]
    /\ jobs' = Staled(jobs)
    /\ UNCHANGED <<gate, processes, run, obligations, records, provider, used>>

\* preview_action and adopt_compensation: one transaction each.
RequireProposal(k, proposal) ==
    /\ now < proposal.expires
    /\ proposal.basis # None
    /\ proposal.basis = Inventory(OriginalOf[k])

preview_action(p, k, proposal) ==
    /\ Current(p) /\ proposal \notin previews[k] /\ RequireProposal(k, proposal)
    /\ previews' = [previews EXCEPT ![k] = @ \cup {proposal}]
    /\ jobs' = Staled(jobs)
    /\ UNCHANGED <<gate, processes, runvars, intent, send, claim, evidence, closure,
                   reduction, order, provider, used>>

adopt_compensation(p, k, proposal, request) ==
    /\ Current(p) /\ intent[k] = None
    /\ proposal \in previews[k] /\ RequireProposal(k, proposal)
    /\ GateAdmits(request, <<"adopt", k>>)
    /\ intent' = [intent EXCEPT ![k] = proposal]
    /\ jobs' = Staled(jobs)
    /\ UNCHANGED <<gate, processes, runvars, previews, send, claim, evidence, closure,
                   reduction, order, provider, used>>

Crossed(request, payload) == crossed(handoffs, request, payload)

commit_effect_send(p, s, request) ==
    /\ Current(p) /\ intent[s] # None /\ send[s] = None
    /\ now < intent[s].expires
    /\ require_subject_live(s)
    /\ s \in Tools => call[s] = "ACCEPTED"
    /\ GateAdmits(request, <<"send", s>>)
    /\ send' = [send EXCEPT ![s] = request]
    /\ order' = Append(order, s)
    /\ handoffs' = Crossed(request, <<"send", s>>)
    /\ jobs' = Staled(jobs)
    /\ UNCHANGED <<now, current, processes, runvars, previews, intent, claim, evidence,
                   closure, reduction, provider, used>>

Unclaimed(s) == claim[s] = None

ObligationsAfterClaim(s) == IF s \in Tools THEN obligations \cup {s} ELSE obligations

\* emit_effect up to the commit of the claim.
emit_effect(p, s) ==
    /\ Current(p)
    /\ Unclaimed(s) /\ intent[s] # None /\ send[s] # None
    /\ now < intent[s].expires
    /\ GateAdmits(send[s], <<"send", s>>)
    /\ require_subject_live(s)
    /\ s \in Tools => call[s] = "ACCEPTED"
    /\ claim' = [claim EXCEPT ![s] = p]
    /\ obligations' = ObligationsAfterClaim(s)
    /\ call' = IF s \in Tools THEN [call EXCEPT ![s] = "OUTCOME_UNKNOWN"] ELSE call
    /\ jobs' = Staled(jobs) \cup {Job(p, "claimed", s, None)}
    /\ UNCHANGED <<gate, processes, run, previews, intent, send, evidence, closure,
                   reduction, order, provider, used>>

\* runtime.current_worker() between the claim and the provider call.
CheckWorker(j) ==
    /\ j.op = "claimed"
    /\ jobs' = Drop(j) \cup (IF worker = j.by THEN {[j EXCEPT !.op = "checked"]} ELSE {})
    /\ UNCHANGED <<gate, processes, runvars, records, provider, used>>

Scenarios ==
    {Receipt(0, Members, {}), Receipt(0, {}, Members)} \cup
    {Receipt(0, {m}, Members \ {m}) : m \in {x \in Members : Members # {x}}}

\* emit_issued: the effect happens, and its receipt is returned or lost.  A race
\* on the provider journal raises before anything is written.
emit_issued(j) ==
    /\ j.op = "checked"
    /\ attempts' = [attempts EXCEPT ![j.stream] = @ + 1]
    /\ \/ transfer[j.stream] = None /\ \E receipt \in Scenarios :
             /\ transfer' = [transfer EXCEPT ![j.stream] = receipt]
             /\ \/ jobs' = Drop(j) \cup {[j EXCEPT !.op = "received", !.body = receipt]}
                \/ receipt.incapable = {} /\ jobs' = Drop(j)
       \/ jobs' = Drop(j) /\ UNCHANGED transfer
    /\ UNCHANGED <<gate, processes, runvars, records, late, used>>

observe_late_receipt(s) ==
    /\ transfer[s] # None /\ Cardinality(late[s]) < MaxLate
    /\ \E receipt \in {Receipt(Cardinality(late[s]) + 1, {}, {}),
                       Receipt(Cardinality(late[s]) + 1, transfer[s].incapable,
                               transfer[s].occurred)} :
          late' = [late EXCEPT ![s] = @ \cup {receipt}]
    /\ UNCHANGED <<gate, processes, runvars, records, jobs, transfer, attempts, used>>

Receipts(s) == late[s] \cup (IF transfer[s] = None THEN {} ELSE {transfer[s]})

Retained(s, receipt) == Append(evidence[s], receipt)

\* append_effect_receipt of an authentic receipt that is not yet retained.
Retain(s, receipt) ==
    LET retained == Retained(s, receipt) IN
    /\ claim[s] # None /\ receipt \notin ToSet(evidence[s])
    /\ evidence' = [evidence EXCEPT ![s] = retained]
    /\ reduction' = [reduction EXCEPT ![s] =
                        [closed |-> closure[s] # None, count |-> Len(retained),
                         outcome |-> evidence_outcome(s, retained)]]
    /\ UNCHANGED <<gate, processes, runvars, previews, intent, send, claim, closure, order,
                   provider, used>>

RetainEmitted(j) ==
    /\ j.op = "received" /\ Current(j.by)
    /\ Retain(j.stream, j.body)
    /\ jobs' = Staled(Drop(j))

\* append_effect_receipt and reconcile_effect called by a client.
append_effect_receipt(p, s, receipt) ==
    /\ Current(p) /\ receipt \in Receipts(s)
    /\ Retain(s, receipt)
    /\ jobs' = Staled(jobs)

reconcile_effect(p, s) ==
    transfer[s] # None /\ append_effect_receipt(p, s, transfer[s])

\* A discovered SEND is emitted once and reconciled from then on.
step_effect_work(p, s) ==
    /\ send[s] # None
    /\ emit_effect(p, s) \/ (claim[s] # None /\ reconcile_effect(p, s))

\* A job ends without its second step: its runtime is stale, an exception is
\* raised, or the receipt is already retained.
Refuse(j) ==
    /\ j.op \in {"preview", "adopt", "received"}
    /\ jobs' = Drop(j)
    /\ UNCHANGED <<gate, processes, runvars, records, provider, used>>

ClosureAfter(s, outcome) == IF closure[s] = None THEN outcome ELSE closure[s]

resolve_original_effect(p, s) ==
    LET outcome == evidence_outcome(s, evidence[s])
        next == [closed |-> TRUE, count |-> Len(evidence[s]), outcome |-> outcome]
    IN  /\ Current(p) /\ claim[s] # None /\ outcome \in ClosedOutcomes
        /\ reduction[s] # next
        /\ closure' = [closure EXCEPT ![s] = ClosureAfter(s, outcome)]
        /\ reduction' = [reduction EXCEPT ![s] = next]
        /\ call' = IF s \notin Tools THEN call
                   ELSE [call EXCEPT ![s] = IF outcome = "FAILED_NO_EFFECT"
                                            THEN "FAILED_DEFINITE" ELSE "SUCCEEDED"]
        /\ jobs' = Staled(jobs)
        /\ UNCHANGED <<gate, processes, run, obligations, previews, intent, send, claim,
                       evidence, order, provider, used>>

-----------------------------------------------------------------------------
\* suspend, resume and abort of the Run (the sealed Turn it needs is left out).
suspend_execution(p) ==
    /\ Current(p) /\ run = "ACTIVE"
    /\ run' = "SUSPENDED" /\ jobs' = Staled(jobs)
    /\ UNCHANGED <<gate, processes, obligations, call, records, provider, used>>

\* Mutant: resume trusts the closures alone.
CrossedWorkHasClosures == \A t \in obligations : closure[t] # None

_crossed_work_closed == \A t \in obligations : HasCurrentResult(t)

resume_execution(p) ==
    /\ Current(p) /\ run = "SUSPENDED" /\ _crossed_work_closed
    /\ run' = "ACTIVE" /\ jobs' = Staled(jobs)
    /\ UNCHANGED <<gate, processes, obligations, call, records, provider, used>>

abort_execution(p) ==
    /\ Current(p) /\ run \in {"ACTIVE", "SUSPENDED"}
    /\ run' = "ABORTED" /\ jobs' = Staled(jobs)
    /\ UNCHANGED <<gate, processes, obligations, call, records, provider, used>>

\* _closed_call_results for the calls of the Run: what the next model request shows.
ClosedCall(t) == \/ call[t] = "CANCELLED"
                 \/ intent[t] # None /\ HasCurrentResult(t)
CallResult(t) == IF call[t] = "CANCELLED" THEN "NOT_EXECUTED" ELSE reduction[t].outcome

continue_execution(p) ==
    /\ Current(p) /\ run = "ACTIVE" /\ \A t \in Tools : ClosedCall(t)
    /\ used' = [t \in Tools |-> used[t] \cup {CallResult(t)}]
    /\ jobs' = Staled(jobs)
    /\ UNCHANGED <<gate, processes, runvars, records, provider>>

-----------------------------------------------------------------------------
open(p) ==
    /\ p \notin opened
    /\ opened' = opened \cup {p} /\ worker' = p
    /\ UNCHANGED <<gate, crashed, runvars, records, jobs, provider, used>>

Crash(p) ==
    /\ p \in opened \ crashed
    /\ crashed' = crashed \cup {p}
    /\ jobs' = {j \in jobs : j.by # p}
    /\ UNCHANGED <<gate, worker, opened, runvars, records, provider, used>>

import_entitlement(e) ==
    /\ current' = e
    /\ UNCHANGED <<now, handoffs, processes, runvars, records, jobs, provider, used>>

Tick ==
    /\ now < MaxTime
    /\ now' = now + 1
    /\ UNCHANGED <<current, handoffs, processes, runvars, records, jobs, provider, used>>

Init ==
    /\ now = 0 /\ current = NoEntitlement /\ handoffs = {}
    /\ worker = NoWorker /\ opened = {} /\ crashed = {}
    /\ run = "ACTIVE" /\ obligations = {}
    /\ call = [t \in Tools |-> "INITIALIZED"]
    /\ previews = [s \in Streams |-> {}]
    /\ intent = [s \in Streams |-> None] /\ send = [s \in Streams |-> None]
    /\ claim = [s \in Streams |-> None] /\ evidence = [s \in Streams |-> <<>>]
    /\ closure = [s \in Streams |-> None] /\ reduction = [s \in Streams |-> NoReduction]
    /\ order = <<>> /\ jobs = {}
    /\ transfer = [s \in Streams |-> None] /\ late = [s \in Streams |-> {}]
    /\ attempts = [s \in Streams |-> 0]
    /\ used = [t \in Tools |-> {}]

Client(p) ==
    \/ \E t \in Tools, expires \in Horizons : preview_effect(p, t, expires)
    \/ \E t \in Tools : \E preview \in previews[t] : adopt_effect(p, t, preview)
    \/ \E t \in Tools : cancel_execution_call(p, t)
    \/ \E k \in Compensations, expires \in Horizons :
          preview_action(p, k, [expires |-> expires, basis |-> Inventory(OriginalOf[k])])
    \/ \E k \in Compensations : \E proposal \in previews[k] :
          \E request \in EffectRequests(<<"adopt", k>>) :
              adopt_compensation(p, k, proposal, request)
    \/ \E s \in Streams : \E request \in EffectRequests(<<"send", s>>) :
          commit_effect_send(p, s, request)
    \/ \E s \in Streams : emit_effect(p, s) \/ step_effect_work(p, s)
    \/ \E s \in Streams : \E receipt \in Receipts(s) : append_effect_receipt(p, s, receipt)
    \/ \E s \in Streams : resolve_original_effect(p, s)
    \/ suspend_execution(p) \/ resume_execution(p) \/ abort_execution(p)
    \/ continue_execution(p)

JobStep(j) ==
    \/ PublishPreview(j) \/ PublishAdoption(j) \/ CheckWorker(j)
    \/ emit_issued(j) \/ RetainEmitted(j) \/ Refuse(j)

Next ==
    \/ \E p \in Runtimes : Client(p) \/ open(p) \/ Crash(p)
    \/ \E j \in jobs : JobStep(j)
    \/ \E s \in Streams : observe_late_receipt(s)
    \/ \E e \in Entitlements : import_entitlement(e)
    \/ Tick

Spec == Init /\ [][Next]_vars
-----------------------------------------------------------------------------
(* discover_effect_work: pages of unsettled sends, in the order of the log.  *)

Unsettled(s) == ~HasCurrentResult(s)

discover_effect_work(after, limit) ==
    LET rest == SubSeq(order, after + 1, Len(order))
        pending == SelectSeq(rest, Unsettled)
    IN  IF Len(pending) < limit THEN [items |-> pending, has_more |-> FALSE]
        ELSE [items |-> SubSeq(pending, 1, limit), has_more |-> pending[limit] # Last(rest)]

\* What a caller collects who follows next_send until has_more is false.
Collected(limit) ==
    LET from[i \in 0..Len(order)] ==
            LET page == discover_effect_work(i, limit)
            IN  IF page.has_more
                THEN page.items \o
                     from[CHOOSE n \in DOMAIN order : order[n] = Last(page.items)]
                ELSE page.items
    IN  from[0]
-----------------------------------------------------------------------------
TypeOK ==
    /\ now \in 0..MaxTime /\ current \in Entitlements \cup {NoEntitlement}
    /\ worker \in opened \cup {NoWorker} /\ crashed \subseteq opened
    /\ run \in {"ACTIVE", "SUSPENDED", "ABORTED"} /\ obligations \subseteq Tools
    /\ call \in [Tools -> CallStates]
    /\ \A s \in Streams : intent[s] # None => intent[s] \in previews[s]
    /\ \A s \in Streams : ToSet(evidence[s]) \subseteq Receipts(s)
    /\ \A j \in jobs : j.by \in opened \ crashed /\ j.stream \in Streams
    /\ closure \in [Streams -> ClosedOutcomes \cup {None}]

\* emit_issued is called at most once for a stream, whoever takes over or crashes
\* after the claim, and never for a cancelled call: the claim is irreversible.
EmittedAtMostOnce ==
    /\ \A s \in Streams : attempts[s] <= 1 /\ (attempts[s] = 1 => claim[s] # None)
    /\ \A t \in Tools : call[t] = "CANCELLED" => attempts[t] = 0 /\ intent[t] = None

\* The Run owns exactly the claimed tool effects as obligations, and a call is
\* terminal exactly when its effect has a closure, with the matching outcome.
ClaimedWorkIsOwned ==
    /\ obligations = {t \in Tools : claim[t] # None}
    /\ \A t \in Tools :
          /\ intent[t] = None => call[t] \in {"INITIALIZED", "CANCELLED"}
          /\ intent[t] # None /\ claim[t] = None => call[t] = "ACCEPTED"
          /\ claim[t] # None /\ closure[t] = None => call[t] = "OUTCOME_UNKNOWN"
          /\ closure[t] = "FAILED_NO_EFFECT" => call[t] = "FAILED_DEFINITE"
          /\ closure[t] \in {"CONFIRMED", "PARTIAL_CONFIRMED"} => call[t] = "SUCCEEDED"

\* Every first send has one deployment handoff with its own request, and nothing
\* else crosses the gate: adoptions are checked but do not consume the cap.
HandoffIffSend ==
    /\ handoffs = {[request |-> send[s], payload |-> <<"send", s>>] :
                      s \in {x \in Streams : send[x] # None}}
    /\ Cardinality(handoffs) = Len(order)

Rival(s, receipt) == receipt.occurred \cap transfer[s].incapable # {}
                     \/ receipt.incapable \cap transfer[s].occurred # {}

\* A closure states what the provider did, unless the provider itself has signed
\* a receipt that contradicts its first one and that receipt was retained.
ClosureIsTrue ==
    \A s \in Streams :
        closure[s] # None /\ (\A r \in ToSet(evidence[s]) : ~Rival(s, r)) =>
            transfer[s] # None /\ closure[s] = evidence_outcome(s, <<transfer[s]>>)

\* A retained receipt or a second resolution may reopen the question, but never
\* turns one closed outcome into another.
ClosedOutcomesAgree ==
    \A s \in Streams :
        closure[s] # None /\ evidence_outcome(s, evidence[s]) \in ClosedOutcomes =>
            evidence_outcome(s, evidence[s]) = closure[s]

\* The model is never shown two different results of one call.
ResultsAreStable ==
    \A t \in Tools :
        used[t] \subseteq IF call[t] = "CANCELLED" THEN {"NOT_EXECUTED"} ELSE {closure[t]}

\* An effect is emitted at most once and owned by its Run, a closure states what
\* the provider did and never flips, the model sees one result of a call, and
\* every send has its handoff.
EffectsAreExact ==
    /\ TypeOK /\ EmittedAtMostOnce /\ ClaimedWorkIsOwned /\ HandoffIffSend
    /\ ClosureIsTrue /\ ClosedOutcomesAgree /\ ResultsAreStable

\* Following the pages of discover_effect_work finds every unsettled send once,
\* in order, for every page size.
DiscoveryIsComplete ==
    \A limit \in 1..Len(order) : Collected(limit) = SelectSeq(order, Unsettled)

\* At the step that claims an emission the runtime is the current one, the Run is
\* ACTIVE, the adopted horizon and the entitlement window are open, and a
\* compensation still rests on the evidence it was adopted for.
ClaimsAreLive ==
    \A s \in Streams : claim[s] = None /\ claim'[s] # None =>
       /\ claim'[s] = worker
       /\ s \in Tools => run = "ACTIVE"
       /\ now < intent[s].expires /\ Open(current, now)
       /\ s \in Compensations => Len(evidence[OriginalOf[s]]) = intent[s].basis

\* A suspended Run becomes ACTIVE again only when the evidence of every effect it
\* owns still supports the closure, late receipts included.
ResumesOnClosedWork ==
    run = "SUSPENDED" /\ run' = "ACTIVE" =>
       \A t \in obligations : evidence_outcome(t, evidence[t]) = closure[t]

=============================================================================
