------------------------------- MODULE Delivery -------------------------------
(***************************************************************************)
(* Completion and delivery: composition/postgres_completion.py with        *)
(* prepare_completion (capabilities/agent_loop/delivery_preparation.py)    *)
(* and the local inbox provider (adapters/driven/delivery_local_cli.py).   *)
(*                                                                         *)
(* A Run whose model answered Complete is accepted once; acceptance        *)
(* publishes the proposal, the SUCCEEDED Run, one delivery intent and one  *)
(* history entry.  The delivery is then sent (the gate is crossed),        *)
(* claimed, emitted into the inbox directory and its receipt retained.     *)
(* There is one registered recipient and a second delivery to it is        *)
(* rejected, so a delivery is named by its Run.                            *)
(*                                                                         *)
(* The proposal binds everything the acceptance observed, the receipts and *)
(* reductions of the Run's effects included.  Of these only the effects    *)
(* can move afterwards: cut counts the changes of their reductions, and    *)
(* settled says that each still has a current result (module Effects; a    *)
(* contradicted effect stays so).                                          *)
(*                                                                         *)
(* Each operation is one transaction, or a read and a publication on the   *)
(* same head, and is one step; emission runs after the claim has committed *)
(* and is a job in several steps.                                          *)
(***************************************************************************)
EXTENDS DeploymentGate, Sequences, SequencesExt

CONSTANTS
    Runtimes,   \* runtime processes; each is opened at most once
    Runs,       \* Runs whose last event is ModelCompletionPrepared
    Ops,        \* operation identities of deployment requests
    MaxCut,     \* late receipts per Run, for TLC only
    MaxTime,    \* bound on the clock, for TLC only
    NoWorker, None

VARIABLES
    now, current, handoffs,  \* the clock and the gate tables
    worker, opened, crashed, \* user_state.worker and the processes
    run,        \* state of each Run
    cited,      \* the cut its text asserts, None if it is commentary only
    cut,        \* changes of the reductions of its effects
    settled,    \* all its effects have a current result
    accepted,   \* the cut its acceptance was prepared from
    history,    \* conversation entries, in the order of their ordinals
    send,       \* gate request of the first send
    claim,      \* the runtime that claimed the emission
    receipt,    \* outcome of the retained receipt
    inbox,      \* the inbox file: absent, linked, or linked and synced
    calls,      \* calls of emit_issued
    jobs        \* emissions and reconciliations between two of their steps

gate == <<now, current, handoffs>>
processes == <<worker, opened, crashed>>
effects == <<cited, cut, settled>>
records == <<send, claim, receipt>>
vars == <<gate, processes, run, effects, accepted, history, records, inbox, calls, jobs>>

Job(p, op, r) == [by |-> p, op |-> op, run |-> r]
Drop(j) == jobs \ {j}
Becomes(j, op) == Drop(j) \cup {[j EXCEPT !.op = op]}

Current(p) == worker = p /\ p \notin crashed

-----------------------------------------------------------------------------
\* assert_all_selected_seals_closed and prepare_completion do not raise.
prepare_completion(r) == settled[r] /\ cited[r] \in {None, cut[r]}

HistoryWith(r) == Append(history, r)

observation(r) == cut[r]

accept_completion(p, r) ==
    /\ Current(p)
    /\ accepted[r] = None /\ run[r] = "PREPARED"
    /\ prepare_completion(r)
    /\ accepted' = [accepted EXCEPT ![r] = observation(r)]
    /\ run' = [run EXCEPT ![r] = "SUCCEEDED"]
    /\ history' = HistoryWith(r)
    /\ UNCHANGED <<gate, processes, effects, records, inbox, calls, jobs>>

abort_execution(p, r) ==
    /\ Current(p) /\ run[r] = "PREPARED"
    /\ run' = [run EXCEPT ![r] = "ABORTED"]
    /\ UNCHANGED <<gate, processes, effects, accepted, history, records, inbox, calls, jobs>>

\* Mutant: only the closure of the effects is looked at again.
RevalidatedBySeals(r) == settled[r]

\* The proposal prepared now equals the accepted one.
revalidate(r) == prepare_completion(r) /\ cut[r] = accepted[r]

DeliveryRequests(r) == {Request(op, "delivery.first_send", r, t) : op \in Ops, t \in Terms}

GateAdmits(request, r) ==
    require(current, handoffs, now, request, "delivery.first_send", r, TRUE)
        \in {"FRESH", "RECORDED"}

\* What the constants have to satisfy: the absent value is none of the retained
\* ones.
DeliveryAssumption ==
    /\ NoWorker \notin Runtimes /\ MaxTime \in Nat /\ MaxCut \in Nat
    /\ None \notin Nat \cup Runtimes \cup {"CONFIRMED"}
    /\ \A r \in Runs : None \notin DeliveryRequests(r)

Crossed(request, r) == crossed(handoffs, request, r)

commit_delivery_send(p, r, request) ==
    /\ Current(p) /\ accepted[r] # None /\ send[r] = None
    /\ revalidate(r)
    /\ GateAdmits(request, r)
    /\ send' = [send EXCEPT ![r] = request]
    /\ handoffs' = Crossed(request, r)
    /\ UNCHANGED <<now, current, processes, run, effects, accepted, history, claim, receipt,
                   inbox, calls, jobs>>

Unclaimed(r) == claim[r] = None

\* emit_delivery up to the commit of the claim.
emit_delivery(p, r) ==
    /\ Current(p) /\ accepted[r] # None
    /\ Unclaimed(r) /\ send[r] # None
    /\ revalidate(r)
    /\ GateAdmits(send[r], r)
    /\ claim' = [claim EXCEPT ![r] = p]
    /\ jobs' = jobs \cup {Job(p, "claimed", r)}
    /\ UNCHANGED <<gate, processes, run, effects, accepted, history, send, receipt, inbox,
                   calls>>

\* runtime.current_worker() between the claim and the provider call.
CheckWorker(j) ==
    /\ j.op = "claimed"
    /\ jobs' = IF worker = j.by THEN Becomes(j, "checked") ELSE Drop(j)
    /\ UNCHANGED <<gate, processes, run, effects, accepted, history, records, inbox, calls>>

Linked(state) == IF state = "absent" THEN "linked" ELSE state

\* _emit: the file is written, synced and linked under its transmission's name.
_emit(j) ==
    /\ j.op = "checked"
    /\ calls' = [calls EXCEPT ![j.run] = @ + 1]
    /\ inbox' = [inbox EXCEPT ![j.run] = Linked(@)]
    /\ jobs' = Becomes(j, "linked")
    /\ UNCHANGED <<gate, processes, run, effects, accepted, history, records>>

_sync_directory(j) ==
    /\ j.op = "linked"
    /\ inbox' = [inbox EXCEPT ![j.run] = "synced"]
    /\ jobs' = Becomes(j, "received")
    /\ UNCHANGED <<gate, processes, run, effects, accepted, history, records, calls>>

\* _selected syncs the directory before it returns a file it found.
SelectedSynced == [r \in Runs |-> IF inbox[r] = "absent" THEN "absent" ELSE "synced"]

\* reconcile_delivery up to the retention of what it found.
reconcile_delivery(p, r) ==
    /\ Current(p) /\ send[r] # None
    /\ inbox[r] # "absent"
    /\ inbox' = SelectedSynced
    /\ jobs' = jobs \cup {Job(p, "received", r)}
    /\ UNCHANGED <<gate, processes, run, effects, accepted, history, records, calls>>

\* The receipt of the local inbox always says that the delivery occurred.
retain_delivery_receipt(j) ==
    /\ j.op = "received" /\ Current(j.by)
    /\ claim[j.run] # None /\ send[j.run] # None
    /\ receipt' = [receipt EXCEPT ![j.run] = "CONFIRMED"]
    /\ jobs' = Drop(j)
    /\ UNCHANGED <<gate, processes, run, effects, accepted, history, send, claim, inbox, calls>>

\* A job ends early: an exception, a moved head or a stale runtime.
Refuse(j) ==
    /\ j.op # "claimed"
    /\ jobs' = Drop(j)
    /\ UNCHANGED <<gate, processes, run, effects, accepted, history, records, inbox, calls>>

-----------------------------------------------------------------------------
\* A receipt for an effect of the Run is retained (append_effect_receipt): a new
\* reduction, which may contradict the closed outcome.
append_effect_receipt(p, r) ==
    /\ Current(p) /\ cut[r] < MaxCut
    /\ cut' = [cut EXCEPT ![r] = @ + 1]
    /\ \E agrees \in BOOLEAN : settled' = [settled EXCEPT ![r] = @ /\ agrees]
    /\ UNCHANGED <<gate, processes, run, cited, accepted, history, records, inbox, calls, jobs>>

open(p) ==
    /\ p \notin opened
    /\ opened' = opened \cup {p} /\ worker' = p
    /\ UNCHANGED <<gate, crashed, run, effects, accepted, history, records, inbox, calls, jobs>>

Crash(p) ==
    /\ p \in opened \ crashed
    /\ crashed' = crashed \cup {p}
    /\ jobs' = {j \in jobs : j.by # p}
    /\ UNCHANGED <<gate, worker, opened, run, effects, accepted, history, records, inbox, calls>>

\* The host loses power: every process ends, and a directory entry that was never
\* synced may be gone.  What PostgreSQL committed stays.
PowerLoss ==
    /\ crashed # opened
    /\ crashed' = opened /\ jobs' = {}
    /\ \E lost \in SUBSET {r \in Runs : inbox[r] = "linked"} :
          inbox' = [r \in Runs |-> IF r \in lost THEN "absent" ELSE inbox[r]]
    /\ UNCHANGED <<gate, worker, opened, run, effects, accepted, history, records, calls>>

import_entitlement(e) ==
    /\ current' = e
    /\ UNCHANGED <<now, handoffs, processes, run, effects, accepted, history, records, inbox,
                   calls, jobs>>

Tick ==
    /\ now < MaxTime
    /\ now' = now + 1
    /\ UNCHANGED <<current, handoffs, processes, run, effects, accepted, history, records,
                   inbox, calls, jobs>>

Init ==
    /\ now = 0 /\ current = NoEntitlement /\ handoffs = {}
    /\ worker = NoWorker /\ opened = {} /\ crashed = {}
    /\ run = [r \in Runs |-> "PREPARED"]
    /\ cited \in [Runs -> {0, None}]
    /\ cut = [r \in Runs |-> 0] /\ settled = [r \in Runs |-> TRUE]
    /\ accepted = [r \in Runs |-> None] /\ history = <<>>
    /\ send = [r \in Runs |-> None] /\ claim = [r \in Runs |-> None]
    /\ receipt = [r \in Runs |-> None] /\ inbox = [r \in Runs |-> "absent"]
    /\ calls = [r \in Runs |-> 0] /\ jobs = {}

Client(p, r) ==
    \/ accept_completion(p, r) \/ abort_execution(p, r)
    \/ \E request \in DeliveryRequests(r) : commit_delivery_send(p, r, request)
    \/ emit_delivery(p, r) \/ reconcile_delivery(p, r)
    \/ append_effect_receipt(p, r)

JobStep(j) ==
    \/ CheckWorker(j) \/ _emit(j) \/ _sync_directory(j)
    \/ retain_delivery_receipt(j) \/ Refuse(j)

Next ==
    \/ \E p \in Runtimes : open(p) \/ Crash(p) \/ \E r \in Runs : Client(p, r)
    \/ \E j \in jobs : JobStep(j)
    \/ PowerLoss \/ Tick
    \/ \E e \in Entitlements : import_entitlement(e)

Spec == Init /\ [][Next]_vars
-----------------------------------------------------------------------------
TypeOK ==
    /\ now \in 0..MaxTime /\ current \in Entitlements \cup {NoEntitlement}
    /\ worker \in opened \cup {NoWorker} /\ crashed \subseteq opened
    /\ run \in [Runs -> {"PREPARED", "SUCCEEDED", "ABORTED"}]
    /\ cut \in [Runs -> 0..MaxCut]
    /\ \A r \in Runs : accepted[r] # None => accepted[r] <= cut[r]
    /\ claim \in [Runs -> opened \cup {None}] /\ receipt \in [Runs -> {"CONFIRMED", None}]
    /\ inbox \in [Runs -> {"absent", "linked", "synced"}]
    /\ \A j \in jobs : j.by \in opened \ crashed /\ j.run \in Runs

\* A Run has SUCCEEDED exactly when it was accepted, and then the conversation
\* holds its text once: nothing of the one publication is missing or repeated.
SucceededIffAccepted ==
    /\ \A r \in Runs : run[r] = "SUCCEEDED" <=> accepted[r] # None
    /\ ToSet(history) = {r \in Runs : run[r] = "SUCCEEDED"}
    /\ IsInjective(history)

\* A text that asserts outcomes is accepted only from the evidence it cites, and
\* its acceptance is never reused for other evidence.
AcceptedAsCited ==
    \A r \in Runs : accepted[r] # None /\ cited[r] # None => accepted[r] = cited[r]

\* A delivery is confirmed only when its file survives a loss of power, and only
\* after its send and its claim.
ConfirmedIsDurable ==
    \A r \in Runs : receipt[r] = "CONFIRMED" =>
        inbox[r] = "synced" /\ claim[r] # None /\ send[r] # None

\* The provider is called at most once for a delivery, whoever takes over, crashes
\* or loses power after the claim; nothing is in the inbox without the call.
EmittedAtMostOnce ==
    \A r \in Runs : /\ calls[r] <= 1
                    /\ inbox[r] # "absent" => calls[r] = 1 /\ claim[r] # None

\* Every first send has one deployment handoff with its own request, and nothing
\* else crosses the gate.
HandoffIffSend ==
    handoffs = {[request |-> send[r], payload |-> r] : r \in {x \in Runs : send[x] # None}}

\* An emission is claimed only while the evidence is still the one the text was
\* accepted from: a text whose evidence has moved is never claimed, and nothing
\* reaches the inbox without a claim.
StaleTextIsNeverDelivered ==
    \A r \in Runs : claim[r] = None /\ claim'[r] # None => accepted[r] = cut[r]

\* A completed Run is accepted once, from the evidence its text cites, delivered
\* at most once and confirmed only when durable, and every send has its handoff.
DeliveredOnce ==
    /\ TypeOK /\ SucceededIffAccepted /\ AcceptedAsCited /\ ConfirmedIsDurable
    /\ EmittedAtMostOnce /\ HandoffIffSend

\* All of this in every state, and a text whose evidence has moved is never
\* delivered.
DeliveryIsExact ==
    /\ []DeliveredOnce
    /\ [][StaleTextIsNeverDelivered]_vars
=============================================================================
