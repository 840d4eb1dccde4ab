----------------------------- MODULE EffectsOwner -----------------------------
(***************************************************************************)
(* The isolated effects owner (capabilities/effects/application.py), the   *)
(* adapter that publishes its candidates (adapters/driven/                 *)
(* effects_broker.py) and the read bridge that gives it a cut              *)
(* (effects_queries.py).                                                   *)
(*                                                                         *)
(* A caller submits a command.  The owner looks for an exact replay, reads *)
(* one cut of the store, prepares the next snapshot of one intent from it  *)
(* and hands the candidate to the broker, which publishes it only at the   *)
(* same tenant frontier.  The submission awaits that publication, so other *)
(* callers publish and the worker fence or the authority is replaced in    *)
(* between.                                                                *)
(*                                                                         *)
(* An attempt head is a digest over the command, the predecessor and the   *)
(* snapshot; here it is the frontier at which the snapshot was published.  *)
(***************************************************************************)
EXTENDS Integers, FiniteSets, EffectEvidence

CONSTANTS Intents,      \* identities of external action intents
          Targets,      \* recipient and payload of an effect
          Members,      \* the inseparable members of every intent's bundle
          Callers,      \* concurrent submissions
          MaxHead, MaxFence, MaxKids, MaxEvidence,
          None

\* What the constants have to satisfy.
EffectsOwnerAssumption ==
    /\ {MaxHead, MaxFence, MaxKids, MaxEvidence} \subseteq Nat
    /\ Members # {}

VARIABLES effect,  \* the latest selected snapshot of every intent, or None
          head,    \* the tenant frontier
          call,    \* the candidate every caller has in flight
          fence,   \* the current worker fence
          stale    \* intents whose authority binding is no longer current

vars == <<effect, head, call, fence, stale>>

TERMINAL_STATES == ClosedOutcomes \cup {"CANCELLED_BEFORE_SEND", "SUPERSEDED_BEFORE_SEND"}
PRE_SEND_STATES == {"INTENT_RECORDED", "HELD_BEFORE_SEND", "DISPATCH_AUTHORIZED"}
RETRANSMISSION_STATES == {"SEND_COMMITTED", "SENT", "OUTCOME_UNKNOWN"}
Crossed == {"SEND_COMMITTED", "SENT", "OUTCOME_UNKNOWN", "PARTIAL"}

Transitions ==
    [s \in PRE_SEND_STATES \cup Crossed |->
        CASE s = "INTENT_RECORDED" ->
               {"HELD_BEFORE_SEND", "CANCELLED_BEFORE_SEND",
                "SUPERSEDED_BEFORE_SEND", "DISPATCH_AUTHORIZED"}
          [] s = "HELD_BEFORE_SEND" ->
               {"DISPATCH_AUTHORIZED", "CANCELLED_BEFORE_SEND", "SUPERSEDED_BEFORE_SEND"}
          [] s = "DISPATCH_AUTHORIZED" ->
               {"HELD_BEFORE_SEND", "CANCELLED_BEFORE_SEND",
                "SUPERSEDED_BEFORE_SEND", "SEND_COMMITTED"}
          [] s = "SEND_COMMITTED" -> {"SENT", "CONFIRMED", "FAILED_NO_EFFECT"} \cup OpenOutcomes
          [] s = "SENT" -> {"CONFIRMED", "FAILED_NO_EFFECT"} \cup OpenOutcomes
          [] OTHER -> ClosedOutcomes]

CanMove(s, t) == s \in DOMAIN Transitions /\ t \in Transitions[s]

Published == {i \in Intents : effect[i] # None}

\* _previous: the exact current attempt of an intent.
Latest(i) == effect[i]

-----------------------------------------------------------------------------
(* Identities of attempts and obligations. *)

Ref(kind, at) == [kind |-> kind, at |-> at]

\* What a recovery intent must name of an unresolved effect: its obligation,
\* or its attempt head as long as no obligation was opened.
Ambiguity(s) ==
    IF s.obligation # None THEN s.obligation.ref ELSE Ref("ATTEMPT", s.attempt)

(* _require_no_replacement: the unresolved effects that stand in the way.  *)
(* The broker supplies a scope of its own; the owner adds the elementary   *)
(* identity reset, another intent for the same recipient and payload.      *)

Blocks(i, j, target) ==
    /\ j # i
    /\ effect[j].state \in Crossed
    /\ effect[j].target = target

Blockers(i, target, supplied) ==
    (supplied \ {i}) \cup {j \in Published : Blocks(i, j, target)}

MayBeSupplied == {j \in Published : effect[j].state \in Crossed \cup {"PARTIAL_CONFIRMED"}}

FreshOriginals(originals) ==
    \A o \in originals : Ambiguity(effect[o.intent]) = o.head

require_no_replacement(i, target, originals, supplied) ==
    /\ FreshOriginals(originals)
    /\ {o.intent : o \in originals} = Blockers(i, target, supplied)

\* The broker's scope contains every original a recovery intent must answer for.
Scope(originals) == {o.intent : o \in originals} \cap MayBeSupplied

-----------------------------------------------------------------------------
(* _bind_record: the obligation opens and closes with the outcome, and the *)
(* snapshot receives its new attempt head.                                 *)

Bind(previous, s) ==
    LET opening == [ref |-> Ref("OPEN", head + 1), kids |-> s.kids,
                    original |-> previous.attempt]
        closing == [s.obligation EXCEPT !.ref = Ref("CLOSED", head + 1),
                                        !.kids = s.kids]
    IN  [s EXCEPT
           !.attempt = head + 1,
           !.obligation =
             IF s.state \in OpenOutcomes /\ s.obligation = None THEN opening
             ELSE IF /\ s.state \in ClosedOutcomes
                     /\ s.obligation # None
                     /\ s.obligation.ref.kind = "OPEN" THEN closing
             ELSE s.obligation]

initial(target, originals) ==
    [target |-> target, originals |-> originals,
     state |-> "INTENT_RECORDED", authorized |-> None, kids |-> 0,
     evidence |-> {}, obligation |-> None, attempt |-> head + 1]

(* A candidate: the snapshot an intent gets, at the cut it was prepared    *)
(* from.  Both the command and the candidate carry that frontier.          *)
Candidate(i, s) == [intent |-> i, next |-> s, cut |-> head]

\* The authority the command observed is still the current one.
require_current_authority(i) == i \notin stale

Free(c) == call[c] = None /\ head < MaxHead

Hand(c, i, s) ==
    /\ call' = [call EXCEPT ![c] = Candidate(i, s)]
    /\ UNCHANGED <<effect, head, fence, stale>>

-----------------------------------------------------------------------------
(* The commands of prepare_transition.                                     *)

\* AcceptEffect and PublishPlanEffect: an ordinary intent, without originals.
\* PublishRecoveryIntent: a compensation or an authorized duplicate risk,
\* which names the unresolved originals with their current ambiguity heads.
PrepareInitial(c, i, target, originals) ==
    /\ Free(c)
    /\ effect[i] = None
    /\ require_current_authority(i)
    /\ require_no_replacement(i, target, originals, Scope(originals))
    /\ Hand(c, i, initial(target, originals))

Currents == {[intent |-> j, head |-> Ambiguity(effect[j])] : j \in MayBeSupplied}

NoReplacement(i) ==
    LET s == Latest(i) IN
    require_no_replacement(i, s.target, s.originals, Scope(s.originals))

AuthorizeDispatch(c, i) ==
    LET s == Latest(i) IN
    /\ Free(c)
    /\ s # None
    /\ require_current_authority(i)
    /\ NoReplacement(i)
    /\ CanMove(s.state, "DISPATCH_AUTHORIZED")
    /\ Hand(c, i, Bind(s, [s EXCEPT !.state = "DISPATCH_AUTHORIZED", !.authorized = fence]))

\* BeforeSendDisposition: the current authority decides, not the intent's own.
BeforeSend(c, i, disposition) ==
    LET s == Latest(i) IN
    /\ Free(c)
    /\ s # None
    /\ CanMove(s.state, disposition)
    /\ Hand(c, i, Bind(s, [s EXCEPT !.state = disposition]))

\* prepare_denial: an independent denying lease, which must name the live
\* authorization it retires and can never deny what has crossed.
Deny(c, i, disposition) ==
    LET s == Latest(i) IN
    /\ Free(c)
    /\ s # None
    /\ s.kids = 0
    /\ s.state = "DISPATCH_AUTHORIZED" => s.authorized # None
    /\ CanMove(s.state, disposition)
    /\ Hand(c, i, Bind(s, [s EXCEPT !.state = disposition]))

Dispositions == {"HELD_BEFORE_SEND", "CANCELLED_BEFORE_SEND", "SUPERSEDED_BEFORE_SEND"}

\* Mutant: the send trusts the check made when it was authorized.
AuthorizedOnce(i) == TRUE

StillUnopposed(i) == NoReplacement(i)

FirstTransmission(c, i) ==
    LET s == Latest(i) IN
    /\ Free(c)
    /\ s # None
    /\ require_current_authority(i)
    /\ s.authorized = fence
    /\ s.kids = 0
    /\ CanMove(s.state, "SEND_COMMITTED")
    /\ StillUnopposed(i)
    /\ Hand(c, i, Bind(s, [s EXCEPT !.state = "SEND_COMMITTED", !.kids = 1]))

\* require_safe_retransmission: a proof issued by the broker that names every
\* prior child.  Whether the provider's idempotency covers them all at the
\* present time is the broker's observation, so it may hold at any time.
SafeRetransmission(c, i) ==
    LET s == Latest(i) IN
    /\ Free(c)
    /\ s # None
    /\ require_current_authority(i)
    /\ s.state \in RETRANSMISSION_STATES
    /\ s.kids \in 1..(MaxKids - 1)
    /\ StillUnopposed(i)
    /\ Hand(c, i, Bind(s, [s EXCEPT !.kids = @ + 1]))

-----------------------------------------------------------------------------
(* Evidence: a report covers some children and says which members          *)
(* occurred and which never can.  A transport observation says neither.    *)

CoveredChildren(report, kids) == report.covered

\* _evidence_state: the observations the retained reports amount to.
ObservationsOf(s) ==
    UNION {{[child |-> k, member |-> m, outcome |-> "OCCURRED"] :
              k \in CoveredChildren(r, s.kids), m \in r.occurred} \cup
           {[child |-> k, member |-> m, outcome |-> "PERMANENTLY_INCAPABLE"] :
              k \in CoveredChildren(r, s.kids), m \in r.incapable} : r \in s.evidence}

evidence_state(s) ==
    reduce_child_evidence(s.state, 1..s.kids, Members, ObservationsOf(s))

Reports(kids) ==
    [covered : (SUBSET (1..kids)) \ {{}},
     occurred : SUBSET Members, incapable : SUBSET Members]

Reduced(s, sent) ==
    IF sent /\ s.state = "SEND_COMMITTED" THEN "SENT" ELSE evidence_state(s)

\* RecordEvidence: a terminal attempt keeps its state, and so does one whose
\* bound reducer is not available, but the report is retained in any case.
RecordEvidence(c, i, report, sent, reducer) ==
    LET s == Latest(i)
        kept == [s EXCEPT !.evidence = @ \cup {report}]
        moves == s.state \notin TERMINAL_STATES /\ reducer
    IN
    /\ Free(c)
    /\ s # None
    /\ s.kids # 0
    /\ Cardinality(s.evidence) < MaxEvidence
    /\ report \in Reports(s.kids)
    /\ sent => report.occurred = {} /\ report.incapable = {}
    /\ Hand(c, i, Bind(s, [kept EXCEPT !.state = IF moves THEN Reduced(kept, sent) ELSE @]))

\* Reconcile reduces the complete children and evidence again.
Reconcile(c, i) ==
    LET s == Latest(i) IN
    /\ Free(c)
    /\ s # None
    /\ s.evidence # {}
    /\ s.state \in Crossed
    /\ Hand(c, i, Bind(s, [s EXCEPT !.state = evidence_state(s)]))

-----------------------------------------------------------------------------
(* BrokerEffectsStore.publish: the broker selects the candidate when the   *)
(* frontier is still the one it was prepared from.                         *)

\* A candidate prepared from another frontier is refused as stale.  A lost
\* reply changes nothing: submitting the same command again finds the exact
\* replay when it was selected, is stale when the frontier moved, and is
\* prepared to the same candidate otherwise.
publish(c) ==
    /\ call[c] # None
    /\ call' = [call EXCEPT ![c] = None]
    /\ IF head = call[c].cut
       THEN /\ effect' = [effect EXCEPT ![call[c].intent] = call[c].next]
            /\ head' = head + 1
       ELSE UNCHANGED <<effect, head>>
    /\ UNCHANGED <<fence, stale>>

-----------------------------------------------------------------------------
(* What surrounds the owner. *)

ReplaceFence ==
    /\ fence < MaxFence /\ head < MaxHead
    /\ fence' = fence + 1
    /\ UNCHANGED <<effect, head, call, stale>>

LoseAuthority(i) ==
    /\ effect[i] # None
    /\ i \notin stale /\ head < MaxHead
    /\ stale' = stale \cup {i}
    /\ UNCHANGED <<effect, head, call, fence>>

Init ==
    /\ effect = [i \in Intents |-> None]
    /\ head = 0
    /\ call = [c \in Callers |-> None]
    /\ fence = 1
    /\ stale = {}

Next ==
    \/ \E c \in Callers :
         \/ \E i \in Intents :
              \/ \E t \in Targets, originals \in SUBSET Currents :
                   PrepareInitial(c, i, t, originals)
              \/ AuthorizeDispatch(c, i)
              \/ \E d \in Dispositions : BeforeSend(c, i, d) \/ Deny(c, i, d)
              \/ FirstTransmission(c, i)
              \/ SafeRetransmission(c, i)
              \/ /\ effect[i] # None
                 /\ \E r \in Reports(effect[i].kids), sent, reducer \in BOOLEAN :
                      RecordEvidence(c, i, r, sent, reducer)
              \/ Reconcile(c, i)
         \/ publish(c)
    \/ ReplaceFence
    \/ \E i \in Intents : LoseAuthority(i)

Spec == Init /\ [][Next]_vars

-----------------------------------------------------------------------------
(* Properties. *)

\* Two intents for the same recipient and payload are both past their send
\* and unresolved only when one of them is a recovery intent that names the
\* other: however the acceptances, authorizations and sends of the two
\* interleave, _require_no_replacement lets no ordinary intent replace
\* another one whose effect may have happened.
Named(i, j) == \E o \in effect[i].originals : o.intent = j

NoUnnamedReplacement ==
    \A i, j \in Published :
        /\ i # j
        /\ effect[i].state \in Crossed
        /\ effect[j].state \in Crossed
        /\ effect[i].target = effect[j].target
        => Named(i, j) \/ Named(j, i)

\* An attempt is closed only when, for every transmission that was ever
\* allocated to it, a retained report that covers that very transmission
\* says of every member whether it occurred, also when a retransmission was
\* allocated while reports about the earlier ones came in; and its recovery
\* obligation is open exactly while the outcome is.
Observes(r, k, m) == k \in r.covered /\ m \in r.occurred \cup r.incapable

ClosedWorkIsObserved ==
    \A i \in Published :
        /\ effect[i].state \in ClosedOutcomes =>
             \A k \in 1..effect[i].kids, m \in Members :
                 \E r \in effect[i].evidence : Observes(r, k, m)
        /\ effect[i].state \in OpenOutcomes <=>
             /\ effect[i].obligation # None
             /\ effect[i].obligation.ref.kind = "OPEN"
=============================================================================
