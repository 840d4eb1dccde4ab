----------------------------- MODULE DispatchV2 -----------------------------
(***************************************************************************)
(* The second-generation dispatch owner: prepare_dispatch (dispatch_v2.py) *)
(* and prepare_outcome (dispatch_outcomes.py) for ordinary intents, the    *)
(* scoped V3 intent, authorization and first send                          *)
(* (h1_scoped_preparation.py, scoped_dispatch_preparation.py), and the     *)
(* safe retransmission of lifecycle_transition_preparation.py.             *)
(*                                                                         *)
(* Every preparation is a pure function of one cut.  The broker publishes  *)
(* the result only at the cut it was prepared from; between the two the    *)
(* clock runs, the worker may be replaced and other callers publish.  A    *)
(* digest of a record is the frontier at which it was published.           *)
(***************************************************************************)
EXTENDS Integers, FiniteSets

CONSTANTS Intents, Scoped,   \* intents; those of the scoped V3 profile
          Members,           \* bundle members of every mandate
          Evidence,          \* identities of evidence items
          Callers,
          NotBefore, Expires,            \* the horizon of every mandate
          MaxHead, MaxKids,
          MaxChanges,        \* bound on what the surroundings change
          None

\* What the constants have to satisfy.
DispatchAssumption ==
    /\ Scoped \subseteq Intents
    /\ Members # {}
    /\ {NotBefore, Expires, MaxHead, MaxKids, MaxChanges} \subseteq Nat
    /\ NotBefore < Expires

VARIABLES attempt,     \* the current attempt record of every intent, or None
          head,        \* the tenant frontier
          prepared,    \* the candidate every caller has in flight
          now,
          fence,       \* the current worker fence
          generation,  \* the current normative conflict generation
          semantics    \* the dispatch semantics the runtime supports

vars == <<attempt, head, prepared, now, fence, generation, semantics>>

TERMINAL == {"CONFIRMED", "FAILED_NO_EFFECT", "PARTIAL_CONFIRMED"}

Profile(i) == IF i \in Scoped THEN "V3" ELSE "V2"

Known == {i \in Intents : attempt[i] # None}

-----------------------------------------------------------------------------
(* _current: the command's fence is the runtime's, the horizon holds, the  *)
(* durable semantics are still supported and no normative conflict was     *)
(* recorded since the mandate was made.  A source that is unavailable or   *)
(* past its lease, an inactive grant or policy and a malformed request are *)
(* refusals that change nothing: the step is then not taken.               *)

InHorizon == NotBefore <= now /\ now < Expires

\* What a mandate binds when it is made.
Mandate == [generation |-> generation, semantics |-> semantics]

Current(f, mandate) ==
    /\ InHorizon
    /\ f = fence
    /\ mandate.semantics = semantics
    /\ mandate.generation = generation

\* require_h1_scoped_dispatch_operation: the registry of the original sources
\* and the current one are both the exact capture of the same manifest.
Registered(original) == original.semantics = semantics

\* _require_current of the scoped profile.
ScopedCurrent(f, mandate) ==
    /\ f = fence
    /\ InHorizon
    /\ Registered(mandate)
    /\ mandate.generation = generation

\* The first record of an intent.
Initial(mandate) ==
    [state |-> "INTENT_RECORDED", head |-> head + 1, mandate |-> mandate,
     auth |-> None, kids |-> 0, sent |-> None, evidence |-> {},
     obligation |-> "NONE", closure |-> {}, conflict |-> FALSE]

Free(c) == prepared[c] = None /\ head < MaxHead

Hand(c, i, record) ==
    /\ prepared' = [prepared EXCEPT ![c] = [intent |-> i, next |-> record, cut |-> head]]
    /\ UNCHANGED <<attempt, head, now, fence, generation, semantics>>

-----------------------------------------------------------------------------
(* prepare_dispatch. *)

PublishDispatchIntentV2(c, i, f) ==
    /\ Free(c)
    /\ Profile(i) = "V2"
    /\ attempt[i] = None
    /\ Current(f, Mandate)
    /\ Hand(c, i, Initial(Mandate))

Authorized(i, f) ==
    [attempt[i] EXCEPT !.state = "DISPATCH_AUTHORIZED", !.head = head + 1,
                       !.auth = [fence |-> f, parent |-> attempt[i].head]]

AuthorizeDispatchV2(c, i, f) ==
    /\ Free(c)
    /\ Profile(i) = "V2"
    /\ attempt[i].state = "INTENT_RECORDED"
    /\ Current(f, attempt[i].mandate)
    /\ Hand(c, i, Authorized(i, f))

Sent(i, f) ==
    [attempt[i] EXCEPT !.state = "SEND_COMMITTED", !.head = head + 1,
                       !.kids = 1, !.sent = [fence |-> f, time |-> now]]

AnyFence(i, f) == TRUE

\* The first send is made under the fence of its authorization.
SameFence(i, f) == attempt[i].auth.fence = f

CommitFirstSendV2(c, i, f) ==
    /\ Free(c)
    /\ Profile(i) = "V2"
    /\ attempt[i].state = "DISPATCH_AUTHORIZED"
    /\ attempt[i].kids = 0
    /\ SameFence(i, f)
    /\ Current(f, attempt[i].mandate)
    /\ Hand(c, i, Sent(i, f))

-----------------------------------------------------------------------------
(* The scoped V3 profile. *)

\* The target intent occurs nowhere in the complete history of the cut.
AbsentFromHistory(i) == i \notin Known

\* The fence, route, horizon, permissions and semantics a scoped delivery needs.
DeliveryAdmitted(f) ==
    /\ f = fence
    /\ InHorizon
    /\ Registered(Mandate)

\* _prepare_h1_scoped_delivery.
PrepareScopedDelivery(c, i, f) ==
    /\ Free(c)
    /\ Profile(i) = "V3"
    /\ DeliveryAdmitted(f)
    /\ AbsentFromHistory(i)
    /\ Hand(c, i, Initial(Mandate))

PrepareScopedAuthorization(c, i, f) ==
    /\ Free(c)
    /\ Profile(i) = "V3"
    /\ attempt[i].state = "INTENT_RECORDED"
    /\ attempt[i].auth = None
    /\ ScopedCurrent(f, attempt[i].mandate)
    /\ Hand(c, i, Authorized(i, f))

\* The authorization the request names and the parent it was selected for.
\* Unlike a V2 send, the request's fence need not be the authorization's.
SelectedAuthorization(i) == attempt[i].auth # None

PrepareScopedFirstSend(c, i, f) ==
    /\ Free(c)
    /\ Profile(i) = "V3"
    /\ attempt[i].state = "DISPATCH_AUTHORIZED"
    /\ ScopedCurrent(f, attempt[i].mandate)
    /\ SelectedAuthorization(i)
    /\ Hand(c, i, Sent(i, f))

-----------------------------------------------------------------------------
(* prepare_outcome: evidence on the single original transmission of a V2   *)
(* intent, and the obligation to reconcile it.                             *)

Occurred(items) == UNION {e.occurred : e \in items}
Incapable(items) == UNION {e.incapable : e \in items}

Conflicts(items, before) == Occurred(items) \cap Incapable(items) # {} \/ before

Complete(items, conflict) ==
    /\ ~conflict
    /\ Occurred(items) \cup Incapable(items) = Members

Outcome(items, conflict) ==
    CASE Complete(items, conflict) /\ Incapable(items) = {} -> "CONFIRMED"
      [] Complete(items, conflict) /\ Occurred(items) = {} -> "FAILED_NO_EFFECT"
      [] Complete(items, conflict) -> "PARTIAL_CONFIRMED"
      [] Occurred(items) # {} /\ ~conflict -> "PARTIAL"
      [] OTHER -> "OUTCOME_UNKNOWN"

\* A terminal claim is kept whatever arrives later.
Claim(a, items, conflict) ==
    IF a.state \in TERMINAL THEN a.state ELSE Outcome(items, conflict)

\* Only the original send and its own outcome records are interpreted.
Interpretable(i) ==
    /\ Profile(i) = "V2"
    /\ attempt[i].kids = 1

\* Direct evidence at SEND cannot claim a partial confirmation at once.
Opening(a, claim) ==
    IF a.obligation = "NONE" /\ claim = "PARTIAL_CONFIRMED" THEN "PARTIAL" ELSE claim

\* Only a provider receipt names members; every other observation names none.
Items == {e \in [id : Evidence, occurred : SUBSET Members, incapable : SUBSET Members] :
             e.occurred \cap e.incapable = {}}

AppendEvidence(c, i, e) ==
    /\ Free(c)
    /\ Interpretable(i)
    /\ \A prior \in attempt[i].evidence : prior.id # e.id
    /\ LET a == attempt[i]
           items == a.evidence \cup {e}
           conflict == Conflicts(items, a.conflict)
       IN Hand(c, i, [a EXCEPT !.state = Opening(a, Claim(a, items, conflict)),
                               !.head = head + 1,
                               !.evidence = items,
                               !.conflict = conflict,
                               !.obligation = IF @ = "NONE" THEN "OPEN" ELSE @])

\* RESOLVE_OBLIGATION: also admitted as the first outcome, on no evidence,
\* where the completeness of the evidence refuses it.
ResolveObligation(c, i) ==
    /\ Free(c)
    /\ Interpretable(i)
    /\ attempt[i].obligation # "CLOSED"
    /\ Complete(attempt[i].evidence, attempt[i].conflict)
    /\ LET a == attempt[i] IN
       Hand(c, i, [a EXCEPT !.state = Claim(a, a.evidence, a.conflict),
                            !.head = head + 1,
                            !.obligation = "CLOSED",
                            !.closure = a.evidence])

-----------------------------------------------------------------------------
(* prepare_safe_retransmission: a further child under a proof that covers  *)
(* every earlier one.  The parent keeps its state, evidence and obligation.*)

Retransmittable == {"SEND_COMMITTED", "SENT", "OUTCOME_UNKNOWN"}

CoversEveryChild(i, covered) == covered = 0..(attempt[i].kids - 1)

PrepareRetransmission(c, i, covered, f) ==
    /\ Free(c)
    /\ attempt[i].state \in Retransmittable
    /\ attempt[i].kids < MaxKids
    /\ CoversEveryChild(i, covered)
    /\ Hand(c, i, [attempt[i] EXCEPT !.head = head + 1, !.kids = @ + 1])

-----------------------------------------------------------------------------
(* The broker and the environment. *)

AtTheCut(c) == prepared[c].cut = head

Publish(c) ==
    /\ prepared[c] # None
    /\ AtTheCut(c)
    /\ attempt' = [attempt EXCEPT ![prepared[c].intent] = prepared[c].next]
    /\ head' = head + 1
    /\ prepared' = [prepared EXCEPT ![c] = None]
    /\ UNCHANGED <<now, fence, generation, semantics>>

\* The broker refuses a candidate of an older cut.
Discard(c) ==
    /\ prepared[c] # None
    /\ ~AtTheCut(c)
    /\ prepared' = [prepared EXCEPT ![c] = None]
    /\ UNCHANGED <<attempt, head, now, fence, generation, semantics>>

\* The surroundings change while work is in flight.
Changing ==
    /\ head < MaxHead
    /\ now + (fence - 1) + (generation - 1) + (semantics - 1) < MaxChanges

\* Beyond the expiry one time is like another.
Tick ==
    /\ Changing
    /\ now < Expires
    /\ now' = now + 1
    /\ UNCHANGED <<attempt, head, prepared, fence, generation, semantics>>

\* The worker or the runtime restarts: its session and generation, which the
\* fence names, change, and no record of the tenant says so.
ReplaceFence ==
    /\ Changing
    /\ fence' = fence + 1
    /\ UNCHANGED <<attempt, head, prepared, now, generation, semantics>>

\* A normative conflict is a record of the tenant log.
RecordConflict ==
    /\ Changing
    /\ generation' = generation + 1
    /\ head' = head + 1
    /\ UNCHANGED <<attempt, prepared, now, fence, semantics>>

Upgrade ==
    /\ Changing
    /\ semantics' = semantics + 1
    /\ UNCHANGED <<attempt, head, prepared, now, fence, generation>>

Init ==
    /\ attempt = [i \in Intents |-> None]
    /\ head = 0
    /\ prepared = [c \in Callers |-> None]
    /\ now = 0
    /\ fence = 1
    /\ generation = 1
    /\ semantics = 1

Next ==
    \/ \E c \in Callers, f \in 1..fence :
         \/ \E i \in Intents \ Known :
              PublishDispatchIntentV2(c, i, f) \/ PrepareScopedDelivery(c, i, f)
         \/ \E i \in Known :
              \/ AuthorizeDispatchV2(c, i, f)
              \/ CommitFirstSendV2(c, i, f)
              \/ PrepareScopedAuthorization(c, i, f)
              \/ PrepareScopedFirstSend(c, i, f)
              \/ \E covered \in SUBSET (0..(MaxKids - 1)) : PrepareRetransmission(c, i, covered, f)
    \/ \E c \in Callers, i \in Known :
         \/ \E e \in Items : AppendEvidence(c, i, e)
         \/ ResolveObligation(c, i)
    \/ \E c \in Callers : Publish(c) \/ Discard(c)
    \/ Tick \/ ReplaceFence \/ RecordConflict \/ Upgrade

Spec == Init /\ [][Next]_vars

-----------------------------------------------------------------------------
(* What one complete, conflict-free set of receipts says of an effect.     *)
Verdict(items) ==
    CASE Occurred(items) = Members /\ Incapable(items) = {} -> "CONFIRMED"
      [] Occurred(items) = {} /\ Incapable(items) = Members -> "FAILED_NO_EFFECT"
      [] /\ Occurred(items) \cup Incapable(items) = Members
         /\ Occurred(items) \cap Incapable(items) = {} -> "PARTIAL_CONFIRMED"
      [] OTHER -> "NONE"

\* The first transmission of an intent (commit of the send in
\* prepare_dispatch and prepare_scoped_first_send) is published while no
\* normative conflict has been recorded since the mandate, at a time of the
\* horizon, and, for a V2 intent, under the very fence that authorized it: a
\* worker replaced between the two preparations never sends.  The fence and
\* the clock are those of the preparation; the publication compares neither.
DispatchIsCurrent ==
    \A i \in Intents :
       (attempt'[i] # None /\ attempt'[i].kids = 1 /\ attempt[i].kids = 0) =>
          /\ attempt[i].mandate.generation = generation
          /\ attempt'[i].sent.time \in NotBefore..(Expires - 1)
          /\ Profile(i) = "V2" => attempt'[i].sent.fence = attempt[i].auth.fence

\* An obligation that prepare_outcome closed was closed on receipts that
\* decide every member without contradiction, and the claim the intent makes,
\* then and ever after, is the verdict of exactly those receipts.
ClosureIsTheVerdict ==
    \A i \in Known :
       attempt[i].obligation = "CLOSED" =>
          /\ attempt[i].state \in TERMINAL
          /\ attempt[i].state = Verdict(attempt[i].closure)
=============================================================================
