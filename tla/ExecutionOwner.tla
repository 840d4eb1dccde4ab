---------------------------- MODULE ExecutionOwner ----------------------------
(***************************************************************************)
(* The executable (native v2) Run of the isolated agent-loop owner, and    *)
(* the broker code that re-derives every proposal before it is published.  *)
(*                                                                         *)
(* The owner is pure: it receives the Run at one tenant cut and answers    *)
(* with the next Run record, or refuses.  The broker retains the exchange, *)
(* verifies it with code of its own (composition/r14_execution_*.py) and   *)
(* publishes at exactly the cut's tenant sequence.  Several exchanges are  *)
(* retained at a time, workers restart, and other records of the tenant    *)
(* are committed in between.                                               *)
(*                                                                         *)
(* A Run record is named by its position in the lineage, so a predecessor  *)
(* head is the position before.  Digests that bind a record to its own     *)
(* bytes hold by construction and are left out, and so is                  *)
(* start_successor_execution_turn, which nothing in the program calls.     *)
(***************************************************************************)
EXTENDS Naturals, Sequences, FiniteSets, SequencesExt

CONSTANTS Calls,          \* calls a model response may contain
          Consequential,  \* those of the tool request_self_effect
          Intents,        \* identities of external effect intents
          MaxCalls,       \* calls of a response the policy allows
          MaxHead, MaxRuns, MaxAttempts, MaxSessions, MaxRetained,
          None

\* What the constants have to satisfy.
ExecutionOwnerAssumption ==
    /\ {MaxCalls, MaxHead, MaxRuns, MaxAttempts, MaxSessions, MaxRetained} \subseteq Nat
    /\ Consequential \subseteq Calls

VARIABLES lineage,    \* the published records of the Run, oldest first
          accepted,   \* the profile and effect intent of every accepted call, or None
          cancelled,  \* calls cancelled before acceptance
          accounted,  \* calls whose cancellation was accounted for
          registry,   \* the frontier registry retained with a Complete seal
          fenced,     \* Run records a pre-emission proof was committed for
          head,       \* the tenant commit sequence
          session,    \* the live worker session
          retained    \* owner exchanges the broker holds

vars == <<lineage, accepted, cancelled, accounted, registry, fenced, head, session, retained>>

\* "prompt" stands for what every manifest shows that does not derive from
\* the Run: the rendered prompt and the schema.  A workspace may be shown.
Surfaces == {"prompt", "context", "workspace"}

\* A response that does not parse, or asks for more calls than the policy
\* allows, is "INVALID": captured like any other and refused by the fan-out.
Responses == [kind : {"CONTINUE"}, calls : {cs \in SUBSET Calls : Cardinality(cs) \in 1..MaxCalls}]
                \cup [kind : {"COMPLETE", "INVALID"}, calls : {{}}]

Current == Last(lineage)
Exposed == {"EMITTED_OUTCOME_UNKNOWN", "RESPONSE_CAPTURED", "TERMINAL_ACCEPTED"}

When(admitted, run) == IF admitted THEN {run} ELSE {}

-----------------------------------------------------------------------------
(* The owner: each operation is the set of its answers, empty if refused. *)

create_ingress_execution_run(s) ==
    [state |-> "CREATED", event |-> "RunCreated", session |-> s, turn |-> None,
     delivery |-> FALSE]

prepare_inbox_execution(runAbsent, s) == When(runAbsent, create_ingress_execution_run(s))

activate_execution_run(r) ==
    When(r.state = "CREATED" /\ r.event = "RunCreated" /\ r.turn = None /\ ~r.delivery,
         [r EXCEPT !.state = "ACTIVE", !.event = "RunActivated"])

EmptyTurn == [state |-> "PREPARING", accumulator |-> {}, attempts |-> <<>>, seal |-> None]

start_initial_execution_turn(r) ==
    When(r.state = "ACTIVE" /\ r.event = "RunActivated" /\ r.turn = None /\ ~r.delivery,
         [r EXCEPT !.event = "TurnStarted", !.turn = EmptyTurn])

\* A member is identified by its surface; the identity keeps its provenance.
Rebinds(before, members) ==
    \E m \in members, b \in before : m.surface = b.surface /\ m # b

Unsealed(r, turnState) ==
    r.state = "ACTIVE" /\ r.turn # None /\ r.turn.state = turnState /\ r.turn.seal = None

accumulate_execution_visibility(r, members) ==
    When(/\ Unsealed(r, "PREPARING")
         /\ r.turn.attempts = <<>>
         /\ ~Rebinds(r.turn.accumulator, members),
         [r EXCEPT !.event = "TurnVisibilityAccumulated",
                   !.turn.accumulator = @ \cup members])

\* The context shown is the one derived from the record before this one, so
\* a further accumulation makes an earlier context unusable.
ExactVisibility(accumulator, predecessor) ==
    /\ \E m \in accumulator : m.surface = "prompt"
    /\ \E m \in accumulator : m.surface = "context" /\ m.provenance = predecessor

Prepared == [state |-> "PREPARED_NOT_EMITTED", response |-> None]

prepare_execution_request(r, predecessor) ==
    When(/\ Unsealed(r, "PREPARING")
         /\ r.turn.attempts = <<>>
         /\ ExactVisibility(r.turn.accumulator, predecessor),
         [r EXCEPT !.event = "ModelAttemptPrepared", !.turn.state = "CALL_ACTIVE",
                   !.turn.attempts = <<Prepared>>])

_selected(r, attemptState) ==
    /\ Unsealed(r, "CALL_ACTIVE")
    /\ r.turn.attempts # <<>>
    /\ Last(r.turn.attempts) = [state |-> attemptState, response |-> None]

_advance(r, attempt, captured) ==
    [r EXCEPT !.event = IF captured THEN "ModelResponseCaptured" ELSE "ModelAttemptEmitted",
              !.turn.state = IF captured THEN "RESPONSE_AVAILABLE" ELSE "CALL_ACTIVE",
              !.turn.attempts = Append(Front(@), attempt)]

emit_execution_attempt(r) ==
    When(_selected(r, "PREPARED_NOT_EMITTED"),
         _advance(r, [state |-> "EMITTED_OUTCOME_UNKNOWN", response |-> None], FALSE))

capture_execution_response(r, response) ==
    When(_selected(r, "EMITTED_OUTCOME_UNKNOWN"),
         _advance(r, [state |-> "RESPONSE_CAPTURED", response |-> response], TRUE))

-----------------------------------------------------------------------------
(* Replacement of a prepared attempt that was never exposed. *)

_bound_proof(position) == position \in fenced

_replacement_run(r) ==
    [r EXCEPT !.event = "ModelAttemptReplacedWithoutExposure",
              !.turn.attempts = Append(@, Last(@))]

prepare_model_attempt_replacement(r, position, fence) ==
    When(/\ fence = r.session
         /\ _selected(r, "PREPARED_NOT_EMITTED")
         /\ _bound_proof(position),
         _replacement_run(r))

-----------------------------------------------------------------------------
(* Fan-out of a captured response: every call is initialized with the seal. *)

_capture(r, fence) ==
    /\ Unsealed(r, "RESPONSE_AVAILABLE")
    /\ r.event = "ModelResponseCaptured"
    /\ r.turn.attempts # <<>>
    /\ Last(r.turn.attempts).state = "RESPONSE_CAPTURED"
    /\ r.session = fence

parse_execution_response(response) == response.kind # "INVALID"

\* A Complete response stays a captured proposal until its delivery is
\* accepted together with the terminal Run.
CompletionPrepared(r) ==
    [r EXCEPT !.event = "ModelCompletionPrepared", !.turn.seal = {}]

ResponseSealed(r) ==
    [r EXCEPT !.event = "ModelResponseSealed", !.turn.state = "ACCEPTED",
              !.turn.seal = Last(r.turn.attempts).response.calls,
              !.turn.attempts[Len(r.turn.attempts)].state = "TERMINAL_ACCEPTED"]

_seal_run(r) ==
    IF Last(r.turn.attempts).response.kind = "COMPLETE"
    THEN CompletionPrepared(r)
    ELSE ResponseSealed(r)

prepare_execution_captured_fan_out(r, fence) ==
    When(_capture(r, fence) /\ parse_execution_response(Last(r.turn.attempts).response),
         _seal_run(r))

-----------------------------------------------------------------------------
(* Completion: only from a sealed response without calls. *)

_terminal_run(r) ==
    [r EXCEPT !.state = "SUCCEEDED", !.event = "ExecutionCompleted", !.delivery = TRUE,
              !.turn.state = "ACCEPTED",
              !.turn.attempts[Len(r.turn.attempts)].state = "TERMINAL_ACCEPTED"]

validate_completion_request_source(r) ==
    /\ r.state = "ACTIVE"
    /\ r.turn # None
    /\ r.turn.attempts # <<>>
    /\ Last(r.turn.attempts).response # None

_current_seal(rows) ==
    /\ Last(rows).event = "ModelCompletionPrepared"
    /\ Last(rows).turn.state = "RESPONSE_AVAILABLE"
    /\ Last(rows).turn.seal = {}

_accounting == registry # None

prepare_execution_completion(rows) ==
    When(/\ validate_completion_request_source(Last(rows))
         /\ _current_seal(rows)
         /\ _accounting,
         _terminal_run(Last(rows)))

SealedBefore(rows) ==
    \E n \in 1..(Len(rows) - 1) : rows[n].turn # None /\ rows[n].turn.seal # None

FirstPathLineage(rows) ==
    /\ Len(rows) >= 3
    /\ rows[1] = create_ingress_execution_run(rows[1].session)
    /\ \A n \in 2..Len(rows) :
          rows[n].state = "ACTIVE" /\ rows[n].session = rows[1].session /\ ~rows[n].delivery
    /\ ~SealedBefore(rows)

FirstPathCapture(captured, r) ==
    /\ captured.event = "ModelResponseCaptured"
    /\ r.event = "ModelCompletionPrepared"
    /\ captured.turn.state = "RESPONSE_AVAILABLE" /\ r.turn.state = "RESPONSE_AVAILABLE"
    /\ r.turn.attempts = captured.turn.attempts
    /\ Len(r.turn.attempts) = 1
    /\ r.turn.attempts[1].state = "RESPONSE_CAPTURED"
    /\ r.turn.seal = {}

\* The V2 registry takes its members from the one workspace the attempt showed.
_validate_frontier(r) ==
    \/ registry = "v1"
    \/ /\ registry = "v2"
       /\ Cardinality({m \in r.turn.accumulator : m.surface = "workspace"}) = 1

exact_first_path(rows) ==
    /\ FirstPathLineage(rows)
    /\ FirstPathCapture(rows[Len(rows) - 1], Last(rows))
    /\ _validate_frontier(Last(rows))

exact_request(r, fence) == fence = r.session

prepare_first_path_execution_completion(rows, fence) ==
    When(exact_first_path(rows) /\ exact_request(Last(rows), fence), _terminal_run(Last(rows)))

-----------------------------------------------------------------------------
(* The broker's own derivation of each step (r14_execution_*.py).  `r` is   *)
(* the Run at the retained cut and p the proposed record.                   *)

Same(r, p, changed) == \A f \in DOMAIN r \ changed : r[f] = p[f]

_empty(r) == r.turn = None /\ ~r.delivery

InitializationVerified(p, callee) ==
    _empty(p) /\ p.state = "CREATED" /\ p.event = "RunCreated" /\ p.session = callee

ActivationVerified(r, p) ==
    /\ _empty(r)
    /\ r.state = "CREATED" /\ r.event = "RunCreated"
    /\ p.state = "ACTIVE" /\ p.event = "RunActivated"
    /\ Same(r, p, {"state", "event"})

TurnVerified(r, p) ==
    /\ _empty(r)
    /\ r.event = "RunActivated" /\ p.event = "TurnStarted"
    /\ p.turn = EmptyTurn

AccumulationVerified(r, p, members) ==
    /\ Same(r.turn, p.turn, {"accumulator"})
    /\ r.turn.state = "PREPARING" /\ r.turn.attempts = <<>>
    /\ p.event = "TurnVisibilityAccumulated"
    /\ ~Rebinds(r.turn.accumulator, members)
    /\ p.turn.accumulator = r.turn.accumulator \cup members

_prepared(r, p, predecessor) ==
    /\ r.turn.state = "PREPARING" /\ r.turn.attempts = <<>>
    /\ ExactVisibility(r.turn.accumulator, predecessor)
    /\ p.event = "ModelAttemptPrepared"
    /\ p.turn.state = "CALL_ACTIVE"
    /\ Same(r.turn, p.turn, {"state", "attempts"})
    /\ p.turn.attempts = <<Prepared>>

AttemptSelected(r, p) ==
    /\ Same(r.turn, p.turn, {"state", "attempts"})
    /\ r.turn.state = "CALL_ACTIVE"
    /\ r.turn.attempts # <<>>
    /\ Len(p.turn.attempts) = Len(r.turn.attempts)
    /\ Front(p.turn.attempts) = Front(r.turn.attempts)
    /\ Last(r.turn.attempts).response = None

EmissionVerified(r, p) ==
    /\ Last(r.turn.attempts).state = "PREPARED_NOT_EMITTED"
    /\ Last(p.turn.attempts) = [state |-> "EMITTED_OUTCOME_UNKNOWN", response |-> None]
    /\ p.turn.state = "CALL_ACTIVE"
    /\ p.event = "ModelAttemptEmitted"

CaptureVerified(r, p, response) ==
    /\ Last(r.turn.attempts).state = "EMITTED_OUTCOME_UNKNOWN"
    /\ Last(p.turn.attempts) = [state |-> "RESPONSE_CAPTURED", response |-> response]
    /\ p.turn.state = "RESPONSE_AVAILABLE"
    /\ p.event = "ModelResponseCaptured"

verify_execution_transition(c, r, p, predecessor) ==
    IF c.op = "ACTIVATE" THEN ActivationVerified(r, p)
    ELSE /\ Same(r, p, {"event", "turn"})
         /\ r.state = "ACTIVE"
         /\ IF c.op = "START" THEN TurnVerified(r, p)
            ELSE /\ r.turn # None /\ p.turn # None
                 /\ r.turn.seal = None
                 /\ CASE c.op = "ACCUMULATE" -> AccumulationVerified(r, p, c.members)
                      [] c.op = "PREPARE" -> _prepared(r, p, predecessor)
                      [] c.op = "EMIT" -> AttemptSelected(r, p) /\ EmissionVerified(r, p)
                      [] c.op = "CAPTURE" ->
                            AttemptSelected(r, p) /\ CaptureVerified(r, p, c.response)

CapturedExchange(r, callee) ==
    /\ Unsealed(r, "RESPONSE_AVAILABLE")
    /\ r.event = "ModelResponseCaptured"
    /\ r.turn.attempts # <<>>
    /\ Last(r.turn.attempts).state = "RESPONSE_CAPTURED"
    /\ r.session = callee

SealedTurn(r, p) ==
    LET response == Last(r.turn.attempts).response
        continued == response.kind = "CONTINUE"
    IN  /\ Same(r, p, {"event", "turn"})
        /\ p.turn # None
        /\ p.event = IF continued THEN "ModelResponseSealed" ELSE "ModelCompletionPrepared"
        /\ Same(r.turn, p.turn, {"state", "attempts", "seal"})
        /\ p.turn.state = IF continued THEN "ACCEPTED" ELSE "RESPONSE_AVAILABLE"
        /\ p.turn.seal = response.calls
        /\ Len(p.turn.attempts) = Len(r.turn.attempts)
        /\ Front(p.turn.attempts) = Front(r.turn.attempts)
        /\ Last(p.turn.attempts) =
              IF continued THEN [Last(r.turn.attempts) EXCEPT !.state = "TERMINAL_ACCEPTED"]
              ELSE Last(r.turn.attempts)

FanOutVerified(r, p, callee) ==
    /\ CapturedExchange(r, callee)
    /\ parse_execution_response(Last(r.turn.attempts).response)
    /\ SealedTurn(r, p)

\* The frontier registry published with a Complete seal, by retained profile.
RegistryOf(profile) == IF profile = "V1" THEN "v1" ELSE "v2"

CompleteSealVerified(p) == p.event = "ModelCompletionPrepared" /\ p.turn.seal = {}

-----------------------------------------------------------------------------
(* Calls: accepted with an effect intent, or cancelled before that. *)

Inventory ==
    IF lineage # <<>> /\ Current.turn # None /\ Current.turn.seal # None
    THEN Current.turn.seal
    ELSE {}

_pending(c) == c \in Inventory /\ accepted[c] = None /\ c \notin cancelled

prepare_consequential_acceptance(c) == _pending(c) /\ c \in Consequential

prepare_pre_accept_cancellation(c) == _pending(c)

verify_loop_preparation(c) ==
    c \in Consequential /\ c \in Inventory /\ accepted[c] = None /\ c \notin cancelled

\* No published V1 acceptance has the intent's identity.
IntentIsNew(i) == \A c \in Calls : accepted[c] # [profile |-> "V1", intent |-> i]

\* The effects owner prepared the initial record of an intent.  The identity
\* is compared with the V1 history only; a V2 intent names its own call.
_verify_effects(profile, i) == profile = "V1" => IntentIsNew(i)

sealed_call_accounting(c) == c \in cancelled /\ accepted[c] = None

\* The native accounting joins the capture, the seal after it and the
\* cancellation of its only call.
NativeOneCall(rows, c) ==
    \E n \in 2..Len(rows) :
        /\ rows[n - 1].event = "ModelResponseCaptured"
        /\ rows[n].event = "ModelResponseSealed"
        /\ rows[n] = ResponseSealed(rows[n - 1])
        /\ rows[n].turn.seal = {c}

prepare_native_one_call_cancelled_accounting(c) ==
    c \in Consequential /\ NativeOneCall(lineage, c) /\ sealed_call_accounting(c)

-----------------------------------------------------------------------------
(* Exchanges with the owner. *)

Command(op, members, response) == [op |-> op, members |-> members, response |-> response]

\* Members as the broker reads them: the context derives from the current Run.
Visible(position) ==
    {[surface |-> s, provenance |-> IF s = "context" THEN position ELSE 0] : s \in Surfaces}

\* The workspace is shown with the prompt or not at all.
Shown(position) ==
    {ms \in SUBSET Visible(position) \ {{}} :
        (\E m \in ms : m.surface = "workspace") => \E m \in ms : m.surface = "prompt"}

Transitions(position) ==
    {Command(op, {}, None) : op \in {"ACTIVATE", "START", "PREPARE", "EMIT"}}
        \cup {Command("ACCUMULATE", ms, None) : ms \in Shown(position)}
        \cup {Command("CAPTURE", {}, x) : x \in Responses}

prepare_execution_transition(c, r, position) ==
    CASE c.op = "ACTIVATE" -> activate_execution_run(r)
      [] c.op = "START" -> start_initial_execution_turn(r)
      [] c.op = "ACCUMULATE" -> accumulate_execution_visibility(r, c.members)
      [] c.op = "PREPARE" -> prepare_execution_request(r, position - 1)
      [] c.op = "EMIT" -> emit_execution_attempt(r)
      [] c.op = "CAPTURE" -> capture_execution_response(r, c.response)

RunExchange(c, base, run) ==
    [kind |-> "RUN", cut |-> head, command |-> c, base |-> base, run |-> run,
     position |-> Len(lineage), callee |-> session, call |-> None, effect |-> None]

CallExchange(kind, c, effect) ==
    [kind |-> kind, cut |-> head, command |-> None, base |-> None, run |-> None,
     position |-> Len(lineage), callee |-> session, call |-> c, effect |-> effect]

Retain(x) ==
    /\ Cardinality(retained) < MaxRetained
    /\ retained' = retained \cup {x}
    /\ UNCHANGED <<lineage, accepted, cancelled, accounted, registry, fenced, head, session>>

PrepareInbox ==
    \E r \in prepare_inbox_execution(lineage = <<>>, session) :
        Retain(RunExchange(Command("CREATE", {}, None), None, r))

PrepareTransition ==
    /\ lineage # <<>>
    /\ \E c \in Transitions(Len(lineage)) :
          \E r \in prepare_execution_transition(c, Current, Len(lineage)) :
              Retain(RunExchange(c, Current, r))

PrepareReplacement ==
    /\ lineage # <<>>
    /\ \E r \in prepare_model_attempt_replacement(Current, Len(lineage), session) :
          /\ Len(r.turn.attempts) <= MaxAttempts
          /\ Retain(RunExchange(Command("REPLACE", {}, None), Current, r))

PrepareFanOut ==
    /\ lineage # <<>>
    /\ \E r \in prepare_execution_captured_fan_out(Current, session) :
          Retain(RunExchange(Command("SEAL", {}, None), Current, r))

PrepareCompletion ==
    /\ lineage # <<>>
    /\ \E r \in prepare_execution_completion(lineage)
                  \cup prepare_first_path_execution_completion(lineage, session) :
          Retain(RunExchange(Command("COMPLETE", {}, None), Current, r))

PrepareAcceptance ==
    \E c \in Calls, effect \in [profile : {"V1", "V2"}, intent : Intents] :
        /\ prepare_consequential_acceptance(c)
        /\ Retain(CallExchange("ACCEPT", c, effect))

PrepareCancellation ==
    \E c \in Calls :
        /\ prepare_pre_accept_cancellation(c)
        /\ Retain(CallExchange("CANCEL", c, None))

-----------------------------------------------------------------------------
(* Publication: verified from the retained exchange, at exactly its cut. *)


ExpectedHead(x) == x.cut

Publishable(x) == x \in retained /\ ExpectedHead(x) = head /\ head < MaxHead

Committed(x) ==
    /\ head' = head + 1
    /\ retained' = retained \ {x}

Verified(x) ==
    CASE x.command.op = "CREATE" -> InitializationVerified(x.run, x.callee)
      [] x.command.op = "SEAL" -> FanOutVerified(x.base, x.run, x.callee)
      [] x.command.op \in {"REPLACE", "COMPLETE"} -> TRUE
      [] OTHER -> verify_execution_transition(x.command, x.base, x.run, x.position - 1)

PublishRun ==
    \E x \in retained :
        /\ x.kind = "RUN" /\ Publishable(x)
        /\ Len(lineage) < MaxRuns
        /\ Verified(x)
        /\ lineage' = Append(lineage, x.run)
        /\ Committed(x)
        /\ UNCHANGED <<accepted, cancelled, accounted, registry, fenced, session>>

\* The same seal with the frontier registry of a profile beside it.
PublishCompleteSeal ==
    \E x \in retained :
        /\ x.kind = "RUN" /\ Publishable(x)
        /\ Len(lineage) < MaxRuns
        /\ x.command.op = "SEAL"
        /\ Verified(x) /\ CompleteSealVerified(x.run)
        /\ \E profile \in {"V1", "H1_V2", "H1_V3"} : registry' = RegistryOf(profile)
        /\ lineage' = Append(lineage, x.run)
        /\ Committed(x)
        /\ UNCHANGED <<accepted, cancelled, accounted, fenced, session>>

PublishAcceptance ==
    \E x \in retained :
        /\ x.kind = "ACCEPT" /\ Publishable(x)
        /\ verify_loop_preparation(x.call)
        /\ _verify_effects(x.effect.profile, x.effect.intent)
        /\ accepted' = [accepted EXCEPT ![x.call] = x.effect]
        /\ Committed(x)
        /\ UNCHANGED <<lineage, cancelled, accounted, registry, fenced, session>>

\* The two cancellation records follow from the retained exchange alone.
PublishCancellation ==
    \E x \in retained :
        /\ x.kind = "CANCEL" /\ Publishable(x)
        /\ cancelled' = cancelled \cup {x.call}
        /\ Committed(x)
        /\ UNCHANGED <<lineage, accepted, accounted, registry, fenced, session>>

AccountCancellation ==
    \E c \in Calls \ accounted :
        /\ prepare_native_one_call_cancelled_accounting(c)
        /\ accounted' = accounted \cup {c}
        /\ UNCHANGED <<lineage, accepted, cancelled, registry, fenced, head, session, retained>>

\* A pre-emission proof for the current Run record, committed by its source.
CommitProof ==
    /\ head < MaxHead
    /\ lineage # <<>> /\ Current.turn # None
    /\ _selected(Current, "PREPARED_NOT_EMITTED")
    /\ Len(lineage) \notin fenced
    /\ fenced' = fenced \cup {Len(lineage)}
    /\ head' = head + 1
    /\ UNCHANGED <<lineage, accepted, cancelled, accounted, registry, session, retained>>

\* Late evidence of a response joins the tenant without touching the Run.
RetainLateResponse ==
    /\ head < MaxHead
    /\ lineage # <<>> /\ Current.turn # None
    /\ Current.turn.attempts # <<>>
    /\ Last(Current.turn.attempts).state \in Exposed
    /\ head' = head + 1
    /\ UNCHANGED <<lineage, accepted, cancelled, accounted, registry, fenced, session, retained>>

RestartWorker ==
    /\ session < MaxSessions
    /\ session' = session + 1
    /\ UNCHANGED <<lineage, accepted, cancelled, accounted, registry, fenced, head, retained>>

Discard ==
    \E x \in retained :
        /\ x.cut < head
        /\ retained' = retained \ {x}
        /\ UNCHANGED <<lineage, accepted, cancelled, accounted, registry, fenced, head, session>>

Init ==
    /\ lineage = <<>>
    /\ accepted = [c \in Calls |-> None]
    /\ cancelled = {} /\ accounted = {} /\ fenced = {}
    /\ registry = None
    /\ head = 0 /\ session = 1
    /\ retained = {}

Next ==
    \/ PrepareInbox \/ PrepareTransition \/ PrepareReplacement \/ PrepareFanOut
    \/ PrepareCompletion \/ PrepareAcceptance \/ PrepareCancellation
    \/ PublishRun \/ PublishCompleteSeal \/ PublishAcceptance \/ PublishCancellation
    \/ AccountCancellation \/ CommitProof \/ RetainLateResponse
    \/ RestartWorker \/ Discard

Spec == Init /\ [][Next]_vars

-----------------------------------------------------------------------------
(* Properties. *)

\* Single-field deviations from a Run record.
Altered(p) ==
    {[p EXCEPT !.state = s] : s \in {"CREATED", "ACTIVE", "SUCCEEDED"}}
      \cup {[p EXCEPT !.event = e] : e \in {"RunActivated", "ModelAttemptEmitted",
                                            "ModelResponseSealed", "ModelCompletionPrepared"}}
      \cup {[p EXCEPT !.delivery = TRUE], [p EXCEPT !.turn = None]}
      \cup (IF p.turn = None THEN {} ELSE
              {[p EXCEPT !.turn.state = s] : s \in {"PREPARING", "CALL_ACTIVE",
                                                    "RESPONSE_AVAILABLE", "ACCEPTED"}}
                \cup {[p EXCEPT !.turn.seal = s] : s \in {None} \cup SUBSET Calls}
                \cup {[p EXCEPT !.turn.accumulator = {}]}
                \cup (IF p.turn.attempts = <<>> THEN {} ELSE
                        {[p EXCEPT !.turn.attempts = Front(@)],
                         [p EXCEPT !.turn.attempts = Append(@, Last(@))]}
                          \cup {[p EXCEPT !.turn.attempts[Len(p.turn.attempts)].state = s] :
                                  s \in Exposed}
                          \cup {[p EXCEPT !.turn.attempts[Len(p.turn.attempts)].response = x] :
                                  x \in Responses}))

\* The owner prepares every step and the broker derives it again with code
\* of its own (r14_execution_transition_verification.py,
\* r14_execution_fanout_records.py).  The two agree on every reachable Run:
\* of the owner's answers and of everything one field away from an answer,
\* the broker accepts exactly what the owner prepares.  (Neither depends on
\* what is retained or on the calls, so it is enough to look while nothing is
\* retained and no call is decided.)
VerifierIsTheOwner ==
    lineage # <<>> /\ retained = {} /\ cancelled = {} /\ (\A c \in Calls : accepted[c] = None) =>
        LET r == Current
            n == Len(lineage)
            steps == UNION {prepare_execution_transition(c, r, n) : c \in Transitions(n)}
            seals == prepare_execution_captured_fan_out(r, session)
            near == UNION {Altered(p) : p \in steps \cup seals \cup {r}}
        IN  \A p \in near :
                /\ FanOutVerified(r, p, session) <=> p \in seals
                /\ \A c \in Transitions(n) :
                      verify_execution_transition(c, r, p, n - 1)
                          <=> p \in prepare_execution_transition(c, r, n)

\* "An emitted unknown attempt has no transition back to prepared"
\* (execution_attempts.py).  Over the whole lineage at most one generation of
\* the attempt is ever exposed to the model, at most one response is
\* captured, and it is the response whose calls are sealed.
OneExposure ==
    LET turns == {lineage[n].turn : n \in DOMAIN lineage} \ {None}
        exposed == UNION {{g \in DOMAIN t.attempts : t.attempts[g].state \in Exposed} : t \in turns}
        responses == UNION {{t.attempts[g].response : g \in DOMAIN t.attempts} : t \in turns} \ {None}
    IN  /\ Cardinality(exposed) <= 1
        /\ Cardinality(responses) <= 1
        /\ \A t \in turns : t.seal # None => \E x \in responses : t.seal = x.calls

\* Acceptance races cancellation (call_acceptance_preparation.py): a sealed
\* call is accepted or cancelled, never both, no effect intent serves two
\* calls accepted under V1, whose verifier compares it with the history, and
\* a cancellation that was accounted for is never overtaken.
CallsSettleOnce ==
    /\ \A c \in Calls : accepted[c] # None => c \in Inventory \ (cancelled \cup accounted)
    /\ \A c, d \in Calls :
          accepted[c] # None /\ accepted[c] = accepted[d] /\ accepted[c].profile = "V1" => c = d
    /\ accounted \subseteq cancelled /\ cancelled \subseteq Inventory

\* A Run whose Complete response was sealed with its registry can still be
\* completed: through the recovery cut always, and through the native first
\* path (exact_first_path) unless an attempt was replaced, the worker
\* restarted, or the V2 registry was retained for a Turn that showed no
\* workspace, which the publication of the seal does not refuse.
CompletionStaysPossible ==
    (/\ lineage # <<>> /\ registry # None
     /\ Current.event = "ModelCompletionPrepared") =>
        /\ prepare_execution_completion(lineage) # {}
        /\ (/\ Len(Current.turn.attempts) = 1
            /\ session = Current.session
            /\ registry = "v1" \/ \E m \in Current.turn.accumulator : m.surface = "workspace") =>
              prepare_first_path_execution_completion(lineage, session) # {}
=============================================================================
