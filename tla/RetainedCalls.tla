----------------------------- MODULE RetainedCalls -----------------------------
(***************************************************************************)
(* Tool calls of a version-1 Run: the retained fan-out that initializes    *)
(* the calls of a captured response, the retained cancellation of a call   *)
(* nobody has answered yet, and the call inventory that is read back from  *)
(* the Run history and the two kinds of retained evidence.                 *)
(*                                                                         *)
(* The owner answers at one tenant cut and the broker verifies the         *)
(* retained exchange with code of its own before it publishes at exactly   *)
(* that cut, while the loop goes on answering calls and starting Turns.    *)
(* Every publication appends one Run record, so the tenant sequence is the *)
(* length of the history, and a Run record is named by its position.       *)
(* Digests that bind a record to its bytes hold by construction and are    *)
(* left out, and so are the acquisition intervals of the sources, which    *)
(* compare two values of the same retained exchange.                       *)
(***************************************************************************)
EXTENDS Naturals, Sequences, FiniteSets, SequencesExt, FiniteSetsExt

CONSTANTS Runs, Labels,
          Acts,        \* identities of submitted cancellation acts
          MaxCalls,    \* policy.max_tool_calls
          MaxRecords, MaxSessions, MaxRetained,
          None

\* What the constants have to satisfy.
RetainedCallsAssumption == {MaxCalls, MaxRecords, MaxSessions, MaxRetained} \subseteq Nat

VARIABLES records,        \* Run records of the tenant, oldest first
          fanouts,        \* fan-out evidence selected with its batch
          cancellations,  \* cancellation evidence selected with its batch
          session,        \* the live session of the agent-loop owner
          retained        \* exchanges the broker has not published

vars == <<records, fanouts, cancellations, session, retained>>

When(admitted, x) == IF admitted THEN {x} ELSE {}

\* "DELIVERY" is the expanded completion.  "INVALID" does not parse, repeats
\* a label or asks for more calls than the policy allows.
Responses ==
    [kind : {"CONTINUE"}, calls : {s \in SeqOf(Labels, MaxCalls) : s # <<>> /\ IsInjective(s)}]
        \cup [kind : {"COMPLETE", "DELIVERY", "INVALID"}, calls : {<<>>}]

Outcome(label, result) == [label |-> label, result |-> result]
Terminal(outcome) == outcome.result # None

-----------------------------------------------------------------------------
(* domain.py, with the successor of the record at position p. *)

successor(p, r, event) == [r EXCEPT !.predecessor = p, !.event = event]
Turn(r) == Last(r.turns)
WithSealed(r, sealed) == [r EXCEPT !.turns[Len(r.turns)].sealed = sealed]

parse_captured_response(response) == response.kind # "INVALID"

Captured(r) == r.event = "ModelResponseCaptured" /\ r.state = "ACTIVE"

continuation(r) ==
    \A n \in DOMAIN r.turns : LET sealed == r.turns[n].sealed IN
        sealed # None /\ \A k \in DOMAIN sealed : Terminal(sealed[k])

\* The steps from the start of a Turn to its captured response.
capture(p, r, response) ==
    When(r.state = "ACTIVE" /\ continuation(r),
         [successor(p, r, "ModelResponseCaptured") EXCEPT
            !.turns = Append(@, [response |-> response, sealed |-> None])])

reject(p, r) ==
    When(Captured(r), WithSealed(successor(p, r, "ModelResponseRejected"), <<>>))

accept_tools(p, r) ==
    LET response == Turn(r).response IN
    When(Captured(r) /\ response.kind = "CONTINUE",
         WithSealed(successor(p, r, "ModelResponseReceived"),
                    [k \in DOMAIN response.calls |-> Outcome(response.calls[k], None)]))

complete(p, r) ==
    When(Captured(r) /\ Turn(r).response.kind = "COMPLETE",
         [WithSealed(successor(p, r, "CompleteAcceptance"), <<>>) EXCEPT !.state = "SUCCEEDED"])

terminal_tool(p, r, label, result) ==
    IF r.state # "ACTIVE" \/ Turn(r).sealed = None THEN {}
    ELSE UNION {When(Turn(r).sealed[k].label = label /\ ~Terminal(Turn(r).sealed[k]),
                     WithSealed(successor(p, r, "ToolTerminal"),
                                [Turn(r).sealed EXCEPT ![k] = Outcome(label, result)]))
                    : k \in DOMAIN Turn(r).sealed}

validate_record(p, r, next) ==
    next \in CASE next.event = "ModelResponseCaptured" -> capture(p, r, Turn(next).response)
               [] next.event = "ModelResponseRejected" -> reject(p, r)
               [] next.event = "ModelResponseReceived" -> accept_tools(p, r)
               [] next.event = "CompleteAcceptance" -> complete(p, r)
               [] next.event = "ToolTerminal" ->
                    UNION {terminal_tool(p, r, l, x) : l \in Labels, x \in {"RESULT", "NOT_EXECUTED"}}

-----------------------------------------------------------------------------
(* The selected lifecycle inventory of the tenant. *)

Following(f) ==
    {n \in (f.accepted + 1)..Len(records) : records[n].run = f.run.run}

\* The calls a retained fan-out initialized, by their original identity.
Initialized(f) ==
    LET calls == Turn(f.base).response.calls IN
    {[captured |-> f.position, turn |-> Len(f.base.turns), ordinal |-> k, label |-> calls[k]]
        : k \in DOMAIN calls}

OutcomeAt(n, c) == records[n].turns[c.turn].sealed[c.ordinal]

HoldsCall(n, c) ==
    /\ c.turn \in DOMAIN records[n].turns
    /\ records[n].turns[c.turn].sealed # None
    /\ c.ordinal \in DOMAIN records[n].turns[c.turn].sealed
    /\ OutcomeAt(n, c).label = c.label

TerminalRows(f) == {n \in Following(f) : records[n].event = "ToolTerminal"}

\* The first terminal row that settles the call, or None.
FirstTerminal(f, c) ==
    LET rows == {n \in TerminalRows(f) : Terminal(OutcomeAt(n, c))}
    IN  IF rows = {} THEN None ELSE Min(rows)

FanOutReadable(f) ==
    /\ f.position < f.accepted
    /\ records[f.position] = f.base /\ records[f.accepted] = f.run
    /\ \A n \in Following(f) :
          LET p == Max({f.accepted} \cup {m \in Following(f) : m < n})
          IN  validate_record(p, records[p], records[n])
    /\ \A c \in Initialized(f), n \in TerminalRows(f) : HoldsCall(n, c)

CancellationReadable(x) ==
    /\ \A y \in cancellations : y.call = x.call => y = x
    /\ records[x.accepted] = x.run
    /\ \E f \in fanouts :
          /\ x.call \in Initialized(f)
          /\ FirstTerminal(f, x.call) \in {None, x.accepted}

HistoryReadable ==
    /\ \A f, g \in fanouts : f.position = g.position => f = g
    /\ \A f \in fanouts : FanOutReadable(f)
    /\ \A x \in cancellations : CancellationReadable(x)

\* The terminal of every initialized call: None, the position of the Run
\* record, or the cancellation that was selected.
inventory_from_history ==
    [c \in UNION {Initialized(f) : f \in fanouts} |->
        LET f == CHOOSE f \in fanouts : c \in Initialized(f)
            first == FirstTerminal(f, c)
        IN  [at |-> first,
             cancelled |-> first # None /\ \E x \in cancellations : x.call = c]]

Open(c) == inventory_from_history[c].at = None

-----------------------------------------------------------------------------
(* The owner's preparations. *)

Rows(run) == {n \in DOMAIN records : records[n].run = run}

\* A supplied Run must be the one the fence of the cut names.
_captured(r, fence) == Captured(r) /\ r.session = fence

prepare_captured_fan_out(r, fence) ==
    /\ _captured(r, fence)
    /\ parse_captured_response(Turn(r).response)

prepare_pre_accept_cancellation(c) == c \in DOMAIN inventory_from_history /\ Open(c)

Evidence(kind, p, r, run, call, act, own) ==
    [kind |-> kind, position |-> p, base |-> r, run |-> run, call |-> call, act |-> act,
     own |-> own, cut |-> Len(records), callee |-> session, accepted |-> None,
     observed |-> {c \in DOMAIN inventory_from_history : kind = "CANCEL" => Open(c)}]

-----------------------------------------------------------------------------
(* The broker's verification of the retained bytes. *)

CaptureMatches(x) == Captured(x.base) /\ x.base.session = x.callee

NotYetInitialized(x) == Initialized(x) \cap x.observed = {}

ExactTransition(x) == x.run \in accept_tools(x.position, x.base) \cup complete(x.position, x.base)

VerifyFanOut(x) ==
    /\ CaptureMatches(x)
    /\ Turn(x.base).response.kind \in {"CONTINUE", "COMPLETE"}
    /\ parse_captured_response(Turn(x.base).response)
    /\ NotYetInitialized(x)
    /\ ExactTransition(x)

\* The act was authenticated for the principal the policy admits.
_verify_trust(x) == x.own

VerifyCancellation(x) ==
    /\ _verify_trust(x)
    /\ x.base.state = "ACTIVE"
    /\ x.base.session = x.callee
    /\ x.call.turn = Len(x.base.turns)
    /\ x.call \in x.observed
    /\ x.run \in terminal_tool(x.position, x.base, x.call.label, "NOT_EXECUTED")

-----------------------------------------------------------------------------
Genesis(run) ==
    [run |-> run, predecessor |-> None, event |-> "RunActive", state |-> "ACTIVE",
     session |-> session, turns |-> <<>>]

Commit(run) ==
    /\ Len(records) < MaxRecords
    /\ records' = Append(records, run)

\* The loop works on the current record of a Run.
Loop(answers(_, _)) ==
    /\ \E run \in Runs :
          /\ Rows(run) # {}
          /\ \E r \in answers(Max(Rows(run)), records[Max(Rows(run))]) : Commit(r)
    /\ UNCHANGED <<fanouts, cancellations, session, retained>>

Create ==
    /\ \E run \in Runs : Rows(run) = {} /\ Commit(Genesis(run))
    /\ UNCHANGED <<fanouts, cancellations, session, retained>>

Capture ==
    \E response \in Responses :
        LET answers(p, r) == capture(p, r, response) IN Loop(answers)

Reject ==
    LET answers(p, r) ==
            IF Captured(r) /\ ~parse_captured_response(Turn(r).response)
            THEN reject(p, r) ELSE {}
    IN  Loop(answers)

\* The loop's own acceptance, without a retained fan-out.
Accept ==
    LET answers(p, r) == IF Captured(r) THEN accept_tools(p, r) \cup complete(p, r) ELSE {}
    IN  Loop(answers)

Answer ==
    \E label \in Labels :
        LET answers(p, r) == IF r.turns = <<>> THEN {} ELSE terminal_tool(p, r, label, "RESULT")
        IN  Loop(answers)

Retain(x) ==
    /\ Cardinality(retained) < MaxRetained
    /\ Len(records) < MaxRecords
    /\ retained' = retained \cup {x}
    /\ UNCHANGED <<records, fanouts, cancellations, session>>

PrepareFanOut ==
    /\ HistoryReadable
    /\ \E run \in Runs :
          /\ Rows(run) # {}
          /\ LET p == Max(Rows(run))
                 r == records[p]
             IN  /\ prepare_captured_fan_out(r, session)
                 /\ \E next \in accept_tools(p, r) \cup complete(p, r) :
                       Retain(Evidence("FANOUT", p, r, next, None, None, TRUE))

PrepareCancellation ==
    /\ HistoryReadable
    /\ \E c \in DOMAIN inventory_from_history, act \in Acts, own \in BOOLEAN :
          /\ prepare_pre_accept_cancellation(c)
          /\ LET p == Max(Rows(records[c.captured].run))
                 r == records[p]
             IN  \E next \in terminal_tool(p, r, c.label, "NOT_EXECUTED") :
                    Retain(Evidence("CANCEL", p, r, next, c, act, own))

\* As if the batch were published on whatever the head is now.
AtAnyHead(x) == TRUE

\* The physical command carries the cut's tenant sequence as expected head.
AtExpectedHead(x) == Len(records) = x.cut

Selected(x) == [x EXCEPT !.accepted = Len(records) + 1]

\* The idempotency key of a cancellation is its act, that of a fan-out the
\* head of its Run.
PublishFanOut ==
    /\ \E x \in retained :
          /\ x.kind = "FANOUT" /\ AtExpectedHead(x) /\ VerifyFanOut(x)
          /\ Commit(x.run)
          /\ fanouts' = fanouts \cup {Selected(x)}
          /\ retained' = retained \ {x}
    /\ UNCHANGED <<cancellations, session>>

PublishCancellation ==
    /\ \E x \in retained :
          /\ x.kind = "CANCEL" /\ AtExpectedHead(x) /\ VerifyCancellation(x)
          /\ \A y \in cancellations : y.act # x.act
          /\ Commit(x.run)
          /\ cancellations' = cancellations \cup {Selected(x)}
          /\ retained' = retained \ {x}
    /\ UNCHANGED <<fanouts, session>>

Discard ==
    /\ \E x \in retained : Len(records) # x.cut /\ retained' = retained \ {x}
    /\ UNCHANGED <<records, fanouts, cancellations, session>>

Restart ==
    /\ session < MaxSessions
    /\ session' = session + 1
    /\ UNCHANGED <<records, fanouts, cancellations, retained>>

Init ==
    /\ records = <<>>
    /\ fanouts = {} /\ cancellations = {} /\ retained = {}
    /\ session = 1

Next ==
    \/ Create \/ Capture \/ Reject \/ Accept \/ Answer
    \/ PrepareFanOut \/ PrepareCancellation
    \/ PublishFanOut \/ PublishCancellation \/ Discard \/ Restart

Spec == Init /\ [][Next]_vars

-----------------------------------------------------------------------------
(***************************************************************************)
(* Whatever order answers, cancellations, fan-outs and later Turns are     *)
(* published in, the inventory can be read back from the history, it shows *)
(* a call as open exactly while the current Run record has no result for   *)
(* it, and as cancelled exactly when that result is NOT_EXECUTED           *)
(* (r14_fanout_records.inventory_from_history).                            *)
(***************************************************************************)
InventoryIsTheHistory ==
    /\ HistoryReadable
    /\ \A c \in DOMAIN inventory_from_history :
          LET now == OutcomeAt(Max(Rows(records[c.captured].run)), c)
          IN  /\ Open(c) <=> now.result = None
              /\ inventory_from_history[c].cancelled <=> now.result = "NOT_EXECUTED"
=============================================================================
