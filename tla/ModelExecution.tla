---------------------------- MODULE ModelExecution ----------------------------
(***************************************************************************)
(* Runs, model attempts and response custody of the PostgreSQL-native      *)
(* execution runtime: composition/postgres_execution.py,                   *)
(* postgres_model_recovery.py and postgres_run_recovery.py over the pure   *)
(* transitions of capabilities/agent_loop/execution_client_*.py.           *)
(*                                                                         *)
(* Several runtimes (operating system processes) share one user database.  *)
(* Opening a runtime writes a fresh token to user_state.worker; every      *)
(* later transaction of an older runtime raises LoopHold.  An operation    *)
(* reads a snapshot, computes a batch, and publishes it in a second        *)
(* transaction that succeeds only on an unchanged head.  The two halves    *)
(* are two steps here, because another runtime may act between them, and a *)
(* batch waiting for its second half is a member of inflight.              *)
(*                                                                         *)
(* Run heads are digests in the code; here the head of a Run is the number *)
(* of records in its chain, which identifies a committed record as well.   *)
(* Replay of an idempotency key returns the recorded Run and changes       *)
(* nothing, so it has no action (module UserDatabase models replay).       *)
(***************************************************************************)
EXTENDS Naturals, FiniteSets

CONSTANTS
    Runtimes,        \* runtime processes; each is opened at most once
    SessionOf,       \* the worker_session string a runtime presents
    RunIds,
    Continuations,   \* responses that seal to a continuation (proposal calls)
    Completions,     \* responses that seal to a prepared completion
    Malformed,       \* retained responses that seal() rejects
    Oversize,        \* responses beyond policy.max_response_bytes
    MaxTurns,        \* policy.max_turns
    MaxModelRetries, \* policy.max_model_retries
    MaxHead,         \* bound on publications, for TLC only
    NoWorker, NoResponse

Sessions == {SessionOf[p] : p \in Runtimes}
Retainable == Continuations \cup Completions \cup Malformed
Responses == Retainable \cup Oversize

ASSUME BoundsAssumption ==
    /\ MaxTurns \in Nat \ {0}
    /\ MaxModelRetries \in Nat
    /\ MaxHead \in Nat
ASSUME NamesAssumption ==
    /\ NoWorker \notin Runtimes
    /\ NoResponse \notin Responses
    /\ Retainable \cap Oversize = {}

Slots == {"lane", "side"}
Attempts == [run : RunIds, turn : 1..MaxTurns, gen : 0..MaxModelRetries]
RunStates == {"ABSENT", "CREATED", "ACTIVE", "SUSPENDED", "ABORTED"}
Phases == {"NONE", "PREPARING", "CALL_ACTIVE", "RESPONSE_AVAILABLE", "ACCEPTED"}

\* The fields of a Run record that its transitions read: the last Turn's phase,
\* the generation of its last attempt, the captured response and the seal.
RunRecords ==
    [state : RunStates, sess : Sessions \cup {NoWorker},
     turn : 0..MaxTurns, phase : Phases, gen : 0..MaxModelRetries,
     resp : Retainable \cup {NoResponse}, sealed : BOOLEAN]

\* The place of the selected record in the predecessor chain of its Run.
Links == [head : Nat, pred : Nat]

Work == [turn : 0..MaxTurns, phase : Phases, gen : 0..MaxModelRetries,
         resp : Retainable \cup {NoResponse}, sealed : BOOLEAN]

CustodyRows ==
    [state : {"NONE", "NEVER_STARTED", "STARTED", "FENCED_OUT"},
     emitted : Nat, resp : Retainable \cup {NoResponse}]

\* "recover" is an execution.capture batch published with a validate callback.
Operations == {"create", "begin", "emit", "capture", "recover", "seal",
               "continue", "replace", "suspend", "resume", "abort"}
Validated == {"create", "recover", "replace", "suspend", "resume", "abort"}

Proposals == [by : Runtimes, slot : Slots, op : Operations, run : RunIds,
              expected : Nat, link : Links, next : RunRecords]

Invocations ==
    [by : Runtimes, att : Attempts, head : Nat,
     phase : {"emitted", "started", "sent", "answered", "retained"},
     resp : Responses \cup {NoResponse}]

VARIABLES
    worker,    \* user_state.worker: the runtime whose token is current
    opened,    \* runtimes opened so far
    crashed,   \* runtimes whose process has died
    head,      \* user_state.head: the number of published batches
    run,       \* the selected (last) record of every Run chain
    chain,     \* the head of that record and the predecessor it names
    baseline,  \* the work retained by the last suspension of a Run
    custody,   \* table model_attempt_custody
    inflight,  \* batches computed from a snapshot and not yet published
    invs,      \* model.invoke calls in progress, each holding its lane
    requests,  \* model requests the provider has received, per attempt
    answers    \* responses the provider has produced, per attempt

vars == <<worker, opened, crashed, head, run, chain, baseline, custody,
          inflight, invs, requests, answers>>

-----------------------------------------------------------------------------
AbsentRun ==
    [state |-> "ABSENT", sess |-> NoWorker, turn |-> 0,
     phase |-> "NONE", gen |-> 0, resp |-> NoResponse, sealed |-> FALSE]

NoCustody == [state |-> "NONE", emitted |-> 0, resp |-> NoResponse]

Alive == opened \ crashed

\* The asyncio lane of a runtime is held by a batch or by a model invocation.
LaneFree(p) ==
    /\ \A b \in inflight : b.by = p => b.slot # "lane"
    /\ \A i \in invs : i.by # p

SideFree(p) == \A b \in inflight : b.by = p => b.slot # "side"

Selected(r) == [run |-> r, turn |-> run[r].turn, gen |-> run[r].gen]

WorkOf(rec) ==
    [turn |-> rec.turn, phase |-> rec.phase, gen |-> rec.gen,
     resp |-> rec.resp, sealed |-> rec.sealed]

\* advance(): the n records of one batch are chained to the selected record,
\* and the last of them becomes selected.
Advance(link, n) == [head |-> link.head + n, pred |-> link.head]

\* How many Run records the batch of an operation appends.
Records(op) ==
    CASE op = "emit" -> 3 [] op \in {"begin", "replace"} -> 2 [] OTHER -> 1
-----------------------------------------------------------------------------
(* The pure transitions: when the source record admits the operation, and    *)
(* the record that becomes selected.                                         *)

CanCreate(rec) == rec.state = "ABSENT"
Created(rec, p) ==
    [rec EXCEPT !.state = "CREATED", !.sess = SessionOf[p]]

CanBegin(rec) == rec.state = "CREATED" /\ rec.turn = 0
Begun(rec) ==
    [rec EXCEPT !.state = "ACTIVE", !.turn = 1, !.phase = "PREPARING"]

CanEmit(rec, p) ==
    /\ rec.state = "ACTIVE" /\ rec.phase = "PREPARING"
    /\ rec.sess = SessionOf[p]
Emitted(rec) == [rec EXCEPT !.phase = "CALL_ACTIVE", !.gen = 0]

CanCapture(rec) == rec.state = "ACTIVE" /\ rec.phase = "CALL_ACTIVE"
Captured(rec, x) ==
    [rec EXCEPT !.phase = "RESPONSE_AVAILABLE", !.resp = x]

CanSeal(rec) ==
    /\ rec.state = "ACTIVE" /\ rec.phase = "RESPONSE_AVAILABLE" /\ ~rec.sealed
    /\ rec.resp \in Continuations \cup Completions
Sealed(rec) ==
    IF rec.resp \in Continuations
    THEN [rec EXCEPT !.sealed = TRUE, !.phase = "ACCEPTED"]
    ELSE [rec EXCEPT !.sealed = TRUE]

CanContinue(rec) ==
    /\ rec.state = "ACTIVE" /\ rec.phase = "ACCEPTED" /\ rec.sealed
    /\ rec.turn < MaxTurns
Continued(rec) ==
    [state |-> rec.state, sess |-> rec.sess, turn |-> rec.turn + 1,
     phase |-> "PREPARING", gen |-> 0, resp |-> NoResponse, sealed |-> FALSE]

CanReplace(rec) ==
    /\ rec.state = "ACTIVE" /\ rec.phase = "CALL_ACTIVE" /\ ~rec.sealed
    /\ rec.gen + 1 <= MaxModelRetries
Replaced(rec, p) ==
    [state |-> rec.state, sess |-> SessionOf[p], turn |-> rec.turn,
     phase |-> rec.phase, gen |-> rec.gen + 1, resp |-> rec.resp,
     sealed |-> rec.sealed]

CanSuspend(rec) == rec.state = "ACTIVE" /\ rec.sealed
Suspended(rec) == [rec EXCEPT !.state = "SUSPENDED"]

CanResume(rec, base) == rec.state = "SUSPENDED" /\ base = WorkOf(rec)
Resumed(rec, p) ==
    [rec EXCEPT !.state = "ACTIVE", !.sess = SessionOf[p]]

CanAbort(rec) == rec.state \in {"CREATED", "ACTIVE", "SUSPENDED"}
Aborted(rec) == [rec EXCEPT !.state = "ABORTED"]
-----------------------------------------------------------------------------
Init ==
    /\ worker = NoWorker
    /\ opened = {} /\ crashed = {}
    /\ head = 0
    /\ run = [r \in RunIds |-> AbsentRun]
    /\ chain = [r \in RunIds |-> [head |-> 0, pred |-> 0]]
    /\ baseline = [r \in RunIds |-> WorkOf(AbsentRun)]
    /\ custody = [a \in Attempts |-> NoCustody]
    /\ inflight = {} /\ invs = {}
    /\ requests = [a \in Attempts |-> 0]
    /\ answers = [a \in Attempts |-> {}]

\* open_postgres_execution_runtime: a fresh token fences every older runtime.
Open(p) ==
    /\ p \notin opened
    /\ opened' = opened \cup {p}
    /\ worker' = p
    /\ UNCHANGED <<crashed, head, run, chain, baseline, custody, inflight, invs,
                   requests, answers>>

\* The process dies: its batches, its lane and its sender capabilities with it.
Crash(p) ==
    /\ p \in Alive
    /\ crashed' = crashed \cup {p}
    /\ inflight' = {b \in inflight : b.by # p}
    /\ invs' = {i \in invs : i.by # p}
    /\ UNCHANGED <<worker, opened, head, run, chain, baseline, custody, requests, answers>>

\* The first half of an operation: read the snapshot, compute the batch.
Propose(p, s, op, r, next) ==
    /\ p \in Alive /\ worker = p
    /\ head < MaxHead
    /\ IF s = "lane" THEN LaneFree(p) ELSE SideFree(p)
    /\ inflight' = inflight \cup
           {[by |-> p, slot |-> s, op |-> op, run |-> r,
             expected |-> head, link |-> Advance(chain[r], Records(op)),
             next |-> next]}
    /\ UNCHANGED <<worker, opened, crashed, head, run, chain, baseline, custody,
                   invs, requests, answers>>

create_execution(p, r) ==
    CanCreate(run[r]) /\ Propose(p, "lane", "create", r, Created(run[r], p))

begin_execution(p, r) ==
    CanBegin(run[r]) /\ Propose(p, "lane", "begin", r, Begun(run[r]))

\* capture_execution up to the publication of the emitted attempt.
capture_execution(p, r) ==
    CanEmit(run[r], p) /\ Propose(p, "lane", "emit", r, Emitted(run[r]))

seal_execution(p, r) ==
    CanSeal(run[r]) /\ Propose(p, "lane", "seal", r, Sealed(run[r]))

continue_execution(p, r) ==
    CanContinue(run[r]) /\ Propose(p, "lane", "continue", r, Continued(run[r]))

replace_unstarted_model_attempt(p, r) ==
    CanReplace(run[r]) /\ Propose(p, "lane", "replace", r, Replaced(run[r], p))

\* recover_model_response: custody.retained() of the selected emitted attempt.
recover_model_response(p, r) ==
    LET row == custody[Selected(r)] IN
    /\ CanCapture(run[r])
    /\ row.state = "STARTED" /\ row.resp # NoResponse
    /\ row.emitted = chain[r].head
    /\ Propose(p, "lane", "recover", r, Captured(run[r], row.resp))

suspend_execution(p, r) ==
    CanSuspend(run[r]) /\ Propose(p, "side", "suspend", r, Suspended(run[r]))

resume_execution(p, r) ==
    /\ CanResume(run[r], baseline[r])
    /\ Propose(p, "side", "resume", r, Resumed(run[r], p))

abort_execution(p, r) ==
    CanAbort(run[r]) /\ Propose(p, "side", "abort", r, Aborted(run[r]))
-----------------------------------------------------------------------------
(* The second half: publish_execution_batch in one transaction.              *)

AttemptOf(b) == [run |-> b.run, turn |-> b.next.turn, gen |-> b.next.gen]
PredecessorOf(a) == [a EXCEPT !.gen = a.gen - 1]

\* custody.register inserts the emitted attempt under its primary key.
register(table, b) ==
    [table EXCEPT ![AttemptOf(b)] =
        [state |-> "NEVER_STARTED", emitted |-> b.link.head, resp |-> NoResponse]]

fence_unstarted(table, b) ==
    [table EXCEPT ![PredecessorOf(AttemptOf(b))].state = "FENCED_OUT"]

\* Mutant: replacement does not look at the custody state it supersedes.
StageAdmitsStarted(b) ==
    b.op \in {"emit", "replace"} => custody[AttemptOf(b)].state = "NONE"

\* transaction_action of the batch: emission registers custody; replacement
\* fences the never-started predecessor in the same transaction.
StageAdmits(b) ==
    /\ b.op \in {"emit", "replace"} => custody[AttemptOf(b)].state = "NONE"
    /\ b.op = "replace" =>
          /\ custody[PredecessorOf(AttemptOf(b))].state = "NEVER_STARTED"
          /\ custody[PredecessorOf(AttemptOf(b))].emitted = b.link.pred

\* Mutant: replacement registers the new generation and forgets the fence.
StagedWithoutFence(b) ==
    IF b.op \in {"emit", "replace"} THEN register(custody, b) ELSE custody

Staged(b) ==
    CASE b.op = "emit"    -> register(custody, b)
      [] b.op = "replace" -> register(fence_unstarted(custody, b), b)
      [] OTHER            -> custody

\* Mutant: the head read with the snapshot is not compared.
AdmittedOnAnyHead(b) == worker = b.by /\ StageAdmits(b)

\* _actor, the head comparison and the operation's own validate callback.
Admitted(b) ==
    /\ worker = b.by
    /\ head = b.expected
    /\ b.op \in Validated => chain[b.run].head = b.link.pred
    /\ StageAdmits(b)

Invoking(b) ==
    [by |-> b.by, att |-> AttemptOf(b), head |-> b.link.head,
     phase |-> "emitted", resp |-> NoResponse]

publish_execution_batch(b) ==
    /\ Admitted(b)
    /\ head' = head + 1
    /\ run' = [run EXCEPT ![b.run] = b.next]
    /\ chain' = [chain EXCEPT ![b.run] = b.link]
    /\ baseline' = IF b.op = "suspend"
                   THEN [baseline EXCEPT ![b.run] = WorkOf(run[b.run])]
                   ELSE baseline
    /\ custody' = Staged(b)
    /\ invs' = IF b.op \in {"emit", "replace"} THEN invs \cup {Invoking(b)} ELSE invs
    /\ inflight' = inflight \ {b}
    /\ UNCHANGED <<worker, opened, crashed, requests, answers>>

\* LoopHold or LoopRejected: the transaction rolls back, the call returns.
refuse_batch(b) ==
    /\ ~Admitted(b)
    /\ inflight' = inflight \ {b}
    /\ UNCHANGED <<worker, opened, crashed, head, run, chain, baseline, custody,
                   invs, requests, answers>>
-----------------------------------------------------------------------------
(* model.invoke between the two publications of capture_execution, for the   *)
(* attempt registered by this very process (its in-memory capability).       *)

Moved(i, ph, x) == (invs \ {i}) \cup {[i EXCEPT !.phase = ph, !.resp = x]}

\* custody.start: the one-shot permit, committed before the transport is used.
start(i) ==
    /\ i.phase = "emitted"
    /\ worker = i.by
    /\ custody[i.att].state = "NEVER_STARTED"
    /\ custody[i.att].emitted = i.head
    /\ run[i.att.run].state = "ACTIVE" /\ chain[i.att.run].head = i.head
    /\ custody' = [custody EXCEPT ![i.att].state = "STARTED"]
    /\ invs' = Moved(i, "started", NoResponse)
    /\ UNCHANGED <<worker, opened, crashed, head, run, chain, baseline, inflight,
                   requests, answers>>

\* The request reaches the provider.
transmit(i) ==
    /\ i.phase = "started"
    /\ requests' = [requests EXCEPT ![i.att] = @ + 1]
    /\ invs' = Moved(i, "sent", NoResponse)
    /\ UNCHANGED <<worker, opened, crashed, head, run, chain, baseline, custody,
                   inflight, answers>>

\* The provider's stream ends in a completed response.
answer(i) ==
    /\ i.phase = "sent"
    /\ \E x \in Responses :
          /\ answers' = [answers EXCEPT ![i.att] = @ \cup {x}]
          /\ invs' = Moved(i, "answered", x)
    /\ UNCHANGED <<worker, opened, crashed, head, run, chain, baseline, custody,
                   inflight, requests>>

\* invoke raises: stale worker, missing credential, refused start, lost start
\* acknowledgement, transport error or timeout.  The lane is released.
invoke_fails(i) ==
    /\ i.phase \in {"emitted", "started", "sent"}
    /\ invs' = invs \ {i}
    /\ UNCHANGED <<worker, opened, crashed, head, run, chain, baseline, custody,
                   inflight, requests, answers>>

\* custody.retain: no worker check, so a fenced sender still keeps its facts.
RetainAdmits(i) ==
    /\ custody[i.att].state = "STARTED"
    /\ i.resp \in Retainable
    /\ custody[i.att].resp \in {NoResponse, i.resp}

retain(i) ==
    /\ i.phase = "answered"
    /\ RetainAdmits(i)
    /\ custody' = [custody EXCEPT ![i.att].resp = i.resp]
    /\ invs' = Moved(i, "retained", i.resp)
    /\ UNCHANGED <<worker, opened, crashed, head, run, chain, baseline, inflight,
                   requests, answers>>

retain_refused(i) ==
    /\ i.phase = "answered"
    /\ ~RetainAdmits(i)
    /\ invs' = invs \ {i}
    /\ UNCHANGED <<worker, opened, crashed, head, run, chain, baseline, custody,
                   inflight, requests, answers>>

\* After the await: a current worker whose emitted Run is still selected
\* computes the capture batch; otherwise LoopHold leaves the response in custody.
CaptureAdmits(i) ==
    /\ worker = i.by
    /\ CanCapture(run[i.att.run]) /\ chain[i.att.run].head = i.head

propose_capture(i) ==
    /\ i.phase = "retained"
    /\ CaptureAdmits(i)
    /\ invs' = invs \ {i}
    /\ inflight' = inflight \cup
           {[by |-> i.by, slot |-> "lane", run |-> i.att.run, expected |-> head,
             op |-> IF i.att.gen = 0 THEN "capture" ELSE "recover",
             link |-> Advance(chain[i.att.run], 1),
             next |-> Captured(run[i.att.run], i.resp)]}
    /\ UNCHANGED <<worker, opened, crashed, head, run, chain, baseline, custody,
                   requests, answers>>

\* Mutant: only a current worker releases the lane after a lost capture.
CaptureHeldByCurrent(i) ==
    /\ i.phase = "retained" /\ worker = i.by
    /\ ~CaptureAdmits(i)
    /\ invs' = invs \ {i}
    /\ UNCHANGED <<worker, opened, crashed, head, run, chain, baseline, custody,
                   inflight, requests, answers>>

capture_held(i) ==
    /\ i.phase = "retained"
    /\ ~CaptureAdmits(i)
    /\ invs' = invs \ {i}
    /\ UNCHANGED <<worker, opened, crashed, head, run, chain, baseline, custody,
                   inflight, requests, answers>>
-----------------------------------------------------------------------------
Operation(p, r) ==
    \/ create_execution(p, r)
    \/ begin_execution(p, r)
    \/ capture_execution(p, r)
    \/ seal_execution(p, r)
    \/ continue_execution(p, r)
    \/ recover_model_response(p, r)
    \/ replace_unstarted_model_attempt(p, r)
    \/ suspend_execution(p, r)
    \/ resume_execution(p, r)
    \/ abort_execution(p, r)

Publication(b) == publish_execution_batch(b) \/ refuse_batch(b)

Invocation(i) ==
    \/ start(i) \/ transmit(i) \/ answer(i) \/ invoke_fails(i)
    \/ retain(i) \/ retain_refused(i)
    \/ propose_capture(i) \/ capture_held(i)

Next ==
    \/ \E p \in Runtimes : Open(p) \/ Crash(p)
    \/ \E p \in Runtimes, r \in RunIds : Operation(p, r)
    \/ \E b \in inflight : Publication(b)
    \/ \E i \in invs : Invocation(i)

\* A process that is not dead runs its coroutines: a computed batch is
\* published or refused, and every await of an invocation ends (the transport
\* has a timeout).  Nothing obliges a caller to start an operation.
LaneStep(p) ==
    \/ \E b \in inflight : b.by = p /\ b.slot = "lane" /\ Publication(b)
    \/ \E i \in invs : i.by = p /\ Invocation(i)

Fairness == \A p \in Runtimes : WF_vars(LaneStep(p))

Spec == Init /\ [][Next]_vars
FairSpec == Spec /\ Fairness
-----------------------------------------------------------------------------
TypeOK ==
    /\ worker \in Runtimes \cup {NoWorker}
    /\ opened \subseteq Runtimes /\ crashed \subseteq Runtimes
    /\ head \in Nat
    /\ run \in [RunIds -> RunRecords]
    /\ chain \in [RunIds -> Links]
    /\ baseline \in [RunIds -> Work]
    /\ custody \in [Attempts -> CustodyRows]
    /\ inflight \subseteq Proposals
    /\ invs \subseteq Invocations
    /\ requests \in [Attempts -> Nat]
    /\ answers \in [Attempts -> SUBSET Responses]

SameTurn(a, b) == a.run = b.run /\ a.turn = b.turn

\* A Turn causes at most one model request, whatever generations, takeovers,
\* crashes and replacements it goes through (custody.start is a one-shot permit
\* and replacement fences the attempt it supersedes).
OneRequestPerTurn ==
    \A a, b \in Attempts :
        /\ requests[a] <= 1
        /\ SameTurn(a, b) /\ requests[a] > 0 /\ requests[b] > 0 => a = b

\* The response a Run carries is one the provider produced for the selected
\* attempt, and it is the one retained in custody, whichever runtime captured it.
CapturedResponseIsGenuine ==
    \A r \in RunIds :
        run[r].resp # NoResponse =>
            /\ run[r].resp \in answers[Selected(r)]
            /\ custody[Selected(r)].resp = run[r].resp

\* An ACTIVE Run that waits for a model response has a custody row for exactly
\* the selected emission, and that row is not fenced: recovery or replacement
\* always finds its subject (register and emission share a transaction).
AwaitedAttemptIsInCustody ==
    \A r \in RunIds :
        run[r].state = "ACTIVE" /\ run[r].phase = "CALL_ACTIVE" =>
            /\ custody[Selected(r)].state \in {"NEVER_STARTED", "STARTED"}
            /\ custody[Selected(r)].emitted = chain[r].head

\* Generations of a Turn are superseded only by fencing: every older one is
\* FENCED_OUT, has no response and was never sent.
OlderGenerationsAreFenced ==
    \A a, b \in Attempts :
        SameTurn(a, b) /\ a.gen < b.gen /\ custody[b].state # "NONE" =>
            /\ custody[a].state = "FENCED_OUT"
            /\ custody[a].resp = NoResponse
            /\ requests[a] = 0

\* Custody and the Runs agree in every reachable state: what a Run carries was
\* answered to its selected attempt, what it waits for is in custody, and what
\* was superseded is fenced (ModelInvocationCustody beside publish_batch).
CustodyIsExact ==
    /\ TypeOK
    /\ CapturedResponseIsGenuine
    /\ AwaitedAttemptIsInCustody
    /\ OlderGenerationsAreFenced

\* Every published record extends the selected record of its Run: two
\* runtimes that read the same snapshot never both publish from it.
NoLostUpdate ==
    [][\A r \in RunIds :
          run'[r] # run[r] \/ chain'[r] # chain[r] =>
              chain'[r].pred = chain[r].head]_vars

\* ABORTED is final, and a retained response is never replaced: neither a late
\* capture nor a late sender changes what was decided.
DecidedFactsAreFinal ==
    [][/\ \A r \in RunIds : run[r].state = "ABORTED" => run'[r] = run[r]
       /\ \A a \in Attempts :
             custody[a].resp # NoResponse => custody'[a] = custody[a]]_vars

\* What was published stays: every record extends the one before it, and neither
\* an aborted Run nor a retained response changes again.
HistoryIsFinal == NoLostUpdate /\ DecidedFactsAreFinal

\* The model lane of a runtime is always released, even when the Run is
\* aborted or the worker is replaced while the model call is pending.
LaneIsReleased == \A p \in Runtimes : ~LaneFree(p) ~> LaneFree(p)
=============================================================================
