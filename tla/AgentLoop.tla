------------------------------ MODULE AgentLoop ------------------------------
(***************************************************************************)
(* The offline R13 agent loop: Runs, Turns, model attempts, sealed tool    *)
(* calls, planning receipts and completion, as immutable Run records that  *)
(* are published one by one under a compare-and-swap on the tenant head.   *)
(*                                                                         *)
(* capabilities/agent_loop/{domain,application,contracts,response_parsing},*)
(* adapters/driven/{loop_sqlite,loop_hermetic,loop_prompts} and the worker *)
(* checks of composition/r13_runtime.  A disclosure label is the set of    *)
(* endpoints it allows: UNRESTRICTED is all of them, DENY_ALL none.        *)
(***************************************************************************)
EXTENDS Naturals, Sequences, FiniteSets

CONSTANTS Runs, Tasks, Calls, None,
          Endpoints, Origin,   \* the Run's origin is the only delivery endpoint
          Labels,              \* labels the workspace may put on its context
          MaxTurns,            \* policy.max_turns
          MaxToolCalls,        \* policy.max_tool_calls
          MaxWorkers,          \* bound: worker generations
          MaxOps               \* bound: operations begun

\* What the constants have to satisfy.
LabelsAssumption == Origin \in Endpoints /\ Labels \subseteq SUBSET Endpoints

VARIABLES runs,      \* the latest record of each Run
          head,      \* tenant head
          worker,    \* current worker generation
          adopted,   \* proposals the planning owner has committed
          lane,      \* per loop instance: the task inside the lane
          task,      \* each task's operation
          ops

vars == <<runs, head, worker, adopted, lane, task, ops>>

Workers == 1..MaxWorkers
Proposals == Runs \X (1..MaxTurns) \X Calls
Evidence == Proposals \cup {None}

Responses ==
  [kind : {"Continue"}, calls : SUBSET Calls \ {{}}, evidence : {None}, endpoint : {Origin}]
  \cup [kind : {"Complete"}, calls : {{}}, evidence : Evidence, endpoint : Endpoints]
  \cup [kind : {"Malformed"}, calls : {{}}, evidence : {None}, endpoint : {Origin}]

NewRun == [state |-> "CREATED", turns |-> <<>>, receipts |-> {}, delivered |-> None]
NewTurn == [state |-> "PREPARING", members |-> {}, label |-> None, attempt |-> None, worker |-> None,
            response |-> None, sealed |-> FALSE, calls |-> [c \in {} |-> None]]
IdleTask == [pc |-> "idle", worker |-> 0, run |-> None, held |-> None, next |-> None,
             then |-> "idle", expected |-> 0, proposal |-> None]

-----------------------------------------------------------------------------
(* domain.py: pure decisions on one Run record.                            *)

Last(run) == Len(run.turns)
Turn(run) == run.turns[Last(run)]
WithTurn(run, turn) == [run EXCEPT !.turns[Last(run)] = turn]

join_labels(labels) == {e \in Endpoints : \A l \in labels : e \in l}

Settled(turn) ==
  \/ turn.state = "REJECTED" /\ turn.attempt = "TERMINAL_REJECTED" /\ turn.sealed
  \/ /\ turn.state = "ACCEPTED" /\ turn.attempt = "TERMINAL_ACCEPTED" /\ turn.sealed
     /\ DOMAIN turn.calls = turn.response.calls
     /\ \A c \in DOMAIN turn.calls : turn.calls[c] = "TERMINAL"

\* Mutant: the next Turn may start once the response is sealed.
SealedTurns(turns) == \A i \in 1..Len(turns) : turns[i].sealed
continuation(turns) == \A i \in 1..Len(turns) : Settled(turns[i])

transition(run) ==
  IF run.state = "CREATED" THEN {[run EXCEPT !.state = "ACTIVE"]} ELSE {}

start_turn(run) ==
  IF run.state # "ACTIVE" \/ ~continuation(run.turns) THEN {}
  ELSE IF Last(run) + 1 > MaxTurns THEN {[run EXCEPT !.state = "SUSPENDED"]}
  ELSE {[run EXCEPT !.turns = Append(@, NewTurn)]}

\* The origin's endpoint and the labels of every earlier manifest.
context_label(run) ==
  join_labels({{Origin}} \cup {run.turns[i].label : i \in 1..(Last(run) - 1)})

\* What the Turn will show: the workspace, its own context and prompt, and the
\* unrestricted schema.
accumulate(run, workspace) ==
  WithTurn(run, [Turn(run) EXCEPT !.members = {workspace, context_label(run), Endpoints}])

prepare(run, w) ==
  WithTurn(run, [Turn(run) EXCEPT !.state = "CALL_ACTIVE", !.worker = w,
                                  !.attempt = "PREPARED_NOT_EMITTED",
                                  !.label = join_labels(Turn(run).members)])

emit(run) == WithTurn(run, [Turn(run) EXCEPT !.attempt = "EMITTED_OUTCOME_UNKNOWN"])

capture(run, response) ==
  WithTurn(run, [Turn(run) EXCEPT !.state = "RESPONSE_AVAILABLE",
                   !.attempt = "RESPONSE_CAPTURED", !.response = response])

reject(run) ==
  WithTurn(run, [Turn(run) EXCEPT !.state = "REJECTED", !.sealed = TRUE,
                                  !.attempt = "TERMINAL_REJECTED"])

accept_tools(run) ==
  LET calls == Turn(run).response.calls
  IN IF Cardinality(calls) > MaxToolCalls THEN {}
     ELSE {WithTurn(run, [Turn(run) EXCEPT !.state = "ACCEPTED", !.sealed = TRUE,
                            !.attempt = "TERMINAL_ACCEPTED",
                            !.calls = [c \in calls |-> "INITIALIZED"]])}

\* The delivery goes to the origin, under a label that joins every member any
\* Turn of the Run has shown to the model, and an assertion cites a receipt.
complete(run) ==
  LET response == Turn(run).response
      label == join_labels(UNION {run.turns[i].members : i \in 1..Last(run)})
  IN IF \/ ~continuation(SubSeq(run.turns, 1, Last(run) - 1))
        \/ response.endpoint # Origin
        \/ label # Turn(run).label \/ Origin \notin label
        \/ response.evidence # None /\ response.evidence \notin run.receipts
     THEN {}
     ELSE {[WithTurn(run, [Turn(run) EXCEPT !.state = "ACCEPTED", !.sealed = TRUE,
                                            !.attempt = "TERMINAL_ACCEPTED"])
              EXCEPT !.state = "SUCCEEDED", !.delivered = response]}

terminal_tool(run, c) == WithTurn(run, [Turn(run) EXCEPT !.calls[c] = "TERMINAL"])

observe_receipt(run, r, proposal) ==
  LET i == proposal[2]
  IN IF \/ run.state # "ACTIVE" \/ ~continuation(run.turns)
        \/ proposal[1] # r \/ i > Last(run) \/ proposal \in run.receipts
        \/ ~(i <= Last(run) /\ proposal[3] \in DOMAIN run.turns[i].calls)
     THEN {}
     ELSE {[run EXCEPT !.receipts = @ \cup {proposal}]}

-----------------------------------------------------------------------------
(* application.py: AgentLoop.                                              *)

Init ==
  /\ runs = [r \in Runs |-> None] /\ head = 0 /\ worker = 1 /\ adopted = {}
  /\ lane = [w \in Workers |-> None]
  /\ task = [t \in Tasks |-> IdleTask] /\ ops = 0

At(t, pc) == task[t].pc = pc
Live(t) == task[t].worker = worker

\* An operation ends, normally or by an exception, and leaves the lane.
End(t) ==
  /\ task' = [task EXCEPT ![t] = IdleTask]
  /\ lane' = [w \in Workers |-> IF lane[w] = t THEN None ELSE lane[w]]

\* _publish: the successor is proposed from the record the task holds, against
\* a fresh snapshot in which that record must still be the latest.
Propose(t, held, successors, then) ==
  LET r == task[t].run
  IN IF Live(t) /\ runs[r] = held /\ successors # {}
     THEN /\ \E next \in successors :
               task' = [task EXCEPT ![t].pc = "publish", ![t].held = held,
                          ![t].next = next, ![t].then = then, ![t].expected = head]
          /\ UNCHANGED lane
     ELSE End(t)

\* The appender's guard under the writer lock: the tenant is exactly as it was
\* observed and the worker is still current.
Commit(t) ==
  /\ At(t, "publish")
  /\ IF head = task[t].expected /\ Live(t)
     THEN /\ runs' = [runs EXCEPT ![task[t].run] = task[t].next]
          /\ head' = head + 1
          /\ IF task[t].then = "idle" THEN End(t)
             ELSE /\ task' = [task EXCEPT ![t].pc = task[t].then, ![t].held = task[t].next,
                                          ![t].next = None]
                  /\ UNCHANGED lane
     ELSE End(t) /\ UNCHANGED <<runs, head>>
  /\ UNCHANGED <<worker, adopted, ops>>

Begin(t, r, pc, laned) ==
  /\ At(t, "idle") /\ ops < MaxOps /\ ops' = ops + 1
  /\ laned => lane[worker] = None
  /\ lane' = IF laned THEN [lane EXCEPT ![worker] = t] ELSE lane
  /\ task' = [task EXCEPT ![t] = [IdleTask EXCEPT !.pc = pc, !.worker = worker, !.run = r]]
  /\ UNCHANGED <<runs, head, worker, adopted>>

\* create: the prompt is first ingested into the conversation, which is a
\* publication of its own.
BeginCreate(t, r) == runs[r] = None /\ Begin(t, r, "ingest", TRUE)
Ingest(t) ==
  /\ At(t, "ingest")
  /\ head' = head + 1
  /\ task' = [task EXCEPT ![t].pc = "create"]
  /\ UNCHANGED <<runs, worker, adopted, lane, ops>>
Create(t) ==
  /\ At(t, "create") /\ Propose(t, None, {NewRun}, "idle")
  /\ UNCHANGED <<runs, head, worker, adopted, ops>>

\* activate takes no lane.
BeginActivate(t, r) == runs[r] # None /\ Begin(t, r, "activate", FALSE)
Activate(t) ==
  /\ At(t, "activate")
  /\ Propose(t, runs[task[t].run], transition(runs[task[t].run]), "idle")
  /\ UNCHANGED <<runs, head, worker, adopted, ops>>

BeginStep(t, r) == runs[r] # None /\ runs[r].state = "ACTIVE" /\ Begin(t, r, "start", TRUE)
Start(t) ==
  /\ At(t, "start")
  /\ LET run == runs[task[t].run]
     IN Propose(t, run, start_turn(run), IF Last(run) < MaxTurns THEN "context" ELSE "idle")
  /\ UNCHANGED <<runs, head, worker, adopted, ops>>

\* The workspace read publishes its policy binding before it answers.
Context(t) ==
  /\ At(t, "context")
  /\ task' = [task EXCEPT ![t].pc = "accumulate"] /\ head' = head + 1
  /\ UNCHANGED <<runs, worker, adopted, lane, ops>>
Accumulate(t) ==
  /\ At(t, "accumulate")
  /\ Propose(t, task[t].held, {accumulate(task[t].held, l) : l \in Labels}, "prepare")
  /\ UNCHANGED <<runs, head, worker, adopted, ops>>
Prepare(t) ==
  /\ At(t, "prepare")
  /\ Propose(t, task[t].held, {prepare(task[t].held, task[t].worker)}, "emit")
  /\ UNCHANGED <<runs, head, worker, adopted, ops>>
Emit(t) ==
  /\ At(t, "emit") /\ Propose(t, task[t].held, {emit(task[t].held)}, "invoke")
  /\ UNCHANGED <<runs, head, worker, adopted, ops>>

\* The hermetic model answers an emitted attempt of the current worker.
Invoke(t) ==
  /\ At(t, "invoke")
  /\ IF Turn(task[t].held).worker # worker THEN End(t)
     ELSE Propose(t, task[t].held, {capture(task[t].held, x) : x \in Responses}, "accept")
  /\ UNCHANGED <<runs, head, worker, adopted, ops>>

\* parse_response and the owner decision; any refusal is a recorded rejection.
Decision(run) ==
  LET kind == Turn(run).response.kind
      accepted == IF kind = "Continue" THEN accept_tools(run)
                  ELSE IF kind = "Complete" THEN complete(run) ELSE {}
  IN IF accepted = {} THEN {reject(run)} ELSE accepted

Accept(t) ==
  /\ At(t, "accept")
  /\ LET next == Decision(task[t].held)
     IN Propose(t, task[t].held, next,
                IF \E run \in next : DOMAIN Turn(run).calls # {} THEN "tools" ELSE "idle")
  /\ UNCHANGED <<runs, head, worker, adopted, ops>>

\* One call at a time, each from the record as it is then.
Tools(t) ==
  /\ At(t, "tools")
  /\ LET run == runs[task[t].run]
         open == {c \in DOMAIN Turn(run).calls : Turn(run).calls[c] = "INITIALIZED"}
     IN IF open = {} THEN End(t)
        ELSE Propose(t, run, {terminal_tool(run, c) : c \in open}, "tools")
  /\ UNCHANGED <<runs, head, worker, adopted, ops>>

\* adopt: the planning owner commits first (or replays), then the receipt is
\* observed by the Run that proposed it.
Proposed == {p \in Proposals : /\ runs[p[1]] # None
                               /\ p[2] <= Last(runs[p[1]])
                               /\ p[3] \in DOMAIN runs[p[1]].turns[p[2]].calls}
BeginAdopt(t, p) ==
  /\ p \in Proposed
  /\ At(t, "idle") /\ ops < MaxOps /\ ops' = ops + 1 /\ lane[worker] = None
  /\ lane' = [lane EXCEPT ![worker] = t]
  /\ task' = [task EXCEPT ![t] = [IdleTask EXCEPT !.pc = "adopt", !.worker = worker,
                                    !.run = p[1], !.proposal = p]]
  /\ UNCHANGED <<runs, head, worker, adopted>>
Adopt(t) ==
  /\ At(t, "adopt")
  /\ IF ~Live(t) THEN End(t) /\ UNCHANGED <<adopted, head>>
     ELSE /\ adopted' = adopted \cup {task[t].proposal}
          /\ head' = IF task[t].proposal \in adopted THEN head ELSE head + 1
          /\ task' = [task EXCEPT ![t].pc = "observe"] /\ UNCHANGED lane
  /\ UNCHANGED <<runs, worker, ops>>
Observe(t) ==
  /\ At(t, "observe")
  /\ LET run == runs[task[t].run]
     IN IF task[t].proposal \in run.receipts THEN End(t)
        ELSE Propose(t, run, observe_receipt(run, task[t].run, task[t].proposal), "idle")
  /\ UNCHANGED <<runs, head, worker, adopted, ops>>

\* An awaited call raises, or the process is gone.
Fail(t) ==
  /\ ~At(t, "idle") /\ End(t)
  /\ UNCHANGED <<runs, head, worker, adopted, ops>>

\* A fresh runtime generation opens while the old instance may still run.
Open ==
  /\ worker < MaxWorkers /\ worker' = worker + 1
  /\ UNCHANGED <<runs, head, adopted, lane, task, ops>>

Work(t) ==
  \/ Ingest(t) \/ Create(t) \/ Activate(t) \/ Start(t) \/ Context(t) \/ Accumulate(t)
  \/ Prepare(t) \/ Emit(t) \/ Invoke(t) \/ Accept(t) \/ Tools(t) \/ Adopt(t)
  \/ Observe(t) \/ Commit(t) \/ Fail(t)

Next ==
  \/ Open
  \/ \E t \in Tasks :
       \/ Work(t)
       \/ \E r \in Runs : BeginCreate(t, r) \/ BeginActivate(t, r) \/ BeginStep(t, r)
       \/ \E p \in Proposals : BeginAdopt(t, p)

Spec == Init /\ [][Next]_vars

-----------------------------------------------------------------------------
\* Every Turn before the last has an accepted or rejected response whose sealed
\* calls are exactly the response's and all terminal, and a succeeded Run has no
\* open call anywhere: no stale worker, race on the tenant head or failure in
\* the middle of a step lets the loop move past work it has not accounted for.
HistoryIsSettled ==
  \A r \in Runs : runs[r] # None =>
    LET run == runs[r]
    IN \A i \in 1..Last(run) :
         (i < Last(run) \/ run.state = "SUCCEEDED") => Settled(run.turns[i])

\* What a succeeded Run delivers goes to an endpoint that every label of every
\* Turn allows, and an assertion cites a planning commit of a call this Run
\* itself proposed.
DeliveryIsEntitled ==
  \A r \in Runs : (runs[r] # None /\ runs[r].state = "SUCCEEDED") =>
    LET run == runs[r]
    IN /\ \A i \in 1..Last(run) : \A l \in run.turns[i].members :
            run.delivered.endpoint \in l
       /\ run.delivered.evidence # None =>
            run.delivered.evidence \in adopted /\ run.delivered.evidence[1] = r

=============================================================================
