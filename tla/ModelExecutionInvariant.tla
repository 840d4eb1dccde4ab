----------------------- MODULE ModelExecutionInvariant -----------------------
(***************************************************************************)
(* Proofs about ModelExecution for any sets of runtimes, Runs and          *)
(* responses and any budgets.  The inductive invariant IInv says what the  *)
(* head comparison buys (ProposalInv: a batch that can still be published  *)
(* was computed from the Run that is still selected), how far the Run has  *)
(* come (RunInv), which attempts have custody (CustodyInv) and what a      *)
(* pending model invocation may rely on (InvocationInv).                   *)
(***************************************************************************)
EXTENDS ModelExecution, TLAPS

RunShape(rec) ==
    /\ rec.turn = 0 <=> rec.phase = "NONE"
    /\ rec.phase \in {"NONE", "PREPARING", "CALL_ACTIVE"} =>
          rec.resp = NoResponse /\ rec.sealed = FALSE
    /\ rec.phase \in {"NONE", "PREPARING"} => rec.gen = 0

RunInv ==
    \A r \in RunIds :
        /\ RunShape(run[r])
        /\ run[r].state \in {"ABSENT", "CREATED"} => run[r].turn = 0
        /\ run[r].state = "SUSPENDED" => run[r].sealed
        /\ run[r].phase \in {"CALL_ACTIVE", "RESPONSE_AVAILABLE", "ACCEPTED"} =>
              custody[Selected(r)].state \in {"NEVER_STARTED", "STARTED"}
        /\ run[r].state = "ACTIVE" /\ run[r].phase = "CALL_ACTIVE" =>
              custody[Selected(r)].emitted = chain[r].head
        /\ run[r].resp # NoResponse => custody[Selected(r)].resp = run[r].resp

CustodyInv ==
    /\ \A a \in Attempts :
          /\ custody[a].state # "NONE" =>
                /\ a.turn <= run[a.run].turn
                /\ a.turn = run[a.run].turn =>
                      run[a.run].phase # "PREPARING" /\ a.gen <= run[a.run].gen
                /\ custody[a].emitted <= chain[a.run].head
                /\ custody[a].emitted = chain[a.run].head => a = Selected(a.run)
          /\ custody[a].state # "STARTED" =>
                custody[a].resp = NoResponse /\ requests[a] = 0
          /\ requests[a] <= 1
          /\ custody[a].resp # NoResponse => custody[a].resp \in answers[a]
    /\ \A a, b \in Attempts :
          SameTurn(a, b) /\ a.gen < b.gen /\ custody[b].state # "NONE" =>
              custody[a].state = "FENCED_OUT"

InvocationInv ==
    /\ \A i \in invs :
          /\ custody[i.att].state # "NONE"
          /\ custody[i.att].emitted = i.head
          /\ i.phase = "emitted" => custody[i.att].state # "STARTED"
          /\ i.phase # "emitted" => custody[i.att].state = "STARTED"
          /\ i.phase = "started" => requests[i.att] = 0
          /\ i.phase \in {"started", "sent", "answered"} =>
                custody[i.att].resp = NoResponse
          /\ i.phase \in {"answered", "retained"} => i.resp \in answers[i.att]
          /\ i.phase = "retained" =>
                i.resp \in Retainable /\ custody[i.att].resp = i.resp
    /\ \A i, j \in invs : i.att = j.att => i = j

\* The batch is what its operation computes from the selected record.
Derived(b) ==
    LET rec == run[b.run] IN
    \/ b.op = "create" /\ CanCreate(rec) /\ b.next = Created(rec, b.by)
    \/ b.op = "begin" /\ CanBegin(rec) /\ b.next = Begun(rec)
    \/ b.op = "emit" /\ CanEmit(rec, b.by) /\ b.next = Emitted(rec)
    \/ /\ b.op \in {"capture", "recover"}
       /\ CanCapture(rec)
       /\ custody[Selected(b.run)].resp # NoResponse
       /\ b.next = Captured(rec, custody[Selected(b.run)].resp)
    \/ b.op = "seal" /\ CanSeal(rec) /\ b.next = Sealed(rec)
    \/ b.op = "continue" /\ CanContinue(rec) /\ b.next = Continued(rec)
    \/ b.op = "replace" /\ CanReplace(rec) /\ b.next = Replaced(rec, b.by)
    \/ b.op = "suspend" /\ CanSuspend(rec) /\ b.next = Suspended(rec)
    \/ b.op = "resume" /\ CanResume(rec, baseline[b.run]) /\ b.next = Resumed(rec, b.by)
    \/ b.op = "abort" /\ CanAbort(rec) /\ b.next = Aborted(rec)

ProposalInv ==
    \A b \in inflight :
        /\ b.expected <= head
        /\ b.expected = head =>
              /\ b.link = Advance(chain[b.run], Records(b.op))
              /\ Derived(b)

IInv == TypeOK /\ RunInv /\ CustodyInv /\ InvocationInv /\ ProposalInv
-----------------------------------------------------------------------------
\* The pure transitions of execution_client_transitions.py and its companions
\* return well-formed Run records.
LEMMA TransitionsAreTyped ==
    ASSUME NEW rec \in RunRecords, NEW p \in Runtimes
    PROVE  /\ Created(rec, p) \in RunRecords
           /\ CanBegin(rec) => Begun(rec) \in RunRecords
           /\ Emitted(rec) \in RunRecords
           /\ \A x \in Retainable : Captured(rec, x) \in RunRecords
           /\ Sealed(rec) \in RunRecords
           /\ CanContinue(rec) => Continued(rec) \in RunRecords
           /\ CanReplace(rec) => Replaced(rec, p) \in RunRecords
           /\ Suspended(rec) \in RunRecords
           /\ Resumed(rec, p) \in RunRecords
           /\ Aborted(rec) \in RunRecords
<1>a. 1 \in 0..MaxTurns /\ 0 \in 0..MaxModelRetries BY BoundsAssumption
<1> USE DEF RunRecords, RunStates, Phases, Sessions
<1>1. Created(rec, p) \in RunRecords BY Zenon DEF Created
<1>2. CanBegin(rec) => Begun(rec) \in RunRecords BY <1>a, Zenon DEF Begun, CanBegin
<1>3. Emitted(rec) \in RunRecords BY <1>a, Zenon DEF Emitted
<1>4. \A x \in Retainable : Captured(rec, x) \in RunRecords BY DEF Captured
<1>5. Sealed(rec) \in RunRecords BY Zenon DEF Sealed
<1>6. CanContinue(rec) => Continued(rec) \in RunRecords
    BY <1>a, BoundsAssumption DEF Continued, CanContinue
<1>7. CanReplace(rec) => Replaced(rec, p) \in RunRecords
    BY BoundsAssumption DEF Replaced, CanReplace
<1>8. Suspended(rec) \in RunRecords BY DEF Suspended
<1>9. Resumed(rec, p) \in RunRecords BY Zenon DEF Resumed
<1>10. Aborted(rec) \in RunRecords BY DEF Aborted
<1> QED BY <1>1, <1>2, <1>3, <1>4, <1>5, <1>6, <1>7, <1>8, <1>9, <1>10

\* Before any runtime is opened the inductive invariant holds.
LEMMA InitIInv == Init => IInv
<1> SUFFICES ASSUME Init PROVE IInv OBVIOUS
<1> USE DEF Init
<1>1. AbsentRun \in RunRecords
    BY BoundsAssumption DEF AbsentRun, RunRecords, RunStates, Phases
<1>2. WorkOf(AbsentRun) \in Work
    BY BoundsAssumption DEF AbsentRun, WorkOf, Work, Phases
<1>3. TypeOK
    BY <1>1, <1>2 DEF TypeOK, Links, CustodyRows, NoCustody
<1>4. RunInv BY DEF RunInv, RunShape, AbsentRun
<1>5. CustodyInv BY DEF CustodyInv, NoCustody
<1>6. InvocationInv BY DEF InvocationInv
<1>7. ProposalInv BY DEF ProposalInv
<1> QED BY <1>3, <1>4, <1>5, <1>6, <1>7 DEF IInv

\* A step that only ends coroutines, opens or kills a runtime, or adds one
\* batch computed from the selected record keeps the invariant.
LEMMA CallingStep ==
    ASSUME IInv,
           UNCHANGED <<head, run, chain, baseline, custody, requests, answers>>,
           worker' \in Runtimes \cup {NoWorker},
           opened' \subseteq Runtimes, crashed' \subseteq Runtimes,
           invs' \subseteq invs,
           \A b \in inflight' \ inflight :
              /\ b \in Proposals
              /\ b.expected = head
              /\ b.link = Advance(chain[b.run], Records(b.op))
              /\ Derived(b)
    PROVE  IInv'
<1>1. TypeOK'
  <2>1. inflight' \subseteq Proposals BY DEF IInv, TypeOK
  <2>2. invs' \subseteq Invocations BY DEF IInv, TypeOK
  <2> QED BY <2>1, <2>2 DEF IInv, TypeOK
<1>2. RunInv' BY DEF IInv, RunInv, Selected
<1>3. CustodyInv' BY DEF IInv, CustodyInv, Selected
<1>4. InvocationInv' BY DEF IInv, InvocationInv
<1>5. ProposalInv'
  <2> SUFFICES ASSUME NEW b \in inflight'
               PROVE  /\ b.expected <= head
                      /\ b.expected = head =>
                            /\ b.link = Advance(chain[b.run], Records(b.op))
                            /\ Derived(b)'
      BY DEF ProposalInv
  <2>1. Derived(b)' <=> Derived(b) BY SMTT(30) DEF Derived, Selected
  <2>2. CASE b \in inflight BY <2>1, <2>2 DEF IInv, ProposalInv
  <2>3. CASE b \notin inflight
    <3>1. head <= head BY DEF IInv, TypeOK
    <3> QED BY <2>1, <2>3, <3>1
  <2> QED BY <2>2, <2>3
<1> QED BY <1>1, <1>2, <1>3, <1>4, <1>5 DEF IInv

Batch(p, s, op, r, next) ==
    [by |-> p, slot |-> s, op |-> op, run |-> r, expected |-> head,
     link |-> Advance(chain[r], Records(op)), next |-> next]

\* The first half of any operation, given that its batch is derived from the
\* selected record, keeps the invariant.
LEMMA ProposeStep ==
    ASSUME IInv, NEW p \in Runtimes, NEW s \in Slots, NEW op \in Operations,
           NEW r \in RunIds, NEW next \in RunRecords,
           Propose(p, s, op, r, next), Derived(Batch(p, s, op, r, next))
    PROVE  IInv'
<1> DEFINE b == Batch(p, s, op, r, next)
<1>1. Records(op) \in Nat BY DEF Records, Operations
<1>2. head \in Nat /\ chain[r] \in Links BY DEF IInv, TypeOK
<1>3. Advance(chain[r], Records(op)) \in Links BY <1>1, <1>2 DEF Advance, Links
<1>4. b \in Proposals BY <1>2, <1>3 DEF Batch, Proposals
<1>5. /\ b.expected = head
      /\ b.link = Advance(chain[b.run], Records(b.op)) BY DEF Batch
<1>6. inflight' = inflight \cup {b} BY DEF Propose, Batch
<1>7. UNCHANGED <<head, run, chain, baseline, custody, requests, answers,
                  worker, opened, crashed, invs>> BY DEF Propose
<1>8. /\ worker \in Runtimes \cup {NoWorker}
      /\ opened \subseteq Runtimes /\ crashed \subseteq Runtimes
    BY DEF IInv, TypeOK
<1> HIDE DEF b
<1>9. Derived(b) BY DEF b
<1>10. \A c \in inflight' \ inflight : c = b BY <1>6
<1> QED BY <1>4, <1>5, <1>7, <1>8, <1>9, <1>10, CallingStep

\* Every operation that reads a snapshot and computes a batch (create_execution
\* to abort_execution) keeps the invariant.
LEMMA OperationStep ==
    ASSUME IInv, NEW p \in Runtimes, NEW r \in RunIds, Operation(p, r)
    PROVE  IInv'
<1>1. run[r] \in RunRecords BY DEF IInv, TypeOK
<1> DEFINE rec == run[r]
<1>t. /\ Created(rec, p) \in RunRecords
      /\ CanBegin(rec) => Begun(rec) \in RunRecords
      /\ Emitted(rec) \in RunRecords
      /\ \A x \in Retainable : Captured(rec, x) \in RunRecords
      /\ Sealed(rec) \in RunRecords
      /\ CanContinue(rec) => Continued(rec) \in RunRecords
      /\ CanReplace(rec) => Replaced(rec, p) \in RunRecords
      /\ Suspended(rec) \in RunRecords
      /\ Resumed(rec, p) \in RunRecords
      /\ Aborted(rec) \in RunRecords
    BY <1>1, TransitionsAreTyped
<1> USE DEF Slots, Operations
<1>2. CASE create_execution(p, r)
  <2>1. Derived(Batch(p, "lane", "create", r, Created(rec, p)))
      BY <1>2, Zenon DEF create_execution, Derived, Batch
  <2> QED BY <1>2, <1>t, <2>1, ProposeStep DEF create_execution
<1>3. CASE begin_execution(p, r)
  <2>1. Derived(Batch(p, "lane", "begin", r, Begun(rec)))
      BY <1>3, Zenon DEF begin_execution, Derived, Batch
  <2> QED BY <1>3, <1>t, <2>1, ProposeStep DEF begin_execution
<1>4. CASE capture_execution(p, r)
  <2>1. Derived(Batch(p, "lane", "emit", r, Emitted(rec)))
      BY <1>4, Zenon DEF capture_execution, Derived, Batch
  <2> QED BY <1>4, <1>t, <2>1, ProposeStep DEF capture_execution
<1>5. CASE seal_execution(p, r)
  <2>1. Derived(Batch(p, "lane", "seal", r, Sealed(rec)))
      BY <1>5, Zenon DEF seal_execution, Derived, Batch
  <2> QED BY <1>5, <1>t, <2>1, ProposeStep DEF seal_execution
<1>6. CASE continue_execution(p, r)
  <2>1. Derived(Batch(p, "lane", "continue", r, Continued(rec)))
      BY <1>6, Zenon DEF continue_execution, Derived, Batch
  <2> QED BY <1>6, <1>t, <2>1, ProposeStep DEF continue_execution
<1>7. CASE recover_model_response(p, r)
  <2> DEFINE x == custody[Selected(r)].resp
  <2>1. Derived(Batch(p, "lane", "recover", r, Captured(rec, x)))
      BY <1>7, Zenon DEF recover_model_response, Derived, Batch, Selected
  <2>2. RunShape(rec) BY DEF IInv, RunInv
  <2>3. Selected(r) \in Attempts
      BY <1>1, <1>7, <2>2, BoundsAssumption
      DEF recover_model_response, CanCapture, RunShape, Selected, Attempts, RunRecords
  <2>4. x \in Retainable \cup {NoResponse} BY <2>3 DEF IInv, TypeOK, CustodyRows
  <2>5. x \in Retainable BY <1>7, <2>4 DEF recover_model_response
  <2> QED BY <1>7, <1>t, <2>1, <2>5, ProposeStep DEF recover_model_response
<1>8. CASE replace_unstarted_model_attempt(p, r)
  <2>1. Derived(Batch(p, "lane", "replace", r, Replaced(rec, p)))
      BY <1>8, Zenon DEF replace_unstarted_model_attempt, Derived, Batch
  <2> QED BY <1>8, <1>t, <2>1, ProposeStep DEF replace_unstarted_model_attempt
<1>9. CASE suspend_execution(p, r)
  <2>1. Derived(Batch(p, "side", "suspend", r, Suspended(rec)))
      BY <1>9, Zenon DEF suspend_execution, Derived, Batch
  <2> QED BY <1>9, <1>t, <2>1, ProposeStep DEF suspend_execution
<1>10. CASE resume_execution(p, r)
  <2>1. Derived(Batch(p, "side", "resume", r, Resumed(rec, p)))
      BY <1>10, Zenon DEF resume_execution, Derived, Batch
  <2> QED BY <1>10, <1>t, <2>1, ProposeStep DEF resume_execution
<1>11. CASE abort_execution(p, r)
  <2>1. Derived(Batch(p, "side", "abort", r, Aborted(rec)))
      BY <1>11, Zenon DEF abort_execution, Derived, Batch
  <2> QED BY <1>11, <1>t, <2>1, ProposeStep DEF abort_execution
<1> QED
    BY <1>2, <1>3, <1>4, <1>5, <1>6, <1>7, <1>8, <1>9, <1>10, <1>11 DEF Operation

Attempted == {"CALL_ACTIVE", "RESPONSE_AVAILABLE", "ACCEPTED"}

\* A Run that has emitted, captured or sealed has a selected attempt.
LEMMA SelectedAttempt ==
    ASSUME IInv, NEW r \in RunIds
    PROVE  /\ run[r].phase \in Attempted => Selected(r) \in Attempts
           /\ run[r].resp # NoResponse => run[r].phase \in Attempted
<1>1. run[r] \in RunRecords /\ RunShape(run[r]) BY DEF IInv, TypeOK, RunInv
<1>2. run[r].phase \in Attempted => Selected(r) \in Attempts
    BY <1>1, BoundsAssumption DEF RunShape, Selected, Attempts, RunRecords, Attempted
<1>3. run[r].resp # NoResponse => run[r].phase \in Attempted
    BY <1>1 DEF RunShape, RunRecords, Phases, Attempted
<1> QED BY <1>2, <1>3

\* Batches waiting for publication are untouched by a step of an invocation:
\* it moves neither the head nor a Run, and a retained response is kept.
LEMMA ProposalsStand ==
    ASSUME IInv, UNCHANGED <<head, run, chain, baseline, inflight>>,
           \A a \in Attempts :
              custody[a].resp # NoResponse => custody'[a].resp = custody[a].resp
    PROVE  ProposalInv'
<1> SUFFICES ASSUME NEW b \in inflight, b.expected = head, Derived(b)
             PROVE  Derived(b)'
    BY DEF IInv, ProposalInv
<1>1. b.run \in RunIds BY DEF IInv, TypeOK, Proposals
<1>2. CASE b.op \in {"capture", "recover"}
  <2>1. /\ CanCapture(run[b.run])
        /\ custody[Selected(b.run)].resp # NoResponse
        /\ b.next = Captured(run[b.run], custody[Selected(b.run)].resp)
      BY <1>2 DEF Derived
  <2>2. Selected(b.run) \in Attempts
      BY <1>1, <2>1, SelectedAttempt DEF CanCapture, Attempted
  <2>3. Selected(b.run)' = Selected(b.run) BY DEF Selected
  <2>4. custody'[Selected(b.run)].resp = custody[Selected(b.run)].resp
      BY <2>1, <2>2
  <2> QED BY <1>2, <2>1, <2>3, <2>4 DEF Derived
<1>3. CASE b.op \notin {"capture", "recover"} BY <1>3, SMTT(30) DEF Derived
<1> QED BY <1>2, <1>3

\* custody.start keeps the invariant: the permit turns exactly one row STARTED.
LEMMA StartStep ==
    ASSUME IInv, NEW i \in invs, start(i)
    PROVE  IInv'
<1> DEFINE j == [i EXCEPT !.phase = "started", !.resp = NoResponse]
<1>1. i \in Invocations BY DEF IInv, TypeOK
<1>2. j \in Invocations BY <1>1, Zenon DEF Invocations
<1>3. invs' = (invs \ {i}) \cup {j} BY DEF start, Moved
<1>4. j.att = i.att /\ j.phase = "started" /\ j.head = i.head BY <1>1 DEF Invocations
<1>5. i.att \in Attempts BY <1>1 DEF Invocations
<1>6. /\ \A a \in Attempts \ {i.att} : custody'[a] = custody[a]
      /\ custody[i.att].state = "NEVER_STARTED"
      /\ custody'[i.att].state = "STARTED"
      /\ custody'[i.att].emitted = custody[i.att].emitted
      /\ custody'[i.att].resp = custody[i.att].resp
      /\ custody' \in [Attempts -> CustodyRows]
  <2>1. custody \in [Attempts -> CustodyRows] BY DEF IInv, TypeOK
  <2>2. custody[i.att] \in CustodyRows BY <1>5, <2>1
  <2> DEFINE row == [custody[i.att] EXCEPT !.state = "STARTED"]
  <2>3. /\ row \in CustodyRows
        /\ row.state = "STARTED"
        /\ row.emitted = custody[i.att].emitted
        /\ row.resp = custody[i.att].resp BY <2>2 DEF CustodyRows
  <2>4. custody' = [custody EXCEPT ![i.att] = row] BY DEF start
  <2> HIDE DEF row
  <2>5. custody[i.att].state = "NEVER_STARTED" BY DEF start
  <2> QED BY <1>5, <2>1, <2>3, <2>4, <2>5
<1>7. UNCHANGED <<worker, opened, crashed, head, run, chain, baseline, inflight,
                  requests, answers>> BY DEF start
<1> HIDE DEF j
<1>8. TypeOK' BY <1>2, <1>3, <1>6, <1>7 DEF IInv, TypeOK
<1>s. \A r \in RunIds :
         /\ run[r].phase \in Attempted => Selected(r) \in Attempts
         /\ run[r].resp # NoResponse => run[r].phase \in Attempted
    BY SelectedAttempt
<1>9. RunInv'
  <2> SUFFICES ASSUME NEW r \in RunIds
               PROVE  /\ RunShape(run[r])
                      /\ run[r].state \in {"ABSENT", "CREATED"} => run[r].turn = 0
                      /\ run[r].state = "SUSPENDED" => run[r].sealed
                      /\ run[r].phase \in {"CALL_ACTIVE", "RESPONSE_AVAILABLE", "ACCEPTED"} =>
                            custody'[Selected(r)].state \in {"NEVER_STARTED", "STARTED"}
                      /\ run[r].state = "ACTIVE" /\ run[r].phase = "CALL_ACTIVE" =>
                            custody'[Selected(r)].emitted = chain[r].head
                      /\ run[r].resp # NoResponse =>
                            custody'[Selected(r)].resp = run[r].resp
      BY <1>7 DEF RunInv, Selected
  <2> QED BY <1>6, <1>s DEF IInv, RunInv, Attempted
<1>10. CustodyInv'
  <2>1. \A a \in Attempts :
           /\ custody'[a].state # "NONE" => custody[a].state # "NONE"
           /\ custody'[a].resp = custody[a].resp
           /\ custody'[a].emitted = custody[a].emitted
           /\ custody[a].state = "STARTED" => custody'[a].state = "STARTED"
           /\ custody[a].state = "FENCED_OUT" => custody'[a].state = "FENCED_OUT"
      BY <1>6
  <2> QED BY <2>1, <1>7 DEF IInv, CustodyInv, SameTurn, Selected
<1>11. InvocationInv'
  <2>1. \A k \in invs' \ {j} : k \in invs /\ k.att # i.att
      BY <1>3, <1>4 DEF IInv, InvocationInv
  <2>2. \A k \in invs : k.att \in Attempts BY DEF IInv, TypeOK, Invocations
  <2>3. requests[i.att] = 0 /\ custody[i.att].resp = NoResponse
      BY <1>5, <1>6 DEF IInv, CustodyInv
  <2>4. custody[i.att].emitted = i.head BY DEF IInv, InvocationInv
  <2> QED BY <2>1, <2>2, <2>3, <2>4, <1>3, <1>4, <1>6, <1>7 DEF IInv, InvocationInv
<1>12. ProposalInv'
  <2>1. \A a \in Attempts : custody'[a].resp = custody[a].resp BY <1>6
  <2> QED BY <1>7, <2>1, ProposalsStand
<1> QED BY <1>8, <1>9, <1>10, <1>11, <1>12 DEF IInv

\* The request of a started attempt is its first one.
LEMMA TransmitStep ==
    ASSUME IInv, NEW i \in invs, transmit(i)
    PROVE  IInv'
<1> DEFINE j == [i EXCEPT !.phase = "sent", !.resp = NoResponse]
<1>1. i \in Invocations BY DEF IInv, TypeOK
<1>2. j \in Invocations BY <1>1, Zenon DEF Invocations
<1>3. invs' = (invs \ {i}) \cup {j} BY DEF transmit, Moved
<1>4. j.att = i.att /\ j.phase = "sent" /\ j.head = i.head BY <1>1 DEF Invocations
<1>5. i.att \in Attempts BY <1>1 DEF Invocations
<1>6. custody[i.att].state = "STARTED" /\ requests[i.att] = 0
    BY DEF IInv, InvocationInv, transmit
<1>7. /\ requests' \in [Attempts -> Nat]
      /\ requests'[i.att] = 1
      /\ \A a \in Attempts \ {i.att} : requests'[a] = requests[a]
    BY <1>5, <1>6 DEF IInv, TypeOK, transmit
<1>8. UNCHANGED <<worker, opened, crashed, head, run, chain, baseline, custody,
                  inflight, answers>> BY DEF transmit
<1> HIDE DEF j
<1>9. TypeOK' BY <1>2, <1>3, <1>7, <1>8 DEF IInv, TypeOK
<1>10. RunInv' BY <1>8 DEF IInv, RunInv, Selected
<1>11. CustodyInv' BY <1>6, <1>7, <1>8 DEF IInv, CustodyInv, Selected
<1>12. InvocationInv'
  <2>1. \A k \in invs' \ {j} : k \in invs /\ k.att # i.att
      BY <1>3, <1>4 DEF IInv, InvocationInv
  <2>2. \A k \in invs : k.att \in Attempts BY DEF IInv, TypeOK, Invocations
  <2>3. custody[i.att].emitted = i.head /\ custody[i.att].resp = NoResponse
      BY DEF IInv, InvocationInv, transmit
  <2> QED BY <2>1, <2>2, <2>3, <1>3, <1>4, <1>6, <1>7, <1>8, SMTT(30) DEF IInv, InvocationInv
<1>13. ProposalInv' BY <1>8, ProposalsStand
<1> QED BY <1>9, <1>10, <1>11, <1>12, <1>13 DEF IInv

\* A completed response of the provider is recorded for its attempt only.
LEMMA AnswerStep ==
    ASSUME IInv, NEW i \in invs, answer(i)
    PROVE  IInv'
<1> PICK x \in Responses :
        /\ answers' = [answers EXCEPT ![i.att] = @ \cup {x}]
        /\ invs' = Moved(i, "answered", x)
    BY Zenon DEF answer
<1> DEFINE j == [i EXCEPT !.phase = "answered", !.resp = x]
<1>1. i \in Invocations BY DEF IInv, TypeOK
<1>2. j \in Invocations BY <1>1, Zenon DEF Invocations
<1>3. invs' = (invs \ {i}) \cup {j} BY DEF Moved
<1>4. j.att = i.att /\ j.phase = "answered" /\ j.head = i.head /\ j.resp = x
    BY <1>1 DEF Invocations
<1>5. i.att \in Attempts BY <1>1 DEF Invocations
<1>6. /\ answers' \in [Attempts -> SUBSET Responses]
      /\ x \in answers'[i.att]
      /\ \A a \in Attempts : answers[a] \subseteq answers'[a]
    BY <1>5 DEF IInv, TypeOK
<1>7. UNCHANGED <<worker, opened, crashed, head, run, chain, baseline, custody,
                  inflight, requests>> BY DEF answer
<1> HIDE DEF j
<1>8. TypeOK' BY <1>2, <1>3, <1>6, <1>7 DEF IInv, TypeOK
<1>9. RunInv' BY <1>7 DEF IInv, RunInv, Selected
<1>10. CustodyInv' BY <1>6, <1>7 DEF IInv, CustodyInv, Selected
<1>11. InvocationInv'
  <2>1. \A k \in invs' \ {j} : k \in invs /\ k.att # i.att
      BY <1>3, <1>4 DEF IInv, InvocationInv
  <2>2. \A k \in invs : k.att \in Attempts BY DEF IInv, TypeOK, Invocations
  <2>3. /\ custody[i.att].emitted = i.head /\ custody[i.att].resp = NoResponse
        /\ custody[i.att].state = "STARTED"
      BY DEF IInv, InvocationInv, answer
  <2> QED BY <2>1, <2>2, <2>3, <1>3, <1>4, <1>6, <1>7 DEF IInv, InvocationInv
<1>12. ProposalInv' BY <1>7, ProposalsStand
<1> QED BY <1>8, <1>9, <1>10, <1>11, <1>12 DEF IInv

\* custody.retain keeps the invariant, also in a runtime that has been fenced.
LEMMA RetainStep ==
    ASSUME IInv, NEW i \in invs, retain(i)
    PROVE  IInv'
<1> DEFINE j == [i EXCEPT !.phase = "retained", !.resp = i.resp]
<1>1. i \in Invocations BY DEF IInv, TypeOK
<1>2. j \in Invocations BY <1>1, Zenon DEF Invocations
<1>3. invs' = (invs \ {i}) \cup {j} BY DEF retain, Moved
<1>4. j.att = i.att /\ j.phase = "retained" /\ j.head = i.head /\ j.resp = i.resp
    BY <1>1 DEF Invocations
<1>5. i.att \in Attempts /\ i.resp \in Retainable BY <1>1 DEF Invocations, retain, RetainAdmits
<1>6. /\ custody[i.att].state = "STARTED" /\ custody[i.att].resp = NoResponse
      /\ i.resp \in answers[i.att] /\ custody[i.att].emitted = i.head
    BY DEF IInv, InvocationInv, retain
<1>7. /\ \A a \in Attempts \ {i.att} : custody'[a] = custody[a]
      /\ custody'[i.att].state = "STARTED"
      /\ custody'[i.att].emitted = custody[i.att].emitted
      /\ custody'[i.att].resp = i.resp
      /\ custody' \in [Attempts -> CustodyRows]
  <2>1. custody \in [Attempts -> CustodyRows] BY DEF IInv, TypeOK
  <2>2. custody[i.att] \in CustodyRows BY <1>5, <2>1
  <2> DEFINE row == [custody[i.att] EXCEPT !.resp = i.resp]
  <2>3. /\ row \in CustodyRows
        /\ row.state = "STARTED"
        /\ row.emitted = custody[i.att].emitted
        /\ row.resp = i.resp BY <1>5, <1>6, <2>2 DEF CustodyRows
  <2>4. custody' = [custody EXCEPT ![i.att] = row] BY DEF retain
  <2> HIDE DEF row
  <2> QED BY <1>5, <2>1, <2>3, <2>4
<1>8. UNCHANGED <<worker, opened, crashed, head, run, chain, baseline, inflight,
                  requests, answers>> BY DEF retain
<1>s. \A r \in RunIds :
         /\ run[r].phase \in Attempted => Selected(r) \in Attempts
         /\ run[r].resp # NoResponse => run[r].phase \in Attempted
    BY SelectedAttempt
<1> HIDE DEF j
<1>9. TypeOK' BY <1>2, <1>3, <1>7, <1>8 DEF IInv, TypeOK
<1>10. RunInv'
  <2> SUFFICES ASSUME NEW r \in RunIds
               PROVE  /\ RunShape(run[r])
                      /\ run[r].state \in {"ABSENT", "CREATED"} => run[r].turn = 0
                      /\ run[r].state = "SUSPENDED" => run[r].sealed
                      /\ run[r].phase \in {"CALL_ACTIVE", "RESPONSE_AVAILABLE", "ACCEPTED"} =>
                            custody'[Selected(r)].state \in {"NEVER_STARTED", "STARTED"}
                      /\ run[r].state = "ACTIVE" /\ run[r].phase = "CALL_ACTIVE" =>
                            custody'[Selected(r)].emitted = chain[r].head
                      /\ run[r].resp # NoResponse =>
                            custody'[Selected(r)].resp = run[r].resp
      BY <1>8 DEF RunInv, Selected
  <2> QED BY <1>6, <1>7, <1>s DEF IInv, RunInv, Attempted
<1>11. CustodyInv'
  <2>1. \A a \in Attempts : /\ custody'[a].state = custody[a].state
                             /\ custody'[a].emitted = custody[a].emitted
      BY <1>6, <1>7
  <2> QED BY <2>1, <1>6, <1>7, <1>8 DEF IInv, CustodyInv, SameTurn, Selected
<1>12. InvocationInv'
  <2>1. \A k \in invs' \ {j} : k \in invs /\ k.att # i.att
      BY <1>3, <1>4 DEF IInv, InvocationInv
  <2>2. \A k \in invs : k.att \in Attempts BY DEF IInv, TypeOK, Invocations
  <2>3. InvocationInv BY DEF IInv
  <2> QED
      BY <2>1, <2>2, <2>3, <1>3, <1>4, <1>5, <1>6, <1>7, <1>8, SMTT(30) DEF InvocationInv
<1>13. ProposalInv'
  <2>1. \A a \in Attempts :
           custody[a].resp # NoResponse => custody'[a].resp = custody[a].resp
      BY <1>6, <1>7
  <2> QED BY <1>8, <2>1, ProposalsStand
<1> QED BY <1>9, <1>10, <1>11, <1>12, <1>13 DEF IInv

\* The capture batch computed after the await is derived from the emission that
\* is still selected, because no later record of the Run is.
LEMMA ProposeCaptureStep ==
    ASSUME IInv, NEW i \in invs, propose_capture(i)
    PROVE  IInv'
<1> DEFINE r == i.att.run
           op == IF i.att.gen = 0 THEN "capture" ELSE "recover"
           b == Batch(i.by, "lane", op, r, Captured(run[r], i.resp))
<1>1. i \in Invocations BY DEF IInv, TypeOK
<1>2. i.by \in Runtimes /\ i.att \in Attempts /\ r \in RunIds
    BY <1>1 DEF Invocations, Attempts
<1>3. /\ custody[i.att].state # "NONE" /\ custody[i.att].emitted = i.head
      /\ i.resp \in Retainable /\ custody[i.att].resp = i.resp
    BY DEF IInv, InvocationInv, propose_capture
<1>4. i.att = Selected(r)
    BY <1>2, <1>3 DEF IInv, CustodyInv, propose_capture, CaptureAdmits
<1>5. Captured(run[r], i.resp) \in RunRecords
    BY <1>2, <1>3, TransitionsAreTyped, Zenon DEF IInv, TypeOK
<1>6. head \in Nat /\ chain[r] \in Links BY <1>2 DEF IInv, TypeOK
<1>7. Records(op) = 1 /\ op \in Operations BY DEF Records, Operations
<1>8. Advance(chain[r], 1) \in Links BY <1>6, SMTT(30) DEF Advance, Links
<1>9. b \in Proposals BY <1>2, <1>5, <1>6, <1>7, <1>8, Zenon DEF Batch, Proposals, Slots
<1>10. /\ b.expected = head
       /\ b.link = Advance(chain[b.run], Records(b.op)) BY DEF Batch
<1>11. NoResponse \notin Retainable BY NamesAssumption DEF Responses
<1>12. Derived(b)
  <2>1. b.op \in {"capture", "recover"} /\ b.run = r /\ b.next = Captured(run[r], i.resp)
      BY DEF Batch
  <2>2. CanCapture(run[r]) BY DEF propose_capture, CaptureAdmits
  <2>3. custody[Selected(r)].resp = i.resp /\ i.resp # NoResponse BY <1>3, <1>4, <1>11
  <2> HIDE DEF b
  <2> QED BY <2>1, <2>2, <2>3, Zenon DEF Derived
<1>13. inflight' = inflight \cup {b} BY <1>7 DEF propose_capture, Batch
<1>14. /\ UNCHANGED <<head, run, chain, baseline, custody, requests, answers,
                      worker, opened, crashed>>
       /\ invs' \subseteq invs BY DEF propose_capture
<1>15. /\ worker \in Runtimes \cup {NoWorker}
       /\ opened \subseteq Runtimes /\ crashed \subseteq Runtimes
    BY DEF IInv, TypeOK
<1> HIDE DEF b
<1>16. \A c \in inflight' \ inflight : c = b BY <1>13
<1> QED BY <1>9, <1>10, <1>12, <1>14, <1>15, <1>16, CallingStep
===============================================================================
