------------------------- MODULE ModelExecutionProofs -------------------------
(***************************************************************************)
(* The theorems about ModelExecution.  publish_execution_batch keeps the   *)
(* invariant of ModelExecutionInvariant: one lemma for the batches that    *)
(* only move a Run, one for the two that also register a model attempt     *)
(* (emission and replacement).  So the invariant is inductive, and the     *)
(* safety and action properties that the model-checking runs check on a    *)
(* small instance follow from it for any constants.                        *)
(***************************************************************************)
EXTENDS ModelExecutionInvariant

\* What a batch that is neither an emission nor a replacement does to its Run.
LEMMA PlainBatch ==
    ASSUME IInv, NEW b \in inflight, b.run \in RunIds, Derived(b),
           b.op \notin {"emit", "replace"}
    PROVE  /\ RunShape(b.next)
           /\ b.next.state \in {"ABSENT", "CREATED"} => b.next.turn = 0
           /\ b.next.state = "SUSPENDED" => b.next.sealed
           /\ ~(b.next.state = "ACTIVE" /\ b.next.phase = "CALL_ACTIVE")
           /\ b.next.resp # NoResponse => custody[Selected(b.run)].resp = b.next.resp
           /\ \/ /\ b.next.turn = run[b.run].turn
                 /\ b.next.gen = run[b.run].gen
                 /\ b.next.phase \in Attempted <=> run[b.run].phase \in Attempted
                 /\ b.next.phase = "PREPARING" => run[b.run].phase = "PREPARING"
              \/ /\ b.next.turn = run[b.run].turn + 1
                 /\ b.next.phase = "PREPARING"
                 /\ b.next.resp = NoResponse
<1> DEFINE rec == run[b.run]
<1>1. rec \in RunRecords BY DEF IInv, TypeOK
<1>2. /\ RunShape(rec)
      /\ rec.state \in {"ABSENT", "CREATED"} => rec.turn = 0
      /\ rec.state = "SUSPENDED" => rec.sealed
      /\ rec.resp # NoResponse => custody[Selected(b.run)].resp = rec.resp
    BY DEF IInv, RunInv
<1> HIDE DEF rec
<1> USE DEF RunRecords, RunShape, Attempted
<1>3. CASE b.op = "create"
  <2>1. CanCreate(rec) /\ b.next = Created(rec, b.by)
      BY <1>3 DEF Derived, rec
  <2> QED BY <1>1, <1>2, <2>1 DEF CanCreate, Created, rec
<1>4. CASE b.op = "begin"
  <2>1. CanBegin(rec) /\ b.next = Begun(rec) BY <1>4 DEF Derived, rec
  <2>2. /\ b.next.state = "ACTIVE" /\ b.next.turn = 1 /\ b.next.phase = "PREPARING"
        /\ b.next.gen = rec.gen /\ b.next.resp = rec.resp /\ b.next.sealed = rec.sealed
      BY <1>1, <2>1 DEF Begun
  <2>3. rec.turn = 0 /\ rec.phase = "NONE" BY <1>2, <2>1 DEF CanBegin
  <2> QED BY <1>2, <2>2, <2>3 DEF rec
<1>5. CASE b.op \in {"capture", "recover"}
  <2>1. CanCapture(rec) /\ b.next = Captured(rec, custody[Selected(b.run)].resp)
      BY <1>5 DEF Derived, rec
  <2> QED BY <1>1, <1>2, <2>1 DEF CanCapture, Captured, rec
<1>6. CASE b.op = "seal"
  <2>1. CanSeal(rec) /\ b.next = Sealed(rec)
      BY <1>6 DEF Derived, rec
  <2> QED BY <1>1, <1>2, <2>1 DEF CanSeal, Sealed, rec
<1>7. CASE b.op = "continue"
  <2>1. CanContinue(rec) /\ b.next = Continued(rec)
      BY <1>7 DEF Derived, rec
  <2> QED BY <1>1, <1>2, <2>1 DEF CanContinue, Continued, rec
<1>8. CASE b.op = "suspend"
  <2>1. CanSuspend(rec) /\ b.next = Suspended(rec)
      BY <1>8 DEF Derived, rec
  <2> QED BY <1>1, <1>2, <2>1 DEF CanSuspend, Suspended, rec
<1>9. CASE b.op = "resume"
  <2>1. CanResume(rec, baseline[b.run]) /\ b.next = Resumed(rec, b.by)
      BY <1>9 DEF Derived, rec
  <2> QED BY <1>1, <1>2, <2>1 DEF CanResume, Resumed, rec
<1>10. CASE b.op = "abort"
  <2>1. CanAbort(rec) /\ b.next = Aborted(rec)
      BY <1>10 DEF Derived, rec
  <2> QED BY <1>1, <1>2, <2>1 DEF CanAbort, Aborted, rec
<1>11. b.op \in {"create", "begin", "capture", "recover", "seal", "continue",
                 "suspend", "resume", "abort"}
    BY DEF Derived
<1> QED BY <1>3, <1>4, <1>5, <1>6, <1>7, <1>8, <1>9, <1>10, <1>11, Zenon

\* Publishing a batch without a custody stage keeps the invariant.
LEMMA PublishPlain ==
    ASSUME IInv, NEW b \in inflight, publish_execution_batch(b),
           b.op \notin {"emit", "replace"},
           b \in Proposals, Derived(b), chain[b.run].head < b.link.head
    PROVE  RunInv' /\ CustodyInv' /\ InvocationInv'
<1>1. b.run \in RunIds BY DEF Proposals
<1>2. /\ run'[b.run] = b.next /\ \A r \in RunIds \ {b.run} : run'[r] = run[r]
      /\ chain'[b.run] = b.link /\ \A r \in RunIds \ {b.run} : chain'[r] = chain[r]
    BY <1>1 DEF IInv, TypeOK, publish_execution_batch
<1>3. UNCHANGED <<custody, requests, answers, invs>>
    BY DEF publish_execution_batch, Staged
<1>4. /\ RunShape(b.next)
      /\ b.next.state \in {"ABSENT", "CREATED"} => b.next.turn = 0
      /\ b.next.state = "SUSPENDED" => b.next.sealed
      /\ ~(b.next.state = "ACTIVE" /\ b.next.phase = "CALL_ACTIVE")
      /\ b.next.resp # NoResponse => custody[Selected(b.run)].resp = b.next.resp
      /\ \/ /\ b.next.turn = run[b.run].turn
            /\ b.next.gen = run[b.run].gen
            /\ b.next.phase \in Attempted <=> run[b.run].phase \in Attempted
            /\ b.next.phase = "PREPARING" => run[b.run].phase = "PREPARING"
         \/ /\ b.next.turn = run[b.run].turn + 1
            /\ b.next.phase = "PREPARING"
            /\ b.next.resp = NoResponse
    BY <1>1, PlainBatch
<1>5. RunInv'
  <2> SUFFICES ASSUME NEW r \in RunIds
               PROVE  /\ RunShape(run'[r])
                      /\ run'[r].state \in {"ABSENT", "CREATED"} => run'[r].turn = 0
                      /\ run'[r].state = "SUSPENDED" => run'[r].sealed
                      /\ run'[r].phase \in Attempted =>
                            custody[Selected(r)'].state \in {"NEVER_STARTED", "STARTED"}
                      /\ run'[r].state = "ACTIVE" /\ run'[r].phase = "CALL_ACTIVE" =>
                            custody[Selected(r)'].emitted = chain'[r].head
                      /\ run'[r].resp # NoResponse =>
                            custody[Selected(r)'].resp = run'[r].resp
      BY <1>3 DEF RunInv, Attempted
  <2>1. CASE r # b.run
    <3>1. run'[r] = run[r] /\ chain'[r] = chain[r] /\ Selected(r)' = Selected(r)
        BY <1>2, <2>1 DEF Selected
    <3> QED BY <3>1 DEF IInv, RunInv, Attempted
  <2>2. CASE r = b.run
    <3>1. run'[r] = b.next BY <1>2, <2>2
    <3>2. CASE b.next.turn = run[r].turn /\ b.next.gen = run[r].gen
      <4>1. Selected(r)' = Selected(r) BY <3>1, <3>2 DEF Selected
      <4>2. b.next.phase \in Attempted => run[r].phase \in Attempted
          BY <1>4, <2>2 DEF Attempted
      <4> QED BY <1>4, <2>2, <3>1, <4>1, <4>2 DEF IInv, RunInv, Attempted
    <3>3. CASE b.next.phase = "PREPARING" /\ b.next.resp = NoResponse
      BY <1>4, <2>2, <3>1, <3>3 DEF Attempted
    <3> QED BY <1>4, <2>2, <3>2, <3>3
  <2> QED BY <2>1, <2>2
<1>6. CustodyInv'
  <2>1. \A a \in Attempts : custody[a].state # "NONE" =>
                /\ a.turn <= run'[a.run].turn
                /\ a.turn = run'[a.run].turn =>
                      run'[a.run].phase # "PREPARING" /\ a.gen <= run'[a.run].gen
                /\ custody[a].emitted <= chain'[a.run].head
                /\ custody[a].emitted = chain'[a.run].head => a = Selected(a.run)'
    <3> SUFFICES ASSUME NEW a \in Attempts, custody[a].state # "NONE"
                 PROVE  /\ a.turn <= run'[a.run].turn
                        /\ a.turn = run'[a.run].turn =>
                              run'[a.run].phase # "PREPARING" /\ a.gen <= run'[a.run].gen
                        /\ custody[a].emitted <= chain'[a.run].head
                        /\ custody[a].emitted = chain'[a.run].head => a = Selected(a.run)'
        OBVIOUS
    <3>1. /\ a.turn <= run[a.run].turn
          /\ a.turn = run[a.run].turn =>
                run[a.run].phase # "PREPARING" /\ a.gen <= run[a.run].gen
          /\ custody[a].emitted <= chain[a.run].head
          /\ custody[a].emitted = chain[a.run].head => a = Selected(a.run)
        BY DEF IInv, CustodyInv
    <3>2. a.run \in RunIds /\ a.turn \in Nat BY DEF Attempts
    <3>3. CASE a.run # b.run
      <4>1. run'[a.run] = run[a.run] /\ chain'[a.run] = chain[a.run]
          BY <1>2, <3>2, <3>3
      <4>2. Selected(a.run)' = Selected(a.run) BY <4>1 DEF Selected
      <4> QED BY <3>1, <4>1, <4>2
    <3>4. CASE a.run = b.run
      <4>1. run'[a.run] = b.next /\ chain'[a.run] = b.link BY <1>2, <3>4
      <4>2. custody[a].emitted < b.link.head
        <5>1. /\ custody[a].emitted \in Nat
              /\ chain[a.run].head \in Nat /\ b.link.head \in Nat
            BY <3>2 DEF IInv, TypeOK, CustodyRows, Links, Proposals
        <5> QED BY <3>1, <3>4, <5>1
      <4>3. custody[a].emitted \in Nat /\ b.link.head \in Nat
          BY DEF IInv, TypeOK, CustodyRows, Links, Proposals
      <4>4. run[a.run].turn \in Nat BY <3>2 DEF IInv, TypeOK, RunRecords
      <4> QED BY <1>4, <3>1, <3>2, <3>4, <4>1, <4>2, <4>3, <4>4
    <3> QED BY <3>3, <3>4
  <2> QED BY <2>1, <1>3 DEF IInv, CustodyInv
<1>7. InvocationInv' BY <1>3 DEF IInv, InvocationInv
<1> QED BY <1>5, <1>6, <1>7

\* Publication of an emitted attempt, first or replacing: the new custody row
\* is the only live one of its Turn.
LEMMA PublishEmission ==
    ASSUME IInv, NEW b \in inflight, publish_execution_batch(b),
           b.op \in {"emit", "replace"},
           b \in Proposals, chain[b.run].head < b.link.head,
           NEW a \in Attempts, a = AttemptOf(b), a.turn = run[b.run].turn,
           custody[a].state = "NONE",
           custody' \in [Attempts -> CustodyRows],
           custody'[a] = [state |-> "NEVER_STARTED", emitted |-> b.link.head,
                          resp |-> NoResponse],
           \A c \in Attempts \ {a} :
              \/ custody'[c] = custody[c]
              \/ /\ SameTurn(c, a) /\ custody[c].state = "NEVER_STARTED"
                 /\ custody'[c].state = "FENCED_OUT"
                 /\ custody'[c].emitted = custody[c].emitted
                 /\ custody'[c].resp = custody[c].resp,
           \A c \in Attempts :
              SameTurn(c, a) /\ c.gen < a.gen => custody'[c].state = "FENCED_OUT",
           \A c \in Attempts :
              SameTurn(c, a) /\ custody[c].state # "NONE" => c.gen < a.gen,
           RunShape(b.next), b.next.state = "ACTIVE", b.next.phase = "CALL_ACTIVE",
           b.next.resp = NoResponse
    PROVE  RunInv' /\ CustodyInv' /\ InvocationInv'
<1>1. b.run \in RunIds BY DEF Proposals
<1>2. /\ run'[b.run] = b.next /\ \A r \in RunIds \ {b.run} : run'[r] = run[r]
      /\ chain'[b.run] = b.link /\ \A r \in RunIds \ {b.run} : chain'[r] = chain[r]
    BY <1>1 DEF IInv, TypeOK, publish_execution_batch
<1>3. /\ UNCHANGED <<requests, answers>>
      /\ invs' = invs \cup {Invoking(b)}
    BY DEF publish_execution_batch
<1>4. a.run = b.run /\ a.turn = b.next.turn /\ a.gen = b.next.gen BY DEF AttemptOf
<1>5. Selected(b.run)' = a BY <1>2 DEF Selected, AttemptOf
<1>6. RunInv'
  <2> SUFFICES ASSUME NEW r \in RunIds
               PROVE  /\ RunShape(run'[r])
                      /\ run'[r].state \in {"ABSENT", "CREATED"} => run'[r].turn = 0
                      /\ run'[r].state = "SUSPENDED" => run'[r].sealed
                      /\ run'[r].phase \in Attempted =>
                            custody'[Selected(r)'].state \in {"NEVER_STARTED", "STARTED"}
                      /\ run'[r].state = "ACTIVE" /\ run'[r].phase = "CALL_ACTIVE" =>
                            custody'[Selected(r)'].emitted = chain'[r].head
                      /\ run'[r].resp # NoResponse =>
                            custody'[Selected(r)'].resp = run'[r].resp
      BY DEF RunInv, Attempted
  <2>1. CASE r # b.run
    <3>1. run'[r] = run[r] /\ chain'[r] = chain[r] /\ Selected(r)' = Selected(r)
        BY <1>2, <2>1 DEF Selected
    <3>2. run[r].phase \in Attempted => custody'[Selected(r)] = custody[Selected(r)]
      <4>1. Selected(r).run = r BY DEF Selected
      <4> QED BY <1>4, <2>1, <4>1, SelectedAttempt DEF SameTurn
    <3>3. run[r].resp # NoResponse => run[r].phase \in Attempted BY SelectedAttempt
    <3> QED BY <3>1, <3>2, <3>3, SMTT(30) DEF IInv, RunInv, Attempted
  <2>2. CASE r = b.run
      BY <1>2, <1>5, <2>2
  <2> QED BY <2>1, <2>2
<1>7. CustodyInv'
  <2>1. \A c \in Attempts :
           /\ c # a => /\ custody'[c].state = "NONE" <=> custody[c].state = "NONE"
                       /\ custody'[c].state = "STARTED" <=> custody[c].state = "STARTED"
                       /\ custody[c].state = "FENCED_OUT" => custody'[c].state = "FENCED_OUT"
           /\ c # a => /\ custody'[c].emitted = custody[c].emitted
                       /\ custody'[c].resp = custody[c].resp
      OBVIOUS
  <2>2. ASSUME NEW c \in Attempts, custody'[c].state # "NONE"
        PROVE  /\ c.turn <= run'[c.run].turn
               /\ c.turn = run'[c.run].turn =>
                     run'[c.run].phase # "PREPARING" /\ c.gen <= run'[c.run].gen
               /\ custody'[c].emitted <= chain'[c.run].head
               /\ custody'[c].emitted = chain'[c.run].head => c = Selected(c.run)'
    <3>1. c.run \in RunIds /\ c.turn \in Nat /\ c.gen \in Nat BY DEF Attempts
    <3>2. CASE c = a
      <4>1. b.link.head \in Nat BY DEF Proposals, Links
      <4> QED BY <1>2, <1>4, <1>5, <3>1, <3>2, <4>1
    <3>3. CASE c # a
      <4>1. /\ c.turn <= run[c.run].turn
            /\ c.turn = run[c.run].turn =>
                  run[c.run].phase # "PREPARING" /\ c.gen <= run[c.run].gen
            /\ custody[c].emitted <= chain[c.run].head
            /\ custody[c].emitted = chain[c.run].head => c = Selected(c.run)
          BY <2>1, <2>2, <3>3 DEF IInv, CustodyInv
      <4>2. custody'[c].emitted = custody[c].emitted /\ custody[c].state # "NONE"
          BY <2>1, <2>2, <3>3
      <4>3. CASE c.run # b.run
        <5>1. run'[c.run] = run[c.run] /\ chain'[c.run] = chain[c.run]
            BY <1>2, <3>1, <4>3
        <5>2. Selected(c.run)' = Selected(c.run) BY <5>1 DEF Selected
        <5> QED BY <4>1, <4>2, <5>1, <5>2
      <4>4. CASE c.run = b.run
        <5>1. run'[c.run] = b.next /\ chain'[c.run] = b.link BY <1>2, <4>4
        <5>2. /\ custody[c].emitted \in Nat
              /\ chain[c.run].head \in Nat /\ b.link.head \in Nat
            BY <3>1 DEF IInv, TypeOK, CustodyRows, Links, Proposals
        <5>3. custody[c].emitted < b.link.head BY <4>1, <4>4, <5>2
        <5>4. c.turn = b.next.turn => c.gen < a.gen
            BY <1>4, <4>2, <4>4 DEF SameTurn
        <5>5. a.gen \in Nat BY DEF Attempts
        <5>6. c.turn <= b.next.turn BY <1>4, <4>1, <4>4, Zenon
        <5>7. c.turn = b.next.turn => c.gen <= b.next.gen BY <1>4, <3>1, <5>4, <5>5
        <5>8. /\ custody'[c].emitted <= b.link.head
              /\ custody'[c].emitted # b.link.head
            BY <4>2, <5>2, <5>3
        <5> QED BY <5>1, <5>6, <5>7, <5>8
      <4> QED BY <4>3, <4>4
    <3> QED BY <3>2, <3>3
  <2>3. ASSUME NEW c \in Attempts
        PROVE  /\ custody'[c].state # "STARTED" =>
                     custody'[c].resp = NoResponse /\ requests[c] = 0
               /\ requests[c] <= 1
               /\ custody'[c].resp # NoResponse => custody'[c].resp \in answers[c]
    <3>1. CASE c = a BY <3>1 DEF IInv, CustodyInv
    <3>2. CASE c # a BY <2>1, <3>2, SMTT(30) DEF IInv, CustodyInv
    <3> QED BY <3>1, <3>2
  <2>4. ASSUME NEW c \in Attempts, NEW d \in Attempts, SameTurn(c, d), c.gen < d.gen,
               custody'[d].state # "NONE"
        PROVE  custody'[c].state = "FENCED_OUT"
    <3>1. CASE d = a BY <2>4, <3>1
    <3>2. CASE d # a
      <4>1. custody[d].state # "NONE" BY <2>1, <2>4, <3>2
      <4>2. custody[c].state = "FENCED_OUT" BY <2>4, <4>1 DEF IInv, CustodyInv
      <4>3. c # a BY <4>2
      <4> QED BY <2>1, <4>2, <4>3
    <3> QED BY <3>1, <3>2
  <2> QED BY <1>3, <2>2, <2>3, <2>4 DEF CustodyInv
<1>8. InvocationInv'
  <2> DEFINE j == Invoking(b)
  <2>1. /\ j.att = a /\ j.phase = "emitted" /\ j.head = b.link.head BY DEF Invoking
  <2> HIDE DEF j
  <2>2. \A i \in invs : i.att \in Attempts /\ i.att # a
      BY SMTT(30) DEF IInv, TypeOK, Invocations, InvocationInv
  <2>3. ASSUME NEW i \in invs
        PROVE  /\ custody'[i.att].state = "NONE" <=> custody[i.att].state = "NONE"
               /\ custody'[i.att].state = "STARTED" <=> custody[i.att].state = "STARTED"
               /\ custody'[i.att].emitted = custody[i.att].emitted
               /\ custody'[i.att].resp = custody[i.att].resp
    <3>1. i.att \in Attempts \ {a} BY <2>2
    <3>2. \/ custody'[i.att] = custody[i.att]
          \/ /\ custody[i.att].state = "NEVER_STARTED"
             /\ custody'[i.att].state = "FENCED_OUT"
             /\ custody'[i.att].emitted = custody[i.att].emitted
             /\ custody'[i.att].resp = custody[i.att].resp
        BY <3>1
    <3> QED BY <3>2
  <2>4. invs' = invs \cup {j} BY <1>3 DEF j
  <2> QED BY <1>3, <2>1, <2>2, <2>3, <2>4, SMTT(30) DEF IInv, InvocationInv
<1> QED BY <1>6, <1>7, <1>8

\* publish_execution_batch keeps the invariant whatever the batch is.
LEMMA PublishStep ==
    ASSUME IInv, NEW b \in inflight, publish_execution_batch(b)
    PROVE  IInv'
<1>1. b \in Proposals /\ b.run \in RunIds BY DEF IInv, TypeOK, Proposals
<1>2. head = b.expected /\ StageAdmits(b) BY DEF publish_execution_batch, Admitted
<1>3. b.link = Advance(chain[b.run], Records(b.op)) /\ Derived(b)
    BY <1>2 DEF IInv, ProposalInv
<1>4. Records(b.op) \in Nat \ {0} BY <1>1 DEF Records, Proposals, Operations
<1>5. chain[b.run] \in Links /\ run[b.run] \in RunRecords /\ RunShape(run[b.run])
    BY <1>1 DEF IInv, TypeOK, RunInv
<1>6. chain[b.run].head < b.link.head BY <1>3, <1>4, <1>5 DEF Advance, Links
<1> DEFINE a == AttemptOf(b)
           rec == run[b.run]
<1>7. custody \in [Attempts -> CustodyRows] BY DEF IInv, TypeOK
<1>8. custody' = Staged(b) BY DEF publish_execution_batch
<1> DEFINE row == [state |-> "NEVER_STARTED", emitted |-> b.link.head,
                   resp |-> NoResponse]
<1>9. row \in CustodyRows BY <1>1 DEF CustodyRows, Proposals, Links
<1> DEFINE Kept == /\ custody' \in [Attempts -> CustodyRows]
                   /\ invs' \subseteq Invocations
                   /\ RunInv' /\ CustodyInv' /\ InvocationInv'
<1>10. ASSUME b.op \notin {"emit", "replace"} PROVE Kept
  <2>1. RunInv' /\ CustodyInv' /\ InvocationInv' BY <1>1, <1>3, <1>6, <1>10, PublishPlain
  <2>2. custody' = custody /\ invs' = invs BY <1>10 DEF publish_execution_batch, Staged
  <2>3. custody' \in [Attempts -> CustodyRows] /\ invs' \subseteq Invocations
      BY <1>7, <2>2 DEF IInv, TypeOK
  <2> QED BY <2>1, <2>3
<1>11. ASSUME b.op = "emit" PROVE Kept
  <2>1. CanEmit(rec, b.by) /\ b.next = Emitted(rec) BY <1>3, <1>11, Zenon DEF Derived
  <2>2. /\ b.next.turn = rec.turn /\ b.next.gen = 0 /\ b.next.state = "ACTIVE"
        /\ b.next.phase = "CALL_ACTIVE" /\ b.next.resp = rec.resp
        /\ b.next.sealed = rec.sealed
      BY <1>5, <2>1 DEF Emitted, CanEmit, RunRecords
  <2>3. rec.turn # 0 /\ rec.resp = NoResponse /\ rec.sealed = FALSE
      BY <1>5, <2>1 DEF RunShape, CanEmit
  <2>4. a \in Attempts
      BY <1>1, <1>5, <2>2, <2>3, BoundsAssumption DEF AttemptOf, Attempts, RunRecords
  <2>5. RunShape(b.next) BY <2>2, <2>3 DEF RunShape
  <2>6. custody[a].state = "NONE" BY <1>2, <1>11 DEF StageAdmits
  <2>7. custody' = [custody EXCEPT ![a] = row] BY <1>8, <1>11 DEF Staged, register
  <2>8. a.gen = 0 /\ a.turn = rec.turn /\ a.run = b.run BY <2>2 DEF AttemptOf
  <2> HIDE DEF a, row
  <2>9. /\ custody' \in [Attempts -> CustodyRows] /\ custody'[a] = row
        /\ \A c \in Attempts \ {a} : custody'[c] = custody[c]
      BY <1>7, <1>9, <2>4, <2>7
  <2>10. \A c \in Attempts : ~(SameTurn(c, a) /\ c.gen < a.gen)
      BY <2>8 DEF Attempts
  <2>11. \A c \in Attempts : SameTurn(c, a) => custody[c].state = "NONE"
      BY <2>1, <2>8 DEF IInv, CustodyInv, SameTurn, CanEmit
  <2>12. RunInv' /\ CustodyInv' /\ InvocationInv'
      BY <1>1, <1>6, <1>11, <2>2, <2>3, <2>4, <2>5, <2>6, <2>8, <2>9, <2>10, <2>11,
         PublishEmission DEF a, row
  <2>13. invs' \subseteq Invocations
      BY <1>1, <1>11, <2>4 DEF IInv, TypeOK, publish_execution_batch, Invoking,
         Invocations, Proposals, Links, a
  <2> QED BY <2>9, <2>12, <2>13
<1>12. ASSUME b.op = "replace" PROVE Kept
  <2> DEFINE q == PredecessorOf(a)
  <2>1. CanReplace(rec) /\ b.next = Replaced(rec, b.by) BY <1>3, <1>12 DEF Derived
  <2>2. /\ b.next.turn = rec.turn /\ b.next.gen = rec.gen + 1 /\ b.next.state = "ACTIVE"
        /\ b.next.phase = "CALL_ACTIVE" /\ b.next.resp = rec.resp
        /\ b.next.sealed = rec.sealed
    <3>1. rec.state = "ACTIVE" /\ rec.phase = "CALL_ACTIVE" BY <2>1 DEF CanReplace
    <3>2. b.next = Replaced(rec, b.by) BY <2>1
    <3> HIDE DEF rec
    <3> QED BY <3>1, <3>2, SMTT(30) DEF Replaced
  <2>3. rec.turn # 0 /\ rec.resp = NoResponse /\ rec.sealed = FALSE
      BY <1>5, <2>1 DEF RunShape, CanReplace
  <2>4. rec.gen \in Nat /\ rec.turn \in 1..MaxTurns
      BY <1>5, <2>3, BoundsAssumption DEF RunRecords
  <2>5. rec.gen + 1 \in 0..MaxModelRetries
      BY <2>1, <2>4, BoundsAssumption DEF CanReplace
  <2>6. a \in Attempts BY <1>1, <2>2, <2>4, <2>5 DEF AttemptOf, Attempts
  <2>7. a.gen = rec.gen + 1 /\ a.turn = rec.turn /\ a.run = b.run
      BY <2>2 DEF AttemptOf
  <2>8. q = Selected(b.run)
      BY <2>2, <2>4 DEF PredecessorOf, AttemptOf, Selected
  <2>9. q \in Attempts /\ q.gen = rec.gen /\ q.turn = rec.turn /\ q.run = b.run
      BY <1>1, <1>5, <2>4, <2>8 DEF Selected, Attempts, RunRecords
  <2>10. RunShape(b.next) BY <2>2, <2>3 DEF RunShape
  <2>11. custody[a].state = "NONE" /\ custody[q].state = "NEVER_STARTED"
      BY <1>2, <1>12 DEF StageAdmits
  <2> DEFINE out == [custody[q] EXCEPT !.state = "FENCED_OUT"]
  <2>12. custody' = [[custody EXCEPT ![q] = out] EXCEPT ![a] = row]
      BY <1>8, <1>12 DEF Staged, register, fence_unstarted
  <2>13. /\ out \in CustodyRows /\ out.state = "FENCED_OUT"
         /\ out.emitted = custody[q].emitted /\ out.resp = custody[q].resp
    <3>1. custody[q] \in CustodyRows BY <1>7, <2>9
    <3> QED BY <3>1 DEF CustodyRows
  <2>14. q # a BY <2>4, <2>7, <2>9
  <2> HIDE DEF a, q, row, out
  <2>15. /\ custody' \in [Attempts -> CustodyRows]
         /\ custody'[a] = row /\ custody'[q] = out
         /\ \A c \in Attempts \ {a, q} : custody'[c] = custody[c]
      BY <1>7, <1>9, <2>6, <2>9, <2>12, <2>13, <2>14
  <2>16. \A c \in Attempts : SameTurn(c, a) /\ custody[c].state # "NONE" => c.gen < a.gen
    <3> SUFFICES ASSUME NEW c \in Attempts, SameTurn(c, a), custody[c].state # "NONE"
                 PROVE  c.gen < a.gen
        OBVIOUS
    <3>1. c.gen <= rec.gen BY <2>7 DEF IInv, CustodyInv, SameTurn
    <3>2. c.gen \in Nat BY DEF Attempts
    <3> QED BY <2>4, <2>7, <3>1, <3>2
  <2>17. \A c \in Attempts :
            SameTurn(c, a) /\ c.gen < a.gen => custody'[c].state = "FENCED_OUT"
    <3> SUFFICES ASSUME NEW c \in Attempts, SameTurn(c, a), c.gen < a.gen
                 PROVE  custody'[c].state = "FENCED_OUT"
        OBVIOUS
    <3>1. c.gen \in Nat /\ c.gen <= rec.gen BY <2>4, <2>7 DEF Attempts
    <3>2. CASE c.gen = rec.gen
      <4>1. c = q BY <2>7, <2>9, <3>2 DEF SameTurn, Attempts
      <4> QED BY <2>13, <2>15, <4>1
    <3>3. CASE c.gen < rec.gen
      <4>1. custody[c].state = "FENCED_OUT"
          BY <2>7, <2>9, <2>11, <3>3 DEF IInv, CustodyInv, SameTurn
      <4> QED BY <2>11, <2>15, <4>1
    <3> QED BY <2>4, <3>1, <3>2, <3>3
  <2>18. \A c \in Attempts \ {a} :
            \/ custody'[c] = custody[c]
            \/ /\ SameTurn(c, a) /\ custody[c].state = "NEVER_STARTED"
               /\ custody'[c].state = "FENCED_OUT"
               /\ custody'[c].emitted = custody[c].emitted
               /\ custody'[c].resp = custody[c].resp
      BY <2>7, <2>9, <2>11, <2>13, <2>15 DEF SameTurn
  <2>19. RunInv' /\ CustodyInv' /\ InvocationInv'
      BY <1>1, <1>6, <1>12, <2>2, <2>3, <2>6, <2>7, <2>10, <2>11, <2>15, <2>16,
         <2>17, <2>18, PublishEmission DEF a, row
  <2>20. invs' \subseteq Invocations
      BY <1>1, <1>12, <2>6 DEF IInv, TypeOK, publish_execution_batch, Invoking,
         Invocations, Proposals, Links, a
  <2> QED BY <2>15, <2>19, <2>20
<1>13. Kept
    BY <1>10, <1>11, <1>12
<1>14. TypeOK'
  <2>1. WorkOf(rec) \in Work BY <1>5 DEF WorkOf, Work, RunRecords
  <2>2. /\ run' \in [RunIds -> RunRecords] /\ chain' \in [RunIds -> Links]
        /\ head' \in Nat /\ inflight' \subseteq Proposals
        /\ UNCHANGED <<worker, opened, crashed, requests, answers>>
      BY <1>1 DEF IInv, TypeOK, publish_execution_batch, Proposals
  <2>3. baseline' \in [RunIds -> Work]
      BY <2>1, Zenon DEF IInv, TypeOK, publish_execution_batch
  <2> QED BY <1>13, <2>2, <2>3 DEF IInv, TypeOK
<1>15. ProposalInv'
  <2>1. head \in Nat /\ head' = head + 1 /\ inflight' \subseteq inflight
      BY DEF IInv, TypeOK, publish_execution_batch
  <2>2. \A c \in inflight' : c.expected \in Nat /\ c.expected <= head
      BY <2>1 DEF IInv, TypeOK, ProposalInv, Proposals
  <2>3. \A c \in inflight' : c.expected <= head' /\ c.expected # head'
      BY <2>1, <2>2
  <2> QED BY <2>3 DEF ProposalInv
<1> QED BY <1>13, <1>14, <1>15 DEF IInv
-----------------------------------------------------------------------------
\* Every step of every runtime keeps the invariant.
LEMMA NextIInv == IInv /\ [Next]_vars => IInv'
<1> SUFFICES ASSUME IInv, [Next]_vars PROVE IInv' OBVIOUS
<1>t. /\ worker \in Runtimes \cup {NoWorker}
      /\ opened \subseteq Runtimes /\ crashed \subseteq Runtimes
    BY DEF IInv, TypeOK
<1>1. ASSUME NEW p \in Runtimes, Open(p) PROVE IInv'
    BY <1>1, <1>t, CallingStep DEF Open
<1>2. ASSUME NEW p \in Runtimes, Crash(p) PROVE IInv'
    BY <1>2, <1>t, CallingStep DEF Crash
<1>3. ASSUME NEW p \in Runtimes, NEW r \in RunIds, Operation(p, r) PROVE IInv'
    BY <1>3, OperationStep
<1>4. ASSUME NEW b \in inflight, publish_execution_batch(b) PROVE IInv'
    BY <1>4, PublishStep
<1>5. ASSUME NEW b \in inflight, refuse_batch(b) PROVE IInv'
    BY <1>5, <1>t, CallingStep DEF refuse_batch
<1>6. ASSUME NEW i \in invs, Invocation(i) PROVE IInv'
  <2>1. CASE start(i) BY <2>1, StartStep
  <2>2. CASE transmit(i) BY <2>2, TransmitStep
  <2>3. CASE answer(i) BY <2>3, AnswerStep
  <2>4. CASE invoke_fails(i) BY <2>4, <1>t, CallingStep DEF invoke_fails
  <2>5. CASE retain(i) BY <2>5, RetainStep
  <2>6. CASE retain_refused(i) BY <2>6, <1>t, CallingStep DEF retain_refused
  <2>7. CASE propose_capture(i) BY <2>7, ProposeCaptureStep
  <2>8. CASE capture_held(i) BY <2>8, <1>t, CallingStep DEF capture_held
  <2> QED BY <1>6, <2>1, <2>2, <2>3, <2>4, <2>5, <2>6, <2>7, <2>8 DEF Invocation
<1>7. CASE UNCHANGED vars BY <1>7, <1>t, CallingStep DEF vars
<1> QED BY <1>1, <1>2, <1>3, <1>4, <1>5, <1>6, <1>7 DEF Next, Publication

\* The inductive invariant holds in every reachable state.
THEOREM SpecIInv == Spec => []IInv
BY InitIInv, NextIInv, PTL DEF Spec

-----------------------------------------------------------------------------
\* Every reachable state of the runtime is well typed: transitions respect the
\* Turn and retry budgets, and a Run carries only retainable responses.
THEOREM TypeCorrect == Spec => []TypeOK
<1>1. IInv => TypeOK BY DEF IInv
<1> QED BY <1>1, SpecIInv, PTL

\* custody.start and the fence of replace_unstarted_model_attempt let at most
\* one model request leave per Turn, for any number of runtimes, crashes and
\* takeovers.
THEOREM AtMostOneRequestPerTurn == Spec => []OneRequestPerTurn
<1>1. IInv => OneRequestPerTurn
  <2> SUFFICES ASSUME IInv, NEW a \in Attempts, NEW b \in Attempts
               PROVE  /\ requests[a] <= 1
                      /\ SameTurn(a, b) /\ requests[a] > 0 /\ requests[b] > 0 => a = b
      BY DEF OneRequestPerTurn
  <2>1. requests[a] <= 1 BY DEF IInv, CustodyInv
  <2>2. ASSUME SameTurn(a, b), requests[a] > 0, requests[b] > 0 PROVE a = b
    <3>1. custody[a].state = "STARTED" /\ custody[b].state = "STARTED"
        BY <2>2 DEF IInv, CustodyInv
    <3>2. ~(a.gen < b.gen) /\ ~(b.gen < a.gen)
        BY <2>2, <3>1 DEF IInv, CustodyInv, SameTurn
    <3>3. a.gen = b.gen BY <3>2 DEF Attempts
    <3> QED BY <2>2, <3>3 DEF SameTurn, Attempts
  <2> QED BY <2>1, <2>2
<1> QED BY <1>1, SpecIInv, PTL

\* Whichever runtime publishes the capture, the Run carries a response that the
\* provider produced for the selected attempt and that custody retains.
THEOREM CapturedResponsesAreGenuine == Spec => []CapturedResponseIsGenuine
<1>1. IInv => CapturedResponseIsGenuine
  <2> SUFFICES ASSUME IInv, NEW r \in RunIds, run[r].resp # NoResponse
               PROVE  /\ run[r].resp \in answers[Selected(r)]
                      /\ custody[Selected(r)].resp = run[r].resp
      BY DEF CapturedResponseIsGenuine
  <2>1. Selected(r) \in Attempts BY SelectedAttempt
  <2>2. custody[Selected(r)].resp = run[r].resp BY DEF IInv, RunInv
  <2> QED BY <2>1, <2>2 DEF IInv, CustodyInv
<1> QED BY <1>1, SpecIInv, PTL

\* recover_model_response and replace_unstarted_model_attempt always find the
\* custody row of the emission that an ACTIVE Run waits for.
THEOREM AwaitedAttemptsAreInCustody == Spec => []AwaitedAttemptIsInCustody
<1>1. IInv => AwaitedAttemptIsInCustody BY DEF IInv, RunInv, AwaitedAttemptIsInCustody
<1> QED BY <1>1, SpecIInv, PTL

\* A superseded generation was fenced before it was ever sent.
THEOREM SupersededGenerationsAreFenced == Spec => []OlderGenerationsAreFenced
<1>1. IInv => OlderGenerationsAreFenced
    BY DEF IInv, CustodyInv, OlderGenerationsAreFenced
<1> QED BY <1>1, SpecIInv, PTL

\* Runs change only in publish_execution_batch.
LEMMA OnlyPublicationMovesRuns ==
    ASSUME Next
    PROVE  \/ \E b \in inflight : publish_execution_batch(b)
           \/ UNCHANGED <<run, chain>>
<1>1. ASSUME NEW p \in Runtimes, Open(p) \/ Crash(p) PROVE UNCHANGED <<run, chain>>
    BY <1>1 DEF Open, Crash
<1>2. ASSUME NEW p \in Runtimes, NEW r \in RunIds, Operation(p, r)
      PROVE  UNCHANGED <<run, chain>>
  <2>1. \E s \in Slots, op \in Operations : \E next : Propose(p, s, op, r, next)
      BY <1>2 DEF Operation, create_execution, begin_execution, capture_execution,
         seal_execution, continue_execution, recover_model_response,
         replace_unstarted_model_attempt, suspend_execution, resume_execution,
         abort_execution, Slots, Operations
  <2> QED BY <2>1 DEF Propose
<1>3. ASSUME NEW b \in inflight, refuse_batch(b) PROVE UNCHANGED <<run, chain>>
    BY <1>3 DEF refuse_batch
<1>4. ASSUME NEW i \in invs, Invocation(i) PROVE UNCHANGED <<run, chain>>
  <2>1. CASE start(i) BY <2>1 DEF start
  <2>2. CASE transmit(i) BY <2>2 DEF transmit
  <2>3. CASE answer(i) BY <2>3 DEF answer
  <2>4. CASE invoke_fails(i) BY <2>4 DEF invoke_fails
  <2>5. CASE retain(i) BY <2>5 DEF retain
  <2>6. CASE retain_refused(i) BY <2>6 DEF retain_refused
  <2>7. CASE propose_capture(i) BY <2>7 DEF propose_capture
  <2>8. CASE capture_held(i) BY <2>8 DEF capture_held
  <2> QED BY <1>4, <2>1, <2>2, <2>3, <2>4, <2>5, <2>6, <2>7, <2>8 DEF Invocation
<1> QED BY <1>1, <1>2, <1>3, <1>4 DEF Next, Publication

\* publish_execution_batch never loses an update: the head comparison makes
\* every published record name the selected record as its predecessor.
THEOREM UpdatesAreNotLost == Spec => NoLostUpdate
<1> DEFINE Extends == \A r \in RunIds :
                run'[r] # run[r] \/ chain'[r] # chain[r] => chain'[r].pred = chain[r].head
<1>1. IInv /\ [Next]_vars => [Extends]_vars
  <2> SUFFICES ASSUME IInv, Next PROVE Extends OBVIOUS
  <2>1. ASSUME UNCHANGED <<run, chain>> PROVE Extends BY <2>1
  <2>2. ASSUME NEW b \in inflight, publish_execution_batch(b) PROVE Extends
    <3>1. b \in Proposals /\ b.run \in RunIds BY DEF IInv, TypeOK, Proposals
    <3>2. b.link = Advance(chain[b.run], Records(b.op))
        BY <2>2 DEF IInv, ProposalInv, publish_execution_batch, Admitted
    <3>3. b.link.pred = chain[b.run].head BY <3>2, SMTT(30) DEF Advance
    <3>4. /\ chain'[b.run] = b.link
          /\ \A r \in RunIds \ {b.run} : run'[r] = run[r] /\ chain'[r] = chain[r]
        BY <2>2, <3>1 DEF IInv, TypeOK, publish_execution_batch
    <3> QED BY <3>3, <3>4
  <2>3. (\E b \in inflight : publish_execution_batch(b)) \/ UNCHANGED <<run, chain>>
      BY OnlyPublicationMovesRuns
  <2> QED BY <2>1, <2>2, <2>3
<1> QED BY <1>1, SpecIInv, PTL DEF Spec, NoLostUpdate

\* An ABORTED Run and a retained response are final.
THEOREM DecidedFactsNeverChange == Spec => DecidedFactsAreFinal
<1> DEFINE Final ==
        /\ \A r \in RunIds : run[r].state = "ABORTED" => run'[r] = run[r]
        /\ \A a \in Attempts : custody[a].resp # NoResponse => custody'[a] = custody[a]
<1>1. IInv /\ [Next]_vars => [Final]_vars
  <2> SUFFICES ASSUME IInv, Next PROVE Final OBVIOUS
  <2>1. ASSUME NEW r \in RunIds, run[r].state = "ABORTED" PROVE run'[r] = run[r]
    <3>1. ASSUME NEW b \in inflight, publish_execution_batch(b) PROVE run'[r] = run[r]
      <4>1. Derived(b) /\ b.run \in RunIds
          BY <3>1 DEF IInv, TypeOK, ProposalInv, Proposals, publish_execution_batch, Admitted
      <4>2. run[b.run].state # "ABORTED"
          BY <4>1 DEF Derived, CanCreate, CanBegin, CanEmit, CanCapture, CanSeal,
             CanContinue, CanReplace, CanSuspend, CanResume, CanAbort
      <4> QED BY <2>1, <3>1, <4>1, <4>2 DEF IInv, TypeOK, publish_execution_batch
    <3> QED BY <3>1, OnlyPublicationMovesRuns
  <2>2. ASSUME NEW a \in Attempts, custody[a].resp # NoResponse
        PROVE  custody'[a] = custody[a]
    <3>s. custody[a].state = "STARTED" BY <2>2 DEF IInv, CustodyInv
    <3>1. ASSUME NEW b \in inflight, publish_execution_batch(b) PROVE custody'[a] = custody[a]
      <4>1. custody' = Staged(b) /\ StageAdmits(b)
          BY <3>1 DEF publish_execution_batch, Admitted
      <4>2. b.op \in {"emit", "replace"} => AttemptOf(b) # a
          BY <3>s, <4>1 DEF StageAdmits
      <4>3. b.op = "replace" => PredecessorOf(AttemptOf(b)) # a
          BY <3>s, <4>1 DEF StageAdmits
      <4>4. custody \in [Attempts -> CustodyRows] BY DEF IInv, TypeOK
      <4> QED BY <4>1, <4>2, <4>3, <4>4 DEF Staged, register, fence_unstarted
    <3>2. ASSUME NEW i \in invs, Invocation(i) PROVE custody'[a] = custody[a]
      <4>1. i.att \in Attempts /\ custody \in [Attempts -> CustodyRows]
          BY DEF IInv, TypeOK, Invocations
      <4>2. CASE start(i)
        <5>1. i.att # a BY <3>s, <4>2 DEF start
        <5> QED BY <4>1, <4>2, <5>1 DEF start
      <4>3. CASE retain(i)
        <5>1. i.att # a BY <2>2, <4>3 DEF IInv, InvocationInv, retain
        <5> QED BY <4>1, <4>3, <5>1 DEF retain
      <4>4. CASE UNCHANGED custody BY <4>4
      <4> QED BY <3>2, <4>2, <4>3, <4>4 DEF Invocation, transmit, answer, invoke_fails,
             retain_refused, propose_capture, capture_held
    <3>3. ASSUME NEW p \in Runtimes, NEW r \in RunIds, Operation(p, r)
          PROVE  UNCHANGED custody
      <4>1. \E s \in Slots, op \in Operations : \E next : Propose(p, s, op, r, next)
          BY <3>3 DEF Operation, create_execution, begin_execution, capture_execution,
             seal_execution, continue_execution, recover_model_response,
             replace_unstarted_model_attempt, suspend_execution, resume_execution,
             abort_execution, Slots, Operations
      <4> QED BY <4>1 DEF Propose
    <3>4. ASSUME NEW p \in Runtimes, Open(p) \/ Crash(p) PROVE UNCHANGED custody
        BY <3>4 DEF Open, Crash
    <3>5. ASSUME NEW b \in inflight, refuse_batch(b) PROVE UNCHANGED custody
        BY <3>5 DEF refuse_batch
    <3> QED BY <3>1, <3>2, <3>3, <3>4, <3>5 DEF Next, Publication
  <2> QED BY <2>1, <2>2
<1> QED BY <1>1, SpecIInv, PTL DEF Spec, DecidedFactsAreFinal

\* Runs and custody agree for every number of runtimes, Runs, Turns and
\* generations (publish_batch and ModelInvocationCustody).
THEOREM CustodyStaysExact == Spec => []CustodyIsExact
BY TypeCorrect, CapturedResponsesAreGenuine, AwaitedAttemptsAreInCustody,
   SupersededGenerationsAreFenced, PTL DEF CustodyIsExact

\* Published records are never lost and decided facts never change.
THEOREM HistoryStaysFinal == Spec => HistoryIsFinal
BY UpdatesAreNotLost, DecidedFactsNeverChange DEF HistoryIsFinal
=============================================================================
