--------------------------- MODULE AuthorityStore ---------------------------
(***************************************************************************)
(* The authority store of the broker: SQLiteMaterializer, the physical     *)
(* transaction boundary, and EventAppender, the one writer that drains its *)
(* two bounded lanes (evidence before ordinary work) in a worker thread.   *)
(*                                                                         *)
(* A call is one submitted command.  Callers prepare a command against the *)
(* head, the deletion fence and the inbox state they read, may resubmit    *)
(* the command of an earlier call (a retry), may be cancelled while they   *)
(* wait (the shielded future keeps the command queued) and may close the   *)
(* appender at any time.  The process may crash between any two steps.     *)
(* The profile mark of the database changes nothing here: once the broker  *)
(* is bound its admission callback runs under either profile.              *)
(***************************************************************************)
EXTENDS Naturals, Sequences, FiniteSets, TLC

CONSTANTS Commands,          \* the requests callers may prepare
          Capacity,          \* ordinary lane capacity
          EvidenceCapacity,  \* evidence lane capacity
          Resolver,          \* is an owner publication resolver mounted?
          None,
          MaxCalls,          \* bound: submissions
          MaxFaults          \* bound: failed or unacknowledged commits, crashes

VARIABLES head, records, publications, fence, inbox, derivatives,
          ready, calls, ordinary, evidence, admitted, worker, accepting,
          closing, faults

store == <<head, records, publications, fence, inbox, derivatives>>
lanes == <<ordinary, evidence, admitted>>
vars == <<store, ready, calls, lanes, worker, accepting, closing, faults>>

IsEvidence(cmd) == cmd.type \in {"evidence", "followup"}

Init ==
  /\ head = 0 /\ records = {} /\ publications = {} /\ fence = None
  /\ inbox = {} /\ derivatives = {} /\ ready = FALSE
  /\ calls = <<>> /\ ordinary = <<>> /\ evidence = <<>>
  /\ admitted = [ordinary |-> 0, evidence |-> 0]
  /\ worker = None /\ accepting = TRUE /\ closing = "open" /\ faults = 0

-----------------------------------------------------------------------------
(* What the transaction bodies decide.                                     *)

Raised == [disposition |-> "RAISED", at |-> None]
Reply(d, at) == [disposition |-> d, at |-> at]
Answer(reply) == worker' = [worker EXCEPT !.reply = reply]

\* The reserved delivery-work namespace, the H1-only record pairs and the
\* registered owner/schema pairs: a command is well formed or it raises.
WellFormed(cmd) == cmd.shape = "registered"

\* Publications and derivatives both pass the exact frontier they were prepared
\* with, which is also the minimum they ask for.
RequireFence(cmd) == fence # None /\ fence = cmd.fence

\* Mutations are admitted by the broker's callback, which may refuse (the
\* checkpoint of AuthorityBundle decides).
AdmissionOutcomes == BOOLEAN

Published(key) == {p \in publications : p.key = key}

ReplayedUnchecked(cmd, p) == Reply("REPLAY", p.sequence)
Replayed(cmd, p) ==
  IF p.fingerprint = cmd.fingerprint THEN Reply("REPLAY", p.sequence)
                                     ELSE Reply("CONFLICT", p.sequence)

\* A proof of the mounted resolver; the store compares it with the command.
Proofs == [projection: BOOLEAN, sequence: {head, head + 1}]
ProjectionMatches(proof) == proof.projection
ReplayProves(proof, p) == ProjectionMatches(proof) /\ proof.sequence = p.sequence
PrecommitProves(pre, fin) ==
  ProjectionMatches(pre) /\ ProjectionMatches(fin) /\ fin.sequence = head + 1

\* The preimage commitment a publication names is not the store's, or one of the
\* two guards it carries refuses it.
GuardRefusals == {Reply(d, None) : d \in {"STALE", "DENIED", "INDETERMINATE"}}

\* The outcomes a publication that found no earlier one may have: none of
\* them writes except COMMITTED, which writes the record, the publication and
\* the head in one transaction.
PublishOutcomes(cmd) ==
  IF cmd.expected_head # head THEN {Reply("STALE", None)}
  ELSE GuardRefusals \cup
    IF cmd.record \in {r.record : r \in records} THEN {Raised}
    ELSE IF ~cmd.owner THEN {Reply("COMMITTED", head + 1)}
    ELSE {IF PrecommitProves(pre, fin) THEN Reply("COMMITTED", head + 1)
                                       ELSE Raised : pre, fin \in Proofs}

Publish(cmd) ==
  IF ~WellFormed(cmd) THEN Answer(Raised) /\ UNCHANGED store
  ELSE IF cmd.owner /\ ~Resolver THEN Answer(Reply("DENIED", None)) /\ UNCHANGED store
  ELSE IF ~RequireFence(cmd) THEN Answer(Raised) /\ UNCHANGED store
  ELSE IF Published(cmd.key) # {} THEN
    /\ \E p \in Published(cmd.key), proof \in Proofs :
         Answer(IF cmd.owner /\ ~ReplayProves(proof, p) THEN Raised ELSE Replayed(cmd, p))
    /\ UNCHANGED store
  ELSE \E admits \in AdmissionOutcomes :
    \E reply \in IF admits THEN PublishOutcomes(cmd) ELSE {Raised} :
    /\ Answer(reply)
    /\ IF reply.disposition # "COMMITTED" THEN UNCHANGED store ELSE
         /\ head' = head + 1
         /\ records' = records \cup {[record |-> cmd.record, sequence |-> head + 1]}
         /\ publications' = publications \cup
              {[key |-> cmd.key, fingerprint |-> cmd.fingerprint,
                sequence |-> head + 1, record |-> cmd.record]}
         /\ UNCHANGED <<fence, inbox, derivatives>>

InstallFence(cmd) ==
  IF fence = cmd.target THEN
    \* allow_exact_replay; without it the unchanged generation raises
    Answer(IF cmd.replay THEN Reply("REPLAY", None) ELSE Raised) /\ UNCHANGED store
  ELSE \E admits \in AdmissionOutcomes :
    LET advances == fence = None \/ (cmd.target.frontier >= fence.frontier
                                     /\ cmd.target.generation # fence.generation)
    IN IF admits /\ advances
       THEN /\ Answer(Reply("COMMITTED", None)) /\ fence' = cmd.target
            /\ UNCHANGED <<head, records, publications, inbox, derivatives>>
       ELSE Answer(Raised) /\ UNCHANGED store

RegisterDerivative(cmd) ==
  LET existing == {d \in derivatives : d.id = cmd.id}
      binding == [id |-> cmd.id, source |-> cmd.source, epoch |-> cmd.fence.frontier]
  IN IF ~RequireFence(cmd) \/ cmd.source \notin {r.record : r \in records}
     THEN Answer(Raised) /\ UNCHANGED store
     ELSE IF existing # {}
     THEN /\ Answer(IF existing = {binding} THEN Reply("REPLAY", None) ELSE Raised)
          /\ UNCHANGED store
     ELSE /\ Answer(Reply("COMMITTED", None))
          /\ derivatives' = derivatives \cup {binding}
          /\ UNCHANGED <<head, records, publications, fence, inbox>>

-----------------------------------------------------------------------------
(* The evidence inbox: durable custody first, then the source's follow-up. *)

InboxRow(id) == {e \in inbox : e.id = id}

AdmitEvidence(cmd) ==
  IF InboxRow(cmd.id) # {} THEN
    /\ \E e \in InboxRow(cmd.id) :
         Answer(IF e.fingerprint = cmd.fingerprint THEN Reply("REPLAY", e.state)
                                                   ELSE Reply("CONFLICT", e.state))
    /\ UNCHANGED store
  ELSE \E admits \in AdmissionOutcomes :
    IF ~admits
    THEN /\ Answer(IF cmd.redelivery THEN Raised ELSE Reply("POSSIBLE_LOSS", None))
         /\ UNCHANGED store
    ELSE /\ Answer(Reply("COMMITTED", "LOCAL_ACK_AUTHORIZED"))
         /\ inbox' = inbox \cup {[id |-> cmd.id, fingerprint |-> cmd.fingerprint,
                                  kind |-> cmd.kind, attempt |-> None,
                                  state |-> "LOCAL_ACK_AUTHORIZED"]}
         /\ UNCHANGED <<head, records, publications, fence, derivatives>>

Allowed ==
  [PUSH |-> {<<"LOCAL_ACK_AUTHORIZED", "PUSH_RESPONSE_ATTEMPT_ISSUED">>,
             <<"PUSH_RESPONSE_ATTEMPT_ISSUED", "PUSH_RESPONSE_LOCAL_COMPLETION_OBSERVED">>,
             <<"PUSH_RESPONSE_LOCAL_COMPLETION_OBSERVED", "PROVIDER_RECEIPT_OBSERVED">>},
   POLL |-> {<<"LOCAL_ACK_AUTHORIZED", "POLL_CURSOR_ADVANCE_AUTHORIZED">>,
             <<"POLL_CURSOR_ADVANCE_AUTHORIZED", "POLL_CURSOR_APPLIED">>},
   RECONCILIATION |->
            {<<"LOCAL_ACK_AUTHORIZED", "RECONCILIATION_RELEASE_AUTHORIZED">>,
             <<"RECONCILIATION_RELEASE_AUTHORIZED", "RECONCILIATION_OBLIGATION_RELEASED">>}]

AdvanceEvidence(cmd) ==
  IF InboxRow(cmd.id) = {} THEN Answer(Raised) /\ UNCHANGED store
  ELSE \E e \in InboxRow(cmd.id), admits \in AdmissionOutcomes :
    IF e.state = cmd.next THEN
      /\ Answer(IF e.attempt = cmd.attempt THEN Reply("REPLAY", e.state)
                                             ELSE Reply("CONFLICT", e.state))
      /\ UNCHANGED store
    ELSE IF e.state = cmd.expected /\ <<cmd.expected, cmd.next>> \in Allowed[e.kind] /\ admits
    THEN /\ Answer(Reply("COMMITTED", cmd.next))
         /\ inbox' = (inbox \ {e}) \cup {[e EXCEPT !.state = cmd.next,
                                                   !.attempt = cmd.attempt]}
         /\ UNCHANGED <<head, records, publications, fence, derivatives>>
    ELSE Answer(Raised) /\ UNCHANGED store

-----------------------------------------------------------------------------
(* The appender: admission, the worker, close-before-drain.                *)

Lane(cmd) == IF IsEvidence(cmd) THEN "evidence" ELSE "ordinary"
LaneCapacity(cmd) == IF IsEvidence(cmd) THEN EvidenceCapacity ELSE Capacity

\* The caller's reads: what a prepared command expects of the store.
Prepare(cmd) ==
  IF cmd.type = "publish" THEN cmd @@ [expected_head |-> head, fence |-> fence]
  ELSE IF cmd.type = "derivative" THEN cmd @@ [fence |-> fence]
  ELSE cmd

CanPrepare(cmd) ==
  /\ cmd.type = "derivative" => fence # None
  /\ cmd.type = "followup" => \E e \in InboxRow(cmd.id) : e.state = cmd.expected

Submitted(cmd) ==
  /\ Len(calls) < MaxCalls
  /\ IF ~accepting \/ admitted[Lane(cmd)] >= LaneCapacity(cmd)
     THEN /\ calls' = Append(calls, [cmd |-> cmd, status |-> "refused", reply |-> None])
          /\ UNCHANGED lanes
     ELSE /\ calls' = Append(calls, [cmd |-> cmd, status |-> "waiting", reply |-> None])
          /\ admitted' = [admitted EXCEPT ![Lane(cmd)] = @ + 1]
          /\ IF IsEvidence(cmd)
             THEN evidence' = Append(evidence, Len(calls) + 1) /\ UNCHANGED ordinary
             ELSE ordinary' = Append(ordinary, Len(calls) + 1) /\ UNCHANGED evidence
  /\ UNCHANGED <<store, ready, worker, accepting, closing, faults>>

Submit(cmd) == CanPrepare(cmd) /\ Submitted(Prepare(cmd))

\* The caller resubmits the bytes of a call it got no result from.
Retry(i) ==
  /\ \/ calls[i].status \in {"abandoned", "lost"}
     \/ calls[i].status = "answered"
        /\ calls[i].reply.disposition = "LOST_ACKNOWLEDGEMENT"
  /\ Submitted(calls[i].cmd)

Cancel(i) ==
  /\ calls[i].status = "waiting"
  /\ calls' = [calls EXCEPT ![i].status = "abandoned"]
  /\ UNCHANGED <<store, ready, lanes, worker, accepting, closing, faults>>

Take ==
  /\ worker = None /\ closing # "closed"
  /\ IF evidence # <<>>
     THEN /\ worker' = [call |-> Head(evidence), lane |-> "evidence", reply |-> None]
          /\ evidence' = Tail(evidence) /\ UNCHANGED ordinary
     ELSE /\ ordinary # <<>>
          /\ worker' = [call |-> Head(ordinary), lane |-> "ordinary", reply |-> None]
          /\ ordinary' = Tail(ordinary) /\ UNCHANGED evidence
  /\ UNCHANGED <<store, ready, calls, admitted, accepting, closing, faults>>

Body(cmd) ==
  \/ cmd.type = "publish" /\ Publish(cmd)
  \/ cmd.type = "fence" /\ InstallFence(cmd)
  \/ cmd.type = "derivative" /\ RegisterDerivative(cmd)
  \/ cmd.type = "evidence" /\ AdmitEvidence(cmd)
  \/ cmd.type = "followup" /\ AdvanceEvidence(cmd)

\* The thread runs one transaction; without broker readiness it raises.
Execute ==
  /\ worker # None /\ worker.reply = None
  /\ LET cmd == calls[worker.call].cmd
     IN IF ready THEN Body(cmd) ELSE Answer(Raised) /\ UNCHANGED store
  /\ UNCHANGED <<ready, calls, lanes, accepting, closing, faults>>

\* The commit fails and rolls back; evidence its source will not redeliver is
\* reported as possibly lost.
ExecuteFails ==
  /\ worker # None /\ worker.reply = None /\ ready /\ faults < MaxFaults
  /\ Answer(IF calls[worker.call].cmd.type = "evidence"
          /\ InboxRow(calls[worker.call].cmd.id) = {}
          /\ ~calls[worker.call].cmd.redelivery
       THEN Reply("POSSIBLE_LOSS", None) ELSE Raised)
  /\ faults' = faults + 1
  /\ UNCHANGED <<store, ready, calls, lanes, accepting, closing>>

\* The commit is durable and its acknowledgement is lost.
LoseAcknowledgement ==
  /\ worker # None /\ worker.reply # None /\ worker.reply.disposition = "COMMITTED"
  /\ calls[worker.call].cmd.type \in {"publish", "evidence"}
  /\ faults < MaxFaults /\ faults' = faults + 1
  /\ Answer(Reply("LOST_ACKNOWLEDGEMENT", None))
  /\ UNCHANGED <<store, ready, calls, lanes, accepting, closing>>

\* The loop resolves the future, then releases the lane slot.
Finish ==
  /\ worker # None /\ worker.reply # None
  /\ calls' = [calls EXCEPT ![worker.call] =
       IF @.status = "waiting"
       THEN [cmd |-> @.cmd, status |-> "answered", reply |-> worker.reply] ELSE @]
  /\ admitted' = [admitted EXCEPT ![worker.lane] = @ - 1]
  /\ worker' = None
  /\ UNCHANGED <<store, ready, ordinary, evidence, accepting, closing, faults>>

Close ==
  /\ closing = "open" /\ closing' = "draining" /\ accepting' = FALSE
  /\ UNCHANGED <<store, ready, calls, lanes, worker, faults>>

DrainedEvidence == admitted.evidence = 0
Drained == admitted.evidence = 0 /\ admitted.ordinary = 0

\* Both queues are joined, then the worker is cancelled and the store closed.
FinishClose ==
  /\ closing = "draining" /\ Drained
  /\ closing' = "closed" /\ worker' = None
  /\ UNCHANGED <<store, ready, calls, lanes, accepting, faults>>

\* The broker binds the bootstrap lease once.
CompleteBrokerAdmission ==
  /\ ~ready /\ ready' = TRUE
  /\ UNCHANGED <<store, calls, lanes, worker, accepting, closing, faults>>

\* A crash loses both lanes; the store reopens with its durable rows and
\* waits for the broker again.
Crash ==
  /\ faults < MaxFaults /\ faults' = faults + 1
  /\ calls' = [i \in DOMAIN calls |-> IF calls[i].status = "waiting"
                 THEN [calls[i] EXCEPT !.status = "lost"] ELSE calls[i]]
  /\ ordinary' = <<>> /\ evidence' = <<>>
  /\ admitted' = [ordinary |-> 0, evidence |-> 0]
  /\ worker' = None /\ accepting' = TRUE /\ closing' = "open" /\ ready' = FALSE
  /\ UNCHANGED store

Next ==
  \/ \E cmd \in Commands : Submit(cmd)
  \/ \E i \in DOMAIN calls : Retry(i) \/ Cancel(i)
  \/ Take \/ Execute \/ ExecuteFails \/ LoseAcknowledgement \/ Finish
  \/ Close \/ FinishClose \/ CompleteBrokerAdmission
  \/ Crash

Spec == Init /\ [][Next]_vars

\* The worker task and its thread keep running.
FairSpec == Spec /\ WF_vars(Take) /\ WF_vars(Execute) /\ WF_vars(Finish)

-----------------------------------------------------------------------------
\* The call has no answer, or one that says it wrote.
MayHaveWritten(i) ==
  calls[i].status = "answered" =>
    calls[i].reply.disposition \in {"COMMITTED", "LOST_ACKNOWLEDGEMENT"}

\* Every answer EventAppender gives stays true of the durable store, whatever
\* was retried, cancelled, rolled back, left unacknowledged or lost in a crash:
\* a committed or replayed publication is the one publication of its
\* idempotency key, with the caller's fingerprint, at the sequence answered
\* and with its record; a conflict names another request; a refusal wrote
\* nothing, so whatever is durable some call was told of, or never got an answer
\* to; accepted evidence is in the inbox with the caller's bytes; a registered
\* derivative cites existing records at an epoch the fence has reached.
AnswersStayTrue ==
  /\ \A p \in publications : \E i \in DOMAIN calls : MayHaveWritten(i) /\
       calls[i].cmd.type = "publish" /\ calls[i].cmd.key = p.key
       /\ calls[i].cmd.fingerprint = p.fingerprint
  /\ \A e \in inbox : \E i \in DOMAIN calls : MayHaveWritten(i) /\
       calls[i].cmd.type = "evidence" /\ calls[i].cmd.id = e.id
  /\ \A i \in DOMAIN calls : calls[i].status = "answered" =>
    LET cmd == calls[i].cmd  d == calls[i].reply.disposition  at == calls[i].reply.at
    IN /\ cmd.type = "publish" /\ d \in {"COMMITTED", "REPLAY", "LOST_ACKNOWLEDGEMENT"} =>
            \E p \in Published(cmd.key) :
              /\ Published(cmd.key) = {p} /\ p.fingerprint = cmd.fingerprint
              /\ at \in {p.sequence, None}
              /\ [record |-> p.record, sequence |-> p.sequence] \in records
       /\ cmd.type = "publish" /\ d = "CONFLICT" =>
            \E p \in Published(cmd.key) : p.fingerprint # cmd.fingerprint
       /\ cmd.type = "evidence" /\ d \in {"COMMITTED", "REPLAY", "LOST_ACKNOWLEDGEMENT"} =>
            \E e \in InboxRow(cmd.id) : e.fingerprint = cmd.fingerprint
       /\ cmd.type = "followup" /\ d = "COMMITTED" =>
            \E e \in InboxRow(cmd.id) : e.state # cmd.expected
       /\ cmd.type = "derivative" /\ d \in {"COMMITTED", "REPLAY"} =>
            \E x \in derivatives : /\ x.id = cmd.id /\ x.epoch <= fence.frontier
                                   /\ x.source \in {r.record : r \in records}

Waiting(i) == i \in DOMAIN calls /\ calls[i].status = "waiting"

\* A command the appender accepted is answered, also when the appender is
\* closed while it is queued (close-before-drain), unless its caller went away
\* or the process crashed.
AcceptedIsAnswered ==
  \A i \in 1..MaxCalls : Waiting(i) ~> ~Waiting(i)

=============================================================================
