-------------------------- MODULE PlanningRuntime --------------------------
(***************************************************************************)
(* The R6 planning runtime on SQLite: composition/r6.py composes the       *)
(* deployment trust, the planning use case and the repository of           *)
(* adapters/driven/planning_sqlite.py over the single-writer store.        *)
(*                                                                         *)
(* A create runs in a worker thread: it reads the committed publications,  *)
(* decides on that copy, and submits the publication to the writer, whose  *)
(* transaction compares the head and asks the trust once more.  A render   *)
(* reads the publications, and the projection reads them again.  Between   *)
(* any two of these steps other creates commit, the trust changes, and the *)
(* process may stop.  The log only grows, so a copy of it is its length.   *)
(***************************************************************************)
EXTENDS Naturals, Sequences, FiniteSets, SequencesExt

CONSTANTS Callers,
          Readers,
          Principals,
          Owner,       \* the bootstrapped principal
          Commands,    \* [id, line, revision, purpose]
          None,
          MaxTrust,    \* bound: changes of the trust state
          MaxCalls,    \* bound: creates
          MaxRenders,  \* bound: renders
          MaxFaults    \* bound: failed transactions and restarts

VARIABLES trust,        \* the heads a reference names, and the phase
          fence,        \* is the deletion fence of the tenant installed?
          log,          \* the committed publications
          transaction,  \* the caller whose write transaction is open, or None
          calls,        \* [Callers -> the create it is in]
          renders,      \* [Readers -> the render it is in]
          used,         \* how often each bounded action happened
          wrote         \* the calls whose transaction committed

vars == <<trust, fence, log, transaction, calls, renders, used, wrote>>

NoCall == [at |-> "idle"]

Init ==
  /\ trust = [head |-> 0, phase |-> "NONE"] /\ fence = FALSE /\ log = <<>>
  /\ transaction = None /\ wrote = {}
  /\ calls = [c \in Callers |-> NoCall] /\ renders = [r \in Readers |-> NoCall]
  /\ used = [trust |-> 0, calls |-> 0, renders |-> 0, faults |-> 0]

Use(what, bound) == used[what] < bound /\ used' = [used EXCEPT ![what] = @ + 1]

-----------------------------------------------------------------------------
(* Deployment trust, as R4PlanningTrustBridge presents it.                 *)

authenticate ==
  CASE trust.phase = "ACTIVE" -> "VALID"
    [] trust.phase = "REVOKED" -> "STALE"
    [] trust.phase \in {"NONE", "HOLD"} -> "INDETERMINATE"

\* A reference is valid while authentication would return the same one.
revalidate(reference) ==
  IF authenticate = "VALID" /\ reference = trust.head THEN "VALID" ELSE "STALE"

\* bootstrap: the trust first, then (awaited) the fence.  A repeated bootstrap
\* changes no trust and installs a fence that is missing.
bootstrap ==
  /\ trust.phase = "NONE" /\ trust' = [head |-> 1, phase |-> "ACTIVE"]
  /\ UNCHANGED <<fence, log, transaction, calls, renders, used, wrote>>

ensure_fence ==
  /\ trust.phase # "NONE" /\ ~fence /\ transaction = None /\ fence' = TRUE
  /\ UNCHANGED <<trust, log, transaction, calls, renders, used, wrote>>

\* Every decision of the trust changes the heads of a reference; a held
\* contour is never active again.
ChangeTrust ==
  /\ trust.phase \in {"ACTIVE", "REVOKED"} /\ Use("trust", MaxTrust)
  /\ \E phase \in {"ACTIVE", "REVOKED", "HOLD"} :
       trust' = [head |-> trust.head + 1, phase |-> phase]
  /\ UNCHANGED <<fence, log, transaction, calls, renders, wrote>>

-----------------------------------------------------------------------------
(* Publications and what may be read from them.                            *)

RecordIds(c) == {c.id, <<c.id, "authorization">>, <<c.id, "result">>, c.line, c.revision}

\* sequence is the column of the publication row, recorded the number inside
\* its committed_result record.
_publication(c, reference, sequence, recorded) ==
  [command |-> c, reference |-> reference, sequence |-> sequence, recorded |-> recorded]

committed_publications(n) == SubSeq(log, 1, n)

request_fingerprint(c, reference) == <<c, reference>>
Fingerprint(p) == request_fingerprint(p.command, p.reference)

\* _verify_publication: the five records name each other and the row.
_verify_publication(p) == p.recorded = p.sequence

\* rebuild: a contiguous verified stream in which no line is allocated twice.
Rebuilds(pubs) ==
  /\ \A i \in DOMAIN pubs : pubs[i].sequence = i /\ _verify_publication(pubs[i])
  /\ \A i, j \in DOMAIN pubs : pubs[i].command.line = pubs[j].command.line => i = j

View(pubs, line) == {p.command.purpose : p \in {q \in ToSet(pubs) : q.command.line = line}}

-----------------------------------------------------------------------------
(* create: authenticate on the loop, the rest in a thread.                 *)

At(c, step) == calls[c].at = step
Answered(c, outcome, result) ==
  calls' = [calls EXCEPT ![c].at = "done", ![c].outcome = outcome, ![c].result = result]
Rejected(c, outcome) == Answered(c, outcome, None)

_structural_error(c) == Cardinality({c.id, c.line, c.revision}) # 3

create(c, command, principal) ==
  /\ calls[c].at \in {"idle", "done"} /\ Use("calls", MaxCalls)
  /\ LET call == [at |-> "done", command |-> command, reference |-> trust.head, seen |-> 0,
                  outcome |-> None, result |-> None, number |-> used.calls]
     IN calls' = [calls EXCEPT ![c] =
          IF authenticate # "VALID" THEN [call EXCEPT !.outcome = authenticate]
          ELSE IF principal # Owner \/ _structural_error(command)
               THEN [call EXCEPT !.outcome = "DENIED"]
          ELSE [call EXCEPT !.at = "read"]]
  /\ UNCHANGED <<trust, fence, log, transaction, renders, wrote>>

\* transact: the copy the decision is taken on.
Read(c) ==
  /\ At(c, "read")
  /\ calls' = [calls EXCEPT ![c].at = "decide", ![c].seen = Len(log)]
  /\ UNCHANGED <<trust, fence, log, transaction, renders, used, wrote>>

\* The use case on that copy.
Decide(c) ==
  LET call == calls[c]
      pubs == committed_publications(call.seen)
      prior == {p \in ToSet(pubs) : p.command.id = call.command.id}
      taken == UNION {RecordIds(p.command) : p \in ToSet(pubs)}
      decision == revalidate(call.reference)
  IN
  /\ At(c, "decide")
  /\ IF \E p \in prior : Fingerprint(p) # request_fingerprint(call.command, call.reference)
     THEN Rejected(c, "CONFLICT")
     ELSE IF decision # "VALID" THEN Rejected(c, decision)
     ELSE IF prior # {} THEN \E p \in prior : Answered(c, "REPLAY", p)
     ELSE IF RecordIds(call.command) \cap taken # {} THEN Rejected(c, "CONFLICT")
     ELSE calls' = [calls EXCEPT ![c].at = "submit",
            ![c].result = _publication(call.command, call.reference,
                                       call.seen + 1, call.seen + 1)]
  /\ UNCHANGED <<trust, fence, log, transaction, renders, used, wrote>>

\* Mutant: the store does not compare the head.
HeadUnchecked(c) == TRUE

\* expected_head = len(existing)
HeadIsExpected(c) == Len(log) = calls[c].seen

\* The writer opens the transaction: an earlier publication of the same
\* command, the head, and the trust decide; the admitted one stays open.
Admit(c) ==
  LET call == calls[c]
      existing == {p \in ToSet(log) : p.command.id = call.command.id}
      decision == revalidate(call.reference)
  IN
  /\ At(c, "submit") /\ transaction = None
  /\ IF ~fence THEN Rejected(c, "RAISED") /\ UNCHANGED transaction
     ELSE IF existing # {} THEN
       /\ \E p \in existing : IF Fingerprint(p) = Fingerprint(call.result)
                              THEN Answered(c, "REPLAY", p) ELSE Rejected(c, "CONFLICT")
       /\ UNCHANGED transaction
     ELSE IF ~HeadIsExpected(c) THEN Rejected(c, "STALE") /\ UNCHANGED transaction
     ELSE IF decision # "VALID" THEN Rejected(c, decision) /\ UNCHANGED transaction
     ELSE transaction' = c /\ calls' = [calls EXCEPT ![c].at = "commit"]
  /\ UNCHANGED <<trust, fence, log, renders, used, wrote>>

\* The row gets the next sequence of the tenant, whatever the record says.
Commit(c) ==
  /\ At(c, "commit")
  /\ log' = Append(log, [calls[c].result EXCEPT !.sequence = Len(log) + 1])
  /\ transaction' = None /\ wrote' = wrote \cup {calls[c].number}
  /\ Answered(c, "COMMITTED", calls[c].result)
  /\ UNCHANGED <<trust, fence, renders, used>>

\* The transaction raises and is rolled back.
CommitFails(c) ==
  /\ At(c, "commit") /\ Use("faults", MaxFaults)
  /\ transaction' = None /\ Rejected(c, "RAISED")
  /\ UNCHANGED <<trust, fence, log, renders, wrote>>

\* The process stops and a new one opens the same files.
Restart ==
  /\ Use("faults", MaxFaults)
  /\ transaction' = None
  /\ calls' = [c \in Callers |-> IF calls[c].at = "done" THEN calls[c] ELSE NoCall]
  /\ renders' = [r \in Readers |-> NoCall]
  /\ UNCHANGED <<trust, fence, log, wrote>>

-----------------------------------------------------------------------------
(* render: the publications first, the projection of a later read second.  *)

render(r, principal) ==
  /\ renders[r].at \in {"idle", "shown", "denied"} /\ Use("renders", MaxRenders)
  /\ renders' = [renders EXCEPT ![r] =
       [at |-> IF authenticate = "VALID" /\ principal = Owner THEN "read" ELSE "denied"]]
  /\ UNCHANGED <<trust, fence, log, transaction, calls, wrote>>

ReadPublications(r) ==
  /\ renders[r].at = "read"
  /\ renders' = [renders EXCEPT ![r] = [at |-> "rebuild", seen |-> Len(log)]]
  /\ UNCHANGED <<trust, fence, log, transaction, calls, used, wrote>>

\* What the projection reads: the log as it is by then.
Projected(r) == committed_publications(Len(log))

RebuildAndShow(r) ==
  LET pubs == committed_publications(renders[r].seen)
      complete == Rebuilds(Projected(r))
        /\ \A i \in DOMAIN pubs : View(Projected(r), pubs[i].command.line) # {}
  IN
  /\ renders[r].at = "rebuild"
  /\ renders' = [renders EXCEPT ![r] =
       IF complete
       THEN [at |-> "shown",
             lines |-> [i \in DOMAIN pubs |->
                          <<pubs[i].command.line, View(Projected(r), pubs[i].command.line)>>]]
       ELSE [at |-> "integrity error"]]
  /\ UNCHANGED <<trust, fence, log, transaction, calls, used, wrote>>

-----------------------------------------------------------------------------
Next ==
  \/ bootstrap \/ ensure_fence \/ ChangeTrust \/ Restart
  \/ \E c \in Callers : Read(c) \/ Decide(c) \/ Admit(c) \/ Commit(c) \/ CommitFails(c)
  \/ \E c \in Callers, command \in Commands, principal \in Principals :
       create(c, command, principal)
  \/ \E r \in Readers : ReadPublications(r) \/ RebuildAndShow(r)
  \/ \E r \in Readers, principal \in Principals : render(r, principal)

Spec == Init /\ [][Next]_vars

-----------------------------------------------------------------------------
(* What create answers is what the log says: a COMMITTED answer carries    *)
(* the publication this call wrote, with the sequence the row has; a       *)
(* REPLAY answer carries the one the first call with the same bytes wrote; *)
(* after any other answer this call has written nothing.                   *)
OutcomesMatchTheLog ==
  \A c \in Callers : calls[c].at = "done" =>
    LET call == calls[c] IN
    CASE call.outcome = "COMMITTED" -> call.number \in wrote /\ call.result \in ToSet(log)
      [] call.outcome = "REPLAY" -> /\ call.number \notin wrote /\ call.result \in ToSet(log)
                                    /\ call.result.command = call.command
      [] OTHER -> call.number \notin wrote

(* A render between any creates succeeds: the projection it reads second   *)
(* rebuilds and has a view of every publication it read first, each with   *)
(* the purpose of the one publication that allocated the line.             *)
RendersSucceed ==
  \A r \in Readers :
    /\ renders[r].at # "integrity error"
    /\ renders[r].at = "shown" => \A i \in DOMAIN renders[r].lines :
         renders[r].lines[i] = <<log[i].command.line, {log[i].command.purpose}>>
=============================================================================
