-------------------------- MODULE DeploymentTrust --------------------------
(***************************************************************************)
(* The deployment-trust aggregate (capabilities/deployment_trust/_model):  *)
(* one tenant's bootstrap, credential, evidence sources, transport         *)
(* witnesses, poll cursors and trust transitions.  Every operation appends *)
(* one decision to the journal, materializes it, and only then changes the *)
(* state in memory.  A new process rebuilds that state from the durable    *)
(* decisions alone.                                                        *)
(*                                                                         *)
(* On PostgreSQL the journal and its materialization are rows of one       *)
(* transaction, so an interrupted operation leaves neither.  On the R6     *)
(* files they are two stores: a crash may separate them, and so may an     *)
(* error of the second one: the caller gets the exception, and the process *)
(* runs on with the aggregate it had, over a journal that is ahead of it.  *)
(* A decision's identity, and a binding's digest, is the position of its   *)
(* decision.                                                               *)
(***************************************************************************)
EXTENDS Naturals, Sequences, FiniteSets, SequencesExt

CONSTANTS Principals, Credentials, Sources, Witnesses, Replays, Pages, Cursors,
          Transitions, Keys,
          None,
          MaxDecisions,  \* bound: journal length
          MaxAdvances,   \* bound: journal length with poll advances at its end
          MaxFaults      \* bound: interrupted operations

VARIABLES atomic,   \* is it PostgreSQL, where one transaction holds both stores?
          journal,  \* the durable decisions
          rows,     \* the materialized decisions, in row order
          svc,      \* the aggregate in memory, None while the process is down
          ranOn,    \* history: has a process appended past a decision it lacks?
          faults

vars == <<atomic, journal, rows, svc, ranOn, faults>>

Empty ==
  [phase |-> "NONE", generation |-> 0, key |-> None, epoch |-> 0, trust |-> 0, mat |-> 0,
   principal |-> None, token |-> None, cred |-> None, freshness |-> 0,
   sources |-> [s \in Sources |-> None], witnesses |-> [w \in Witnesses |-> None],
   consumed |-> {}, poll |-> [s \in Sources |-> [auth |-> None, applied |-> None]],
   pages |-> [p \in Sources \X Pages |-> None], pending |-> None]

Init ==
  /\ atomic \in BOOLEAN
  /\ journal = <<>> /\ rows = <<>> /\ svc = None
  /\ ranOn = FALSE /\ faults = 0

-----------------------------------------------------------------------------
(* Recovery: the state of a process that has only the durable decisions.   *)

Credential(d) == [id |-> d.id, head |-> d.head, session |-> d.session, revoked |-> FALSE]

\* Identity and phase, from the journal.
CoreStep(s, d, n) ==
  LET t == [s EXCEPT !.mat = n]
  IN CASE d.kind = "INITIALIZE" ->
            [t EXCEPT !.phase = "BOOTSTRAP_REQUIRED", !.generation = 1,
                      !.key = d.key, !.epoch = 1, !.trust = n]
       [] d.kind = "BOOTSTRAP" -> [t EXCEPT !.phase = "ACTIVE", !.generation = 2]
       [] d.kind = "TRUST_TRANSITION_PREPARED" -> [t EXCEPT !.phase = "PREPARED"]
       [] d.kind = "TRUST_TRANSITION_READY" -> [t EXCEPT !.phase = "READY"]
       [] d.kind = "TRUST_TRANSITION_ABORTED" -> [t EXCEPT !.phase = "ACTIVE"]
       [] d.kind = "TRUST_TRANSITION_ACCEPTED" ->
            [t EXCEPT !.phase = "ACTIVE", !.generation = @ + 1,
                      !.key = d.key, !.epoch = d.epoch, !.trust = n]
       [] d.kind \in {"OPERATOR_BINDING_KEY_ROTATION", "JOURNAL_ROOT_ROTATION"} ->
            [t EXCEPT !.generation = @ + 1, !.key = d.key, !.epoch = d.epoch, !.trust = n]
       [] d.kind = "PRINCIPAL_CONTOUR_PREREQUISITE" -> [t EXCEPT !.phase = "HOLD"]
       [] OTHER -> t

\* Mutant: a replayed revocation does not advance the freshness.
RevokedUnfresh(s) == [s EXCEPT !.cred.revoked = TRUE]
Revoked(s) == [s EXCEPT !.cred.revoked = TRUE, !.freshness = @ + 1]

\* Everything an operation may consult, from the materialized records.
AuthorityStep(s, d, n) ==
  CASE d.kind = "BOOTSTRAP" ->
         [s EXCEPT !.principal = d.principal, !.token = d.token,
                   !.cred = Credential(d), !.freshness = @ + 1]
    [] d.kind = "REGISTER_EVIDENCE_SOURCE" ->
         [s EXCEPT !.sources[d.source] = [head |-> d.head, late |-> FALSE]]
    [] d.kind \in {"ROTATE_CREDENTIAL", "EMERGENCY_RECOVERY"} ->
         [s EXCEPT !.cred = Credential(d), !.freshness = @ + 1]
    [] d.kind = "REVOKE_CREDENTIAL" /\ s.cred # None -> Revoked(s)
    [] d.kind = "TRANSPORT_WITNESS" ->
         [s EXCEPT !.witnesses[d.witness] = d.claim @@ [decision |-> n],
                   !.consumed = @ \cup {d.claim.replay}]
    [] d.kind = "AUTHENTICATED_LATE_EVIDENCE" /\ s.sources[d.source] # None ->
         [s EXCEPT !.sources[d.source].late = TRUE]
    [] d.kind = "POLL_RESPONSE_PAGE" ->
         [s EXCEPT !.pages[<<d.source, d.page>>] = [held |-> d.held, decision |-> n]]
    [] d.kind = "POLL_CURSOR_ADVANCE_AUTHORIZED" ->
         [s EXCEPT !.poll[d.source].auth =
            [cursor |-> d.cursor, page |-> d.page, sequence |-> d.sequence, decision |-> n]]
    [] d.kind = "POLL_CURSOR_APPLIED" ->
         [s EXCEPT !.poll[d.source].applied = [cursor |-> d.cursor, decision |-> n]]
    [] d.kind = "TRUST_TRANSITION_PREPARED" ->
         [s EXCEPT !.pending = [id |-> d.id, key |-> d.key, epoch |-> d.epoch,
                                head |-> n, phase |-> "PREPARED"]]
    [] d.kind = "TRUST_TRANSITION_READY" /\ s.pending # None ->
         [s EXCEPT !.pending.phase = "READY"]
    [] d.kind \in {"TRUST_TRANSITION_ABORTED", "TRUST_TRANSITION_ACCEPTED"} ->
         [s EXCEPT !.pending = None]
    [] OTHER -> s

\* The state rebuilt from the journal and from materialized rows in `order`.
Rebuilt(order) ==
  LET core[n \in 0..Len(journal)] ==
        IF n = 0 THEN Empty ELSE CoreStep(core[n - 1], journal[n], n)
      authority[n \in 0..Len(order)] ==
        IF n = 0 THEN core[Len(journal)]
        ELSE AuthorityStep(authority[n - 1], journal[order[n]], order[n])
  IN authority[Len(order)]

\* Materializes the missing decisions, in journal order, after the others.
Replay == LET missing == SelectSeq([i \in 1..Len(journal) |-> i],
                                   LAMBDA i : ~Contains(rows, i))
          IN rows \o missing

\* A process starts on whatever is durable.  It is configured with the key of
\* the last binding (any other configuration refuses to start).
Recover ==
  /\ svc = None
  /\ rows' = Replay /\ svc' = Rebuilt(Replay)
  /\ UNCHANGED <<atomic, journal, ranOn, faults>>

-----------------------------------------------------------------------------
(* _commit: append, materialize, then change the state in memory.          *)

\* The decision is materialized and its state installed.
Materialized(next) ==
  /\ rows' = Append(rows, Len(journal) + 1)
  /\ svc' = [next EXCEPT !.mat = Len(journal) + 1]
  /\ UNCHANGED faults

\* The materializer raises before the state in memory changes, or the process is
\* lost; of a transaction neither store keeps anything, nor its aggregate.
Interrupted ==
  /\ faults < MaxFaults /\ faults' = faults + 1
  /\ svc' = None \/ (~atomic /\ svc' = svc)
  /\ UNCHANGED rows

Commit(decision, next) ==
  /\ Len(journal) < (IF decision.kind = "POLL_CURSOR_ADVANCE_AUTHORIZED"
                     THEN MaxAdvances ELSE MaxDecisions)
  /\ ranOn' = (ranOn \/ svc.mat # Len(journal))
  /\ \/ Materialized(next) /\ journal' = Append(journal, decision)
     \/ /\ Interrupted
        /\ journal' = IF atomic THEN journal ELSE Append(journal, decision)
  /\ UNCHANGED atomic

\* The process ends between two operations.
Stop == svc # None /\ svc' = None /\ UNCHANGED <<atomic, journal, rows, ranOn, faults>>

-----------------------------------------------------------------------------
(* Operations.                                                             *)

Now == Len(journal) + 1
RequireActive == svc.phase = "ACTIVE"

initialize(key) ==
  /\ svc.phase = "NONE"
  /\ Commit([kind |-> "INITIALIZE", key |-> key],
            [svc EXCEPT !.phase = "BOOTSTRAP_REQUIRED", !.generation = 1,
                        !.key = key, !.epoch = 1, !.trust = Now])

\* A repeated token is answered with the current head and changes nothing.
bootstrap(principal, token, id) ==
  /\ svc.token = None /\ svc.phase = "BOOTSTRAP_REQUIRED" /\ svc.principal = None
  /\ LET d == [kind |-> "BOOTSTRAP", principal |-> principal, token |-> token,
               id |-> id, head |-> 1, session |-> TRUE]
     IN Commit(d, [svc EXCEPT !.principal = principal, !.cred = Credential(d),
                              !.token = token, !.freshness = @ + 1,
                              !.generation = 2, !.phase = "ACTIVE"])

register_evidence_source(source) ==
  /\ RequireActive /\ svc.sources[source] = None
  /\ LET head == Cardinality({s \in Sources : svc.sources[s] # None}) + 1
     IN Commit([kind |-> "REGISTER_EVIDENCE_SOURCE", source |-> source, head |-> head],
               [svc EXCEPT !.sources[source] = [head |-> head, late |-> FALSE]])

\* A replacement has no session until it is bound to one.
Replacement(kind, id) ==
  [kind |-> kind, id |-> id, head |-> svc.freshness + 1, session |-> FALSE]

rotate_credential(id) ==
  /\ RequireActive /\ svc.cred # None /\ ~svc.cred.revoked
  /\ LET d == Replacement("ROTATE_CREDENTIAL", id)
     IN Commit(d, [svc EXCEPT !.cred = Credential(d), !.freshness = @ + 1])

revoke ==
  /\ svc.cred # None
  /\ Commit([kind |-> "REVOKE_CREDENTIAL"],
            [svc EXCEPT !.cred.revoked = TRUE, !.freshness = @ + 1])

emergency_recover(id) ==
  /\ RequireActive /\ svc.cred # None /\ svc.principal # None
  /\ LET d == Replacement("EMERGENCY_RECOVERY", id)
     IN Commit(d, [svc EXCEPT !.cred = Credential(d), !.freshness = @ + 1])

issue_transport_witness(witness, replay) ==
  /\ RequireActive /\ replay \notin svc.consumed /\ svc.witnesses[witness] = None
  /\ LET claim == [replay |-> replay, credential |-> svc.cred.head,
                   trust |-> svc.trust, mat |-> svc.mat]
     IN Commit([kind |-> "TRANSPORT_WITNESS", witness |-> witness, claim |-> claim],
               [svc EXCEPT !.witnesses[witness] = claim @@ [decision |-> Now],
                           !.consumed = @ \cup {replay}])

\* Page membership is the raw page's; held: does a member await disposition?
record_poll_response_page(source, page, held) ==
  /\ RequireActive /\ svc.sources[source] # None /\ svc.pages[<<source, page>>] = None
  /\ Commit([kind |-> "POLL_RESPONSE_PAGE", source |-> source, page |-> page, held |-> held],
            [svc EXCEPT !.pages[<<source, page>>] = [held |-> held, decision |-> Now]])

\* An exact repeat is answered from memory; anything else advances by one.
Advances(source, page, sequence) ==
  LET auth == svc.poll[source].auth
  IN /\ auth # None => auth.page # page
     /\ sequence = (IF auth = None THEN 0 ELSE auth.sequence) + 1

authorize_poll_cursor(source, cursor, page, sequence) ==
  /\ RequireActive /\ svc.sources[source] # None
  /\ svc.pages[<<source, page>>] # None /\ ~svc.pages[<<source, page>>].held
  /\ Advances(source, page, sequence)
  /\ Commit([kind |-> "POLL_CURSOR_ADVANCE_AUTHORIZED", source |-> source,
             cursor |-> cursor, page |-> page, sequence |-> sequence],
            [svc EXCEPT !.poll[source].auth =
               [cursor |-> cursor, page |-> page, sequence |-> sequence, decision |-> Now]])

apply_poll_cursor(source, cursor) ==
  LET auth == svc.poll[source].auth  applied == svc.poll[source].applied
  IN /\ auth # None /\ auth.cursor = cursor
     /\ applied # None => applied.cursor # cursor
     /\ Commit([kind |-> "POLL_CURSOR_APPLIED", source |-> source, cursor |-> cursor,
                page |-> auth.page],
               [svc EXCEPT !.poll[source].applied = [cursor |-> cursor, decision |-> Now]])

mark_authenticated_late_evidence(source) ==
  /\ svc.sources[source] # None
  /\ Commit([kind |-> "AUTHENTICATED_LATE_EVIDENCE", source |-> source],
            [svc EXCEPT !.sources[source].late = TRUE])

hold_future_contour ==
  /\ RequireActive
  /\ Commit([kind |-> "PRINCIPAL_CONTOUR_PREREQUISITE"], [svc EXCEPT !.phase = "HOLD"])

prepare_trust_transition(id, key) ==
  /\ RequireActive /\ svc.pending = None
  /\ LET epoch == IF key = None THEN svc.epoch + 1 ELSE 0
     IN Commit([kind |-> "TRUST_TRANSITION_PREPARED", id |-> id, key |-> key, epoch |-> epoch],
               [svc EXCEPT !.phase = "PREPARED",
                           !.pending = [id |-> id, key |-> key, epoch |-> epoch,
                                        head |-> Now, phase |-> "PREPARED"]])

PendingIs(id, phase) == svc.pending # None /\ svc.pending.id = id /\ svc.pending.phase = phase

mark_transition_ready(id) ==
  /\ PendingIs(id, "PREPARED") /\ svc.mat = Len(journal)
  /\ Commit([kind |-> "TRUST_TRANSITION_READY", id |-> id],
            [svc EXCEPT !.pending.phase = "READY", !.phase = "READY"])

abort_trust_transition(id) ==
  /\ PendingIs(id, "PREPARED")
  /\ Commit([kind |-> "TRUST_TRANSITION_ABORTED", id |-> id],
            [svc EXCEPT !.pending = None, !.phase = "ACTIVE"])

accept_trust_transition(id) ==
  /\ PendingIs(id, "READY")
  /\ LET key == IF svc.pending.key = None THEN svc.key ELSE svc.pending.key
         epoch == IF svc.pending.epoch = 0 THEN svc.epoch ELSE svc.pending.epoch
     IN Commit([kind |-> "TRUST_TRANSITION_ACCEPTED", id |-> id, key |-> key, epoch |-> epoch],
               [svc EXCEPT !.key = key, !.epoch = epoch, !.trust = Now, !.pending = None,
                           !.generation = @ + 1, !.phase = "ACTIVE"])

rotate_binding_key(key) ==
  /\ RequireActive
  /\ Commit([kind |-> "OPERATOR_BINDING_KEY_ROTATION", key |-> key, epoch |-> svc.epoch],
            [svc EXCEPT !.key = key, !.trust = Now, !.generation = @ + 1])

rotate_journal_root ==
  /\ RequireActive
  /\ Commit([kind |-> "JOURNAL_ROOT_ROTATION", key |-> svc.key, epoch |-> svc.epoch + 1],
            [svc EXCEPT !.epoch = @ + 1, !.trust = Now, !.generation = @ + 1])

Operation ==
  \/ \E k \in Keys : initialize(k) \/ rotate_binding_key(k)
  \/ \E p \in Principals, c \in Credentials : bootstrap(p, p, c)
  \/ \E c \in Credentials : rotate_credential(c) \/ emergency_recover(c)
  \/ revoke \/ hold_future_contour \/ rotate_journal_root
  \/ \E w \in Witnesses, r \in Replays : issue_transport_witness(w, r)
  \/ \E s \in Sources :
       \/ register_evidence_source(s) \/ mark_authenticated_late_evidence(s)
       \/ \E p \in Pages, held \in BOOLEAN : record_poll_response_page(s, p, held)
       \/ \E c \in Cursors : apply_poll_cursor(s, c)
       \/ \E c \in Cursors, p \in Pages, n \in 1..Cardinality(Pages) :
            authorize_poll_cursor(s, c, p, n)
  \/ \E t \in Transitions :
       \/ mark_transition_ready(t) \/ abort_trust_transition(t) \/ accept_trust_transition(t)
       \/ \E k \in Keys \cup {None} : prepare_trust_transition(t, k)

Next ==
  \/ Recover \/ Stop
  \/ svc # None /\ Operation

Spec == Init /\ [][Next]_vars

-----------------------------------------------------------------------------
\* A process that recovers has the very authority the one before it had: what
\* the live aggregate holds after each completed operation is what a replay of
\* the durable decisions yields, phase, binding, credential and its freshness,
\* consumed replays, poll cursors and the unresolved transition included.  After
\* a materialization that failed a restart brings it back; if the process
\* appends another decision instead, that is lost for good, because recovery
\* puts the missing records last.
ReplayYieldsTheLiveState ==
  svc # None /\ ~ranOn /\ svc.mat = Len(journal) =>
    svc = Rebuilt([i \in 1..Len(journal) |-> i])

\* The cursor of a poll source never skips a step and advances only over pages
\* whose members are all disposed of, whatever failed; unless a process ran on
\* past a decision it lacks, no step is taken twice, whatever was repeated after
\* a crash that hid the first answer.
PollAdvancesInOrder ==
  LET Advance(n) == journal[n].kind = "POLL_CURSOR_ADVANCE_AUTHORIZED"
      Before(n) == {m \in 1..(n - 1) : Advance(m) /\ journal[m].source = journal[n].source}
  IN \A n \in 1..Len(journal) : Advance(n) =>
       /\ journal[n].sequence \in {1} \cup {journal[m].sequence + 1 : m \in Before(n)}
       /\ ranOn \/ journal[n].sequence = Cardinality(Before(n)) + 1
       /\ \E m \in 1..(n - 1) : /\ journal[m].kind = "POLL_RESPONSE_PAGE"
                                /\ journal[m].page = journal[n].page
                                /\ ~journal[m].held

=============================================================================
