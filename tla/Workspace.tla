----------------------------- MODULE Workspace -----------------------------
(***************************************************************************)
(* The workspace read cut of the hermetic runtime: R13Workspace builds the *)
(* authenticated identity of the peer from the conversation and planning   *)
(* records it finds, publishes it as a policy record and opens an          *)
(* R12Workspace on it; the R12Workspace accepts conversation entries and   *)
(* reads one batch (conversation, journal, planning, calendar) that it     *)
(* releases, and releases again for every proposal, only while the cut is  *)
(* still the current one.                                                  *)
(*                                                                         *)
(* Calls are asyncio tasks: a step ends at an await, or where the writer   *)
(* thread of the appender may commit between two reads of the same call.   *)
(* Commits of the other owners, of assistant answers, of calendar states   *)
(* and of deletion fences, and a revoked peer, come in between.            *)
(***************************************************************************)
EXTENDS Naturals, Sequences, FiniteSets

CONSTANTS Tasks,       \* concurrent calls
          Runs,        \* run identities that ingest a prompt
          MaxRows,     \* max_rows of a batch
          None,
          MaxCalls,    \* bound: calls of R13Workspace
          MaxOthers    \* bound: commits and changes by other actors

VARIABLES log,        \* committed publications of the tenant
          fence,      \* deletion fence generation
          calendar,   \* version of the calendar read state
          peer,       \* identity registered for the peer, None when revoked
          current,    \* index of R13Workspace._issued, 0 when none
          spaces,     \* every R12Workspace opened
          tasks, calls, others

owners == <<log, fence, calendar, others>>
vars == <<log, fence, calendar, peer, current, spaces, tasks, calls, others>>

Idle == [pc |-> "idle"]

Init ==
  /\ log = <<>> /\ fence = 0 /\ calendar = 0 /\ peer = None
  /\ current = 0 /\ spaces = <<>>
  /\ tasks = [t \in Tasks |-> Idle] /\ calls = 0 /\ others = 0

Cut == [head |-> Len(log), fence |-> fence]
Rows(kind, n) == {log[i] : i \in {j \in 1..n : log[j].kind = kind}}
Entries(n) == Rows("conversation", n)
Go(t, r) == tasks' = [tasks EXCEPT ![t] = r]
With(t, pc) == [tasks[t] EXCEPT !.pc = pc]

\* A rejected call returns; the finally block of the workspace frees _active.
Rejected(t) == Go(t, Idle)
Freed(w) == [spaces EXCEPT ![w].active = None]

-----------------------------------------------------------------------------
(* R13Workspace._workspace.                                                *)

\* conversation_bindings: every accepted entry under its sequence and, unless it
\* is one of them, the new prompt of an ingest under the next sequence.
conversation_bindings(extra) ==
  LET entries == Entries(Len(log))
      fresh == {extra} \ ({None} \cup {e.id : e \in entries})
  IN entries \cup {[kind |-> "conversation", id |-> run,
                   sequence |-> Cardinality(entries) + 1] : run \in fresh}

\* What the peer's identity carries: the sources of those bindings, which do not
\* tell an accepted prompt from a new one, and the planning publications.
Identity(bindings) ==
  [sources |-> {e.id : e \in bindings}, lines |-> Rows("planning", Len(log))]

\* The new identity replaces the registered one and the previous workspace is
\* closed before the policy publication is awaited.
Bind(t, extra) ==
  /\ tasks[t].pc = "idle" /\ calls < MaxCalls /\ calls' = calls + 1
  /\ LET bindings == conversation_bindings(extra)  identity == Identity(bindings)
     IN /\ peer' = identity
        /\ Go(t, [pc |-> "policy", run |-> extra, bound |-> identity,
                  bindings |-> bindings, head |-> Len(log)])
  /\ spaces' = IF current = 0 THEN spaces
               ELSE [spaces EXCEPT ![current].closed = TRUE, ![current].issued = None]
  /\ UNCHANGED <<owners, current>>

PolicyOf(identity) == [kind |-> "policy", identity |-> identity]
Published(record) == \E i \in DOMAIN log : log[i] = record

\* The appender admits a publication only on the head its caller read.
AnyHead(head) == head <= Len(log)
AdmitsHead(head) == head = Len(log)

\* _install_policy: COMMITTED or REPLAY, else the call is rejected.
InstallPolicy(t) ==
  /\ tasks[t].pc = "policy"
  /\ IF Published(PolicyOf(tasks[t].bound)) THEN Go(t, With(t, "open")) /\ UNCHANGED log
     ELSE IF AdmitsHead(tasks[t].head)
     THEN Go(t, With(t, "open")) /\ log' = Append(log, PolicyOf(tasks[t].bound))
     ELSE Rejected(t) /\ UNCHANGED log
  /\ UNCHANGED <<fence, calendar, others, peer, current, spaces, calls>>

\* R12Workspace.__init__ binds the identity registered NOW, together with the
\* planning inventory and the conversation bindings of its own caller.
OpenWorkspace(t) ==
  /\ tasks[t].pc = "open"
  /\ IF peer = None THEN Rejected(t) /\ UNCHANGED <<spaces, current>>
     ELSE /\ spaces' = Append(spaces,
               [identity |-> peer, lines |-> tasks[t].bound.lines,
                bindings |-> tasks[t].bindings, closed |-> FALSE,
                active |-> None, issued |-> None])
          /\ current' = Len(spaces) + 1
          /\ Go(t, [pc |-> IF tasks[t].run = None THEN "batch" ELSE "accept",
                    ws |-> Len(spaces) + 1, run |-> tasks[t].run])
  /\ UNCHANGED <<owners, peer, calls>>

\* _validate_peer: open, and the registered identity is still the bound one.
ValidPeer(w) == ~spaces[w].closed /\ peer = spaces[w].identity

\* _context: the fence of the identity and its own policy record.
HasContext(w, cut) ==
  /\ ValidPeer(w) /\ cut.fence = 0
  /\ \E i \in 1..cut.head : log[i] = PolicyOf(spaces[w].identity)

\* _BatchContexts.validate: exactly the active context, and a valid peer.
ValidContext(t) == spaces[tasks[t].ws].active = t /\ ValidPeer(tasks[t].ws)

-----------------------------------------------------------------------------
(* accept: one conversation entry.                                         *)

NextSequence(n) == Cardinality(Entries(n)) + 1
EntryOf(id, n) == {e \in Entries(n) : e.id = id}

\* The finally block of accept.
Returned(w) == [spaces EXCEPT ![w].active = None, ![w].issued = None]

\* The context is issued whatever else is active; the entry, numbered by
\* _entry, is checked against its binding, and the head is read before the
\* history.
BeginAccept(t) ==
  /\ tasks[t].pc = "accept"
  /\ LET w == tasks[t].ws  n == Len(log)  run == tasks[t].run
         known == EntryOf(run, n)
         sequence == IF known # {} THEN (CHOOSE e \in known : TRUE).sequence
                                   ELSE NextSequence(n)
         bound == (CHOOSE e \in spaces[w].bindings : e.id = run).sequence
     IN IF ~HasContext(w, Cut) THEN Rejected(t) /\ UNCHANGED spaces
        ELSE IF sequence = bound
        THEN /\ spaces' = [spaces EXCEPT ![w].active = t]
             /\ Go(t, [pc |-> "append", ws |-> w, head |-> n,
                       entry |-> [kind |-> "conversation", id |-> run,
                                  sequence |-> sequence]])
        ELSE spaces' = Returned(w) /\ Rejected(t)
  /\ UNCHANGED <<owners, peer, current, calls>>

\* R3ConversationStore.append: replay, conflict, or the next sequence.
SubmitEntry(t) ==
  /\ tasks[t].pc = "append"
  /\ IF /\ ValidContext(t) /\ EntryOf(tasks[t].entry.id, Len(log)) = {}
        /\ tasks[t].entry.sequence = NextSequence(Len(log))
     THEN Go(t, With(t, "admit")) /\ UNCHANGED spaces
     ELSE spaces' = Returned(tasks[t].ws) /\ Rejected(t)
  /\ UNCHANGED <<owners, peer, current, calls>>

\* The writer admits it under the admission guard, then accept returns.
AdmitEntry(t) ==
  /\ tasks[t].pc = "admit"
  /\ log' = IF AdmitsHead(tasks[t].head) /\ ValidContext(t)
            THEN Append(log, tasks[t].entry) ELSE log
  /\ spaces' = Returned(tasks[t].ws) /\ Rejected(t)
  /\ UNCHANGED <<fence, calendar, others, peer, current, calls>>

-----------------------------------------------------------------------------
(* read_batch: one cut of every family.                                    *)

\* The active check is made before the calendar context is awaited, and not
\* again after it.
BeginBatch(t) ==
  /\ tasks[t].pc = "batch"
  /\ LET w == tasks[t].ws
     IN IF spaces[w].active # None THEN Rejected(t) /\ UNCHANGED spaces
        ELSE /\ spaces' = [spaces EXCEPT ![w].issued = None]
             /\ Go(t, [pc |-> "acquired", ws |-> w, cal |-> calendar])
  /\ UNCHANGED <<owners, peer, current, calls>>

\* ProvenanceClosures.check of every row, by its own binding.
Bound(w, entries) == entries \subseteq spaces[w].bindings

\* The guard: every source a row cites is one the peer's identity carries.
Disclosed(w, entries, lines) ==
  /\ {e.id : e \in entries} \subseteq spaces[w].identity.sources
  /\ lines \subseteq spaces[w].identity.lines

PlanningRows(n) == Rows("planning", n)
JournalRows(n) == Rows("journal", n)

\* The read transaction starts; the whole history must fit the batch and be
\* bound to its original inputs.
ReadHistory(t) ==
  /\ tasks[t].pc = "acquired"
  /\ LET w == tasks[t].ws  entries == Entries(Len(log))
     IN IF /\ HasContext(w, Cut) /\ Cardinality(entries) <= MaxRows
           /\ Disclosed(w, entries, {}) /\ Bound(w, entries)
        THEN /\ spaces' = [spaces EXCEPT ![w].active = t]
             /\ Go(t, [pc |-> "owners", ws |-> w, cal |-> tasks[t].cal,
                       calState |-> calendar, cut |-> Cut, history |-> entries])
        ELSE spaces' = Freed(w) /\ Rejected(t)
  /\ UNCHANGED <<owners, peer, current, calls>>

\* read_connection: readers inside a batch join its transaction.
ReadConnection(t) == tasks[t].cut.head

\* Journal and planning, the planning inventory complete.
ReadOwners(t) ==
  /\ tasks[t].pc = "owners"
  /\ LET w == tasks[t].ws  n == ReadConnection(t)
     IN IF ValidContext(t) /\ n = tasks[t].cut.head /\ PlanningRows(n) = spaces[w].lines
           /\ Disclosed(w, {}, PlanningRows(n))
        THEN /\ Go(t, [pc |-> "calendar", ws |-> w, cal |-> tasks[t].cal,
                       calState |-> tasks[t].calState, cut |-> tasks[t].cut,
                       history |-> tasks[t].history, planning |-> PlanningRows(n),
                       journal |-> JournalRows(n)])
             /\ UNCHANGED spaces
        ELSE spaces' = Freed(w) /\ Rejected(t)
  /\ UNCHANGED <<owners, peer, current, calls>>

\* The bound calendar port answers for the acquired context or not at all.
ReadCalendar(t) ==
  /\ tasks[t].pc = "calendar"
  /\ IF calendar = tasks[t].cal /\ ValidContext(t)
     THEN Go(t, With(t, "screens")) /\ UNCHANGED spaces
     ELSE spaces' = Freed(tasks[t].ws) /\ Rejected(t)
  /\ UNCHANGED <<owners, peer, current, calls>>

\* Workspace.refresh (module Screens) awaits the derivative registrations,
\* which require the fence; it validates the context before and after.
RefreshScreens(t) ==
  /\ tasks[t].pc = "screens"
  /\ IF ValidContext(t) /\ fence = tasks[t].cut.fence
     THEN Go(t, With(t, "release")) /\ UNCHANGED spaces
     ELSE spaces' = Freed(tasks[t].ws) /\ Rejected(t)
  /\ UNCHANGED <<owners, peer, current, calls>>

\* The digest of _read_state covers the heads, the fence and every row.
StateDigest(cut) == cut

\* _release: peer, tenant state and calendar state, read again.
Release(w, expected, calState) ==
  /\ ValidPeer(w) /\ StateDigest(Cut) = expected /\ calendar = calState

Batch(t) == [by |-> t, cut |-> tasks[t].cut, history |-> tasks[t].history,
             planning |-> tasks[t].planning, journal |-> tasks[t].journal,
             calendar |-> tasks[t].cal]

IssueBatch(t) ==
  /\ tasks[t].pc = "release"
  /\ LET w == tasks[t].ws  expected == StateDigest(tasks[t].cut)
     IN IF ValidContext(t) /\ Release(w, expected, tasks[t].calState)
        THEN /\ spaces' = [spaces EXCEPT ![w].active = None,
                 ![w].issued = [batch |-> Batch(t), expected |-> expected,
                                calState |-> tasks[t].calState]]
             /\ Go(t, [pc |-> "holds", ws |-> w, batch |-> Batch(t)])
        ELSE spaces' = Freed(w) /\ Rejected(t)
  /\ UNCHANGED <<owners, peer, current, calls>>

\* proposal_context: the exact issued batch, released again.
ProposalContext(t) ==
  LET issued == spaces[tasks[t].ws].issued
  IN issued # None /\ issued.batch = tasks[t].batch
     /\ Release(tasks[t].ws, issued.expected, issued.calState)

\* A proposal (or a history page) on the batch; a refusal drops the batch.
Propose(t) ==
  /\ tasks[t].pc \in {"holds", "detailed"}
  /\ IF ProposalContext(t) THEN Go(t, With(t, "proposed")) ELSE Rejected(t)
  /\ UNCHANGED <<owners, peer, current, spaces, calls>>

\* calendar_detail checks the proposal, awaits the calendar and checks again.
CalendarDetail(t) ==
  /\ tasks[t].pc = "holds"
  /\ IF ProposalContext(t) THEN Go(t, With(t, "detailed")) ELSE Rejected(t)
  /\ UNCHANGED <<owners, peer, current, spaces, calls>>

Done(t) ==
  /\ tasks[t].pc = "proposed" /\ Go(t, Idle)
  /\ UNCHANGED <<owners, peer, current, spaces, calls>>

-----------------------------------------------------------------------------
(* The other actors.                                                       *)

Other == others < MaxOthers /\ others' = others + 1

\* A commit of the planning or the journal owner.
OwnerCommits ==
  /\ Other
  /\ \E kind \in {"planning", "journal"} : log' = Append(log, [kind |-> kind, id |-> Len(log)])
  /\ UNCHANGED <<fence, calendar, peer, current, spaces, tasks, calls>>

\* A CompleteAcceptance publishes its answer as the next entry: the sequence
\* is computed after the snapshot whose head it expects.
AcceptanceCommits(run) ==
  /\ Other /\ EntryOf(<<run, "accepted">>, Len(log)) = {}
  /\ log' = Append(log, [kind |-> "conversation", id |-> <<run, "accepted">>,
                         sequence |-> NextSequence(Len(log))])
  /\ UNCHANGED <<fence, calendar, peer, current, spaces, tasks, calls>>

PublishCalendar ==
  /\ Other /\ calendar' = calendar + 1
  /\ UNCHANGED <<log, fence, peer, current, spaces, tasks, calls>>

AdvanceFence ==
  /\ Other /\ fence' = fence + 1
  /\ UNCHANGED <<log, calendar, peer, current, spaces, tasks, calls>>

Revoke ==
  /\ Other /\ peer' = None
  /\ UNCHANGED <<log, fence, calendar, current, spaces, tasks, calls>>

Next ==
  \/ \E t \in Tasks :
       \/ Bind(t, None)
       \/ \E run \in Runs : Bind(t, run)
       \/ InstallPolicy(t) \/ OpenWorkspace(t)
       \/ BeginAccept(t) \/ SubmitEntry(t) \/ AdmitEntry(t)
       \/ BeginBatch(t) \/ ReadHistory(t) \/ ReadOwners(t) \/ ReadCalendar(t)
       \/ RefreshScreens(t) \/ IssueBatch(t)
       \/ Propose(t) \/ CalendarDetail(t) \/ Done(t)
  \/ OwnerCommits \/ \E run \in Runs : AcceptanceCommits(run)
  \/ PublishCalendar \/ AdvanceFence \/ Revoke

Spec == Init /\ [][Next]_vars

-----------------------------------------------------------------------------
\* What the batch shows is what the tenant's store, its fence and the calendar
\* hold, under the identity the peer is registered with.
ShowsTheStore(w, batch) ==
  /\ batch.history = Entries(Len(log)) /\ batch.planning = Rows("planning", Len(log))
  /\ batch.journal = Rows("journal", Len(log)) /\ batch.calendar = calendar
  /\ fence = 0 /\ peer = spaces[w].identity
  /\ \E i \in DOMAIN log : log[i] = PolicyOf(peer)

\* Whenever proposal_context (or calendar_detail) answers, each family of the
\* batch, read through different connections across several awaits, is exactly
\* what the store holds at the answer, under the current peer identity.
ProposalsShowTheStore ==
  \A t \in Tasks : tasks'[t].pc = "proposed" /\ tasks[t].pc # "proposed" =>
    ShowsTheStore(tasks[t].ws, tasks[t].batch)

\* The accepted conversation keeps the shape _history and entries() insist on,
\* gap-free sequences and one entry per identity, whoever numbers the entries
\* concurrently; otherwise every later read would be refused for good.
ConversationStaysReadable ==
  /\ {e.sequence : e \in Entries(Len(log))} = 1..Cardinality(Entries(Len(log)))
  /\ \A i, j \in DOMAIN log :
       log[i].kind = "conversation" /\ log[j].kind = "conversation"
         /\ log[i].id = log[j].id => i = j

=============================================================================
