---------------------------- MODULE AuthorityReads ----------------------------
(***************************************************************************)
(* Bounded, verified reads of the authority database: BrokerAuthorityReader *)
(* (platform/authority_reads.py) over the read ledger, driven page by page  *)
(* by R7PlanningRuntime._verified_publications (composition/r7_planning.py).*)
(*                                                                         *)
(* A read crosses three files that nothing locks together: the read ledger, *)
(* the SQLite database and its commitment anchor.  Publications of another   *)
(* process, generation restarts and a database file restored from an older  *)
(* copy fall between any two steps of a walk.                               *)
(*                                                                         *)
(* A commitment is the committed sequence of operation kinds itself; the    *)
(* file/WAL observation is the number of the database file in place.        *)
(***************************************************************************)
EXTENDS Naturals, Sequences, FiniteSets, ReadLedger

CONSTANTS
    Readers,      \* callers of _verified_publications, one walk at a time
    PageSize,     \* _READ_PAGE_SIZE
    MaxStore,     \* bound on committed publications
    MaxEpoch,     \* bound on generations started
    MaxRestores,  \* bound on replacements of the database file
    MaxWalks      \* bound on walks started by one reader

\* What the constants have to satisfy.
ReadBounds == PageSize \in Nat \ {0} /\ None \notin Readers

Kinds == {"line", "other"}

VARIABLES
    store,        \* committed publications: sequence of kinds
    file,         \* identity of the database file in place
    anchor,       \* AuthorityCommitmentJournal: the authenticated commitment
    readState,    \* BrokerReadState of the tenant
    rows,         \* authority_read_releases: reader -> row of its attempt
    walk,         \* _verified_publications: locals of each reader
    restores

vars == <<store, file, anchor, readState, rows, walk, restores>>

(***************************************************************************)
(* _execute_planning_read: the page after a key, in commit order, limited.  *)
(***************************************************************************)
Lines(s) == SelectSeq([i \in 1..Len(s) |-> i], LAMBDA i : s[i] = "line")

Page(s, after, max) ==
    LET rest == SelectSeq(Lines(s), LAMBDA i : i > after)
    IN  SubSeq(rest, 1, IF Len(rest) < max THEN Len(rest) ELSE max)

State(epoch, commitment, observation, mutation) ==
    [epoch |-> epoch, generation |-> epoch, draining |-> FALSE,
     commitment |-> commitment, observation |-> observation, mutation |-> mutation]

(* The commitment covers every authority row, the observation identifies the  *)
(* database file and its log; both are injective.                            *)
Commitment(s) == s
FileObservation(f) == f

Idle == [pc |-> "idle", epoch |-> 0, state |-> None, after |-> 0, got |-> <<>>,
         frontier |-> None, page |-> None, floor |-> 0, walks |-> 0]

Init ==
    /\ store = <<>>
    /\ file = 0
    /\ anchor = <<>>
    /\ readState = State(1, <<>>, 0, 0)
    /\ rows = [r \in Readers |-> None]
    /\ walk = [r \in Readers |-> Idle]
    /\ restores = 0

(* AuthorityCommitmentJournal: one authenticated file, replaced atomically.   *)
load == anchor
commit(c) == anchor' = c

Unread == UNCHANGED <<rows, walk>>
Unwritten == UNCHANGED <<store, file, anchor, readState, restores>>

(***************************************************************************)
(* Writers.  A publication commits to SQLite while the gate is held; its    *)
(* finalization anchors the result and then invalidates the read state, and *)
(* a crash may fall before either.                                          *)
(***************************************************************************)
Publish(k) ==
    /\ Len(store) < MaxStore
    /\ load = Commitment(store)
    /\ readState.commitment = Commitment(store)
    /\ store' = Append(store, k)
    /\ UNCHANGED <<file, anchor, readState, restores>> /\ Unread

AnchorPublication ==
    /\ Len(store) = Len(load) + 1
    /\ SubSeq(store, 1, Len(load)) = load
    /\ commit(Commitment(store))
    /\ UNCHANGED <<store, file, readState, restores>> /\ Unread

invalidate_storage_mutation ==
    /\ load = Commitment(store)
    /\ readState.commitment # anchor \/ readState.observation # file
    /\ readState.commitment \in {anchor, SubSeq(anchor, 1, Len(anchor) - 1)}
    /\ readState' = State(readState.epoch, anchor, file, readState.mutation + 1)
    /\ UNCHANGED <<store, file, anchor, restores>> /\ Unread

(***************************************************************************)
(* A restarted generation: refused unless the database matches its anchor.  *)
(***************************************************************************)
restart_generation ==
    /\ readState.epoch < MaxEpoch
    /\ load = Commitment(store)
    /\ rows' = reconcile_generation(rows)
    /\ readState' = State(readState.epoch + 1, anchor, file, 0)
    /\ UNCHANGED <<store, file, anchor, walk, restores>>

(* The database restored from an older copy, as a new file or in place.     *)
RestoreFile(n, inPlace) ==
    /\ restores < MaxRestores
    /\ restores' = restores + 1
    /\ n <= Len(store)
    /\ store' = SubSeq(store, 1, n)
    /\ file' = IF inPlace THEN file ELSE file + 1
    /\ UNCHANGED <<anchor, readState>> /\ Unread

(***************************************************************************)
(* _verified_publications starts with the session of the running            *)
(* generation.                                                             *)
(***************************************************************************)
StartWalk(r) ==
    /\ walk[r].pc = "idle"
    /\ walk[r].walks < MaxWalks
    /\ walk' = [walk EXCEPT ![r] =
         [Idle EXCEPT !.pc = "execute", !.epoch = readState.epoch,
                      !.floor = Len(readState.commitment), !.walks = @ + walk[r].walks + 1]]
    /\ UNCHANGED rows /\ Unwritten

Fail(r) == walk' = [walk EXCEPT ![r] = [Idle EXCEPT !.walks = walk[r].walks]]

ValidRequestState(r) ==
    walk[r].epoch = readState.epoch /\ ~readState.draining

(* current_state, _validate_request_state and begin of a fresh attempt.     *)
execute(r) ==
    /\ walk[r].pc = "execute"
    /\ IF ValidRequestState(r)
       THEN /\ rows' = [rows EXCEPT ![r] =
                 begin([epoch |-> walk[r].epoch, generation |-> walk[r].epoch,
                        after |-> walk[r].after], readState)]
            /\ walk' = [walk EXCEPT ![r].pc = "snapshot", ![r].state = readState]
       ELSE UNCHANGED rows /\ Fail(r)
    /\ Unwritten

VerifiedSnapshot(r) ==
    /\ FileObservation(file) = walk[r].state.observation
    /\ Commitment(store) = walk[r].state.commitment

(* The read transaction: observation, commitment, frontier and one page.    *)
ReadSnapshot(r) ==
    /\ walk[r].pc = "snapshot"
    /\ IF VerifiedSnapshot(r)
       THEN walk' = [walk EXCEPT ![r].pc = "release",
                       ![r].page = [frontier |-> Len(store),
                                    lines |-> Page(store, walk[r].after, PageSize)]]
       ELSE Fail(r)
    /\ UNCHANGED rows /\ Unwritten

(* The observation is taken again, then the row is released or fenced.      *)
Release(r) ==
    /\ walk[r].pc = "release"
    /\ IF FileObservation(file) = walk[r].state.observation
       THEN LET row == release(readState, rows[r], walk[r].state, walk[r].page) IN
            /\ rows' = [rows EXCEPT ![r] = row]
            /\ IF row.state = "RELEASED"
               THEN walk' = [walk EXCEPT ![r].pc = "dequeue"]
               ELSE Fail(r)
       ELSE UNCHANGED rows /\ Fail(r)
    /\ Unwritten

(***************************************************************************)
(* dequeue, and what _verified_publications does with the emitted page: an  *)
(* unequal frontier ends the walk, a short page completes it.               *)
(***************************************************************************)
FrontierAgrees(w, p) == w.frontier # None => w.frontier = p.frontier

(* Mutant: a full page is taken for the last one.                           *)
TakeLastPage(r, p) ==
    walk' = [walk EXCEPT ![r].got = @ \o p.lines, ![r].frontier = p.frontier,
               ![r].page = None, ![r].state = None,
               ![r].pc = IF Len(p.lines) <= PageSize THEN "done" ELSE "execute"]

TakePage(r, p) ==
    LET got == walk[r].got \o p.lines IN
    walk' = [walk EXCEPT ![r].got = got, ![r].frontier = p.frontier, ![r].page = None,
               ![r].state = None,
               ![r].pc = IF Len(p.lines) < PageSize THEN "done" ELSE "execute",
               ![r].after = IF p.lines = <<>> THEN @ ELSE p.lines[Len(p.lines)]]

Dequeue(r) ==
    /\ walk[r].pc = "dequeue"
    /\ IF CanDequeue(rows[r])
       THEN /\ rows' = [rows EXCEPT ![r] = dequeue(rows[r])]
            /\ IF FrontierAgrees(walk[r], rows[r].result)
               THEN TakePage(r, rows[r].result)
               ELSE Fail(r)
       ELSE UNCHANGED rows /\ Fail(r)
    /\ Unwritten

(* The caller consumes the completed walk.                                  *)
ReturnWalk(r) ==
    /\ walk[r].pc = "done"
    /\ Fail(r)
    /\ UNCHANGED rows /\ Unwritten

Next ==
    \/ \E k \in Kinds : Publish(k)
    \/ AnchorPublication
    \/ invalidate_storage_mutation
    \/ restart_generation
    \/ \E n \in 0..MaxStore, inPlace \in BOOLEAN : RestoreFile(n, inPlace)
    \/ \E r \in Readers :
         \/ StartWalk(r) \/ execute(r) \/ ReadSnapshot(r)
         \/ Release(r) \/ Dequeue(r) \/ ReturnWalk(r)

Spec == Init /\ [][Next]_vars

-------------------------------------------------------------------------------
(***************************************************************************)
(* Properties                                                              *)
(***************************************************************************)

(* A walk that completes (_verified_publications returning) holds, in commit *)
(* order and without gap or repetition, every line of one prefix of the      *)
(* anchored history, and that prefix includes everything invalidated before  *)
(* the walk began, whatever was published, restarted or restored meanwhile.  *)
ReadIsOneAnchoredSnapshot ==
    \A r \in Readers : walk[r].pc = "done" =>
        /\ walk[r].frontier <= Len(anchor)
        /\ walk[r].frontier >= walk[r].floor
        /\ walk[r].got = Lines(SubSeq(anchor, 1, walk[r].frontier))

(* A response is released (BrokerReadLedger.release) only while the read     *)
(* state is the one its page was verified against: no page read before an    *)
(* invalidation or a restart is released after it.                           *)
ReleasedUnderCurrentState ==
    \A r \in Readers :
      (rows[r] # None /\ rows[r].state = "PENDING" /\ rows'[r].state = "RELEASED") =>
         /\ rows'[r].result.frontier = Len(readState.commitment)
         /\ rows[r].request.epoch = readState.epoch
===============================================================================
