----------------------------- MODULE CalendarReads -----------------------------
(***************************************************************************)
(* The calendar read broker (adapters/driven/calendar_reads.py) over its own *)
(* read ledger (platform/calendar_read_ledger.py): a peer acquires a        *)
(* snapshot of the provider's batch across an await, then reads it page by  *)
(* page with cursors, each page released through the durable ledger, and    *)
(* the exact reads are retained as evidence that is verified later, with    *)
(* and without the ledger.                                                 *)
(*                                                                         *)
(* _read never awaits, so reads of one broker do not interleave; the heads   *)
(* in the ledger are invalidated by others between any two of its           *)
(* transactions, and the ledger file may be replaced under it.              *)
(***************************************************************************)
EXTENDS Naturals, Sequences, FiniteSets, Functions, SequencesExt, ReadLedger

CONSTANTS
    Peers,      \* authenticated transport peers
    Batches,    \* what the provider may observe: a sequence of batches
    Agendas,    \* agenda queries: a set of [from, to] ranges
    Endpoint,   \* the peers' channel
    Attempts,   \* read attempt and response slot identities
    MaxRows,    \* max_rows of a request
    MaxHeads,   \* bound on changes of the policy head
    MaxSnapshots

VARIABLES
    provider,   \* index of the batch the provider observes now
    state,      \* CalendarReadState of the tenant
    replaced,   \* the ledger file is no longer the one the broker opened
    rows,       \* authority_read_releases of the ledger
    snapshots,  \* sequence of issued snapshots
    cursors,    \* cursor tokens: sequence of [snapshot, query, last]
    slots,      \* response slots already consumed
    originals,  \* _original_reads: retained exact reads
    acquiring,  \* peer -> state read before the await, or None
    reading     \* the read in progress, or None

vars == <<provider, state, replaced, rows, snapshots, cursors, slots, originals,
          acquiring, reading>>

Heads(policy, b) ==
    [epoch |-> 1, generation |-> 1, draining |-> FALSE, policy |-> policy,
     revision |-> Batches[b].revision, sources |-> Batches[b].sources]

Init ==
    /\ provider = 1
    /\ state = Heads(1, 1)
    /\ replaced = FALSE
    /\ rows = [a \in Attempts |-> None]
    /\ snapshots = <<>>
    /\ cursors = <<>>
    /\ slots = {}
    /\ originals = {}
    /\ acquiring = [p \in Peers |-> None]
    /\ reading = None

(***************************************************************************)
(* prepare_rows: every observation is of the current policy, its label is   *)
(* the meet of its sources' labels and admits the endpoint, and identities  *)
(* are unique; rows are sorted by start and identity.                       *)
(***************************************************************************)
Meet(sources) == {e \in UNION sources : \A s \in sources : e \in s}

Admits(o, policy) ==
    /\ o.from <= o.to
    /\ o.policy = policy
    /\ \A s \in o.labels : s # {}
    /\ Endpoint \in Meet(o.labels)

Rowable(batch, policy) ==
    /\ \A o \in batch.observations : Admits(o, policy)
    /\ \A o, q \in batch.observations : o.id = q.id => o = q

Earlier(o, q) == o.from < q.from \/ (o.from = q.from /\ o.id < q.id)

prepare_rows(batch) == SetToSortSeq(batch.observations, Earlier)

freshness(batch) ==
    LET all == {o.freshness : o \in batch.observations}
    IN  IF "UNKNOWN" \in all THEN "UNKNOWN"
        ELSE IF "LAGGING" \in all THEN "LAGGING" ELSE "CURRENT"

(***************************************************************************)
(* Invalidators: any registered head of the ledger may be replaced by a     *)
(* compare-and-set (one with a stale expectation is refused and changes       *)
(* nothing), and the provider moves to a later batch on its own.             *)
(***************************************************************************)
invalidate(policy, b) ==
    /\ policy <= MaxHeads
    /\ ~replaced
    /\ Heads(policy, b) # state
    /\ state' = _replace_state(state, state, Heads(policy, b))
    /\ UNCHANGED <<provider, replaced, rows, snapshots, cursors, slots, originals,
                   acquiring, reading>>

start_owner_drain ==
    /\ ~state.draining /\ ~replaced
    /\ state' = _replace_state(state, state, [state EXCEPT !.draining = TRUE])
    /\ UNCHANGED <<provider, replaced, rows, snapshots, cursors, slots, originals,
                   acquiring, reading>>

ProviderMoves ==
    /\ provider < Len(Batches)
    /\ provider' = provider + 1
    /\ UNCHANGED <<state, replaced, rows, snapshots, cursors, slots, originals,
                   acquiring, reading>>

ReplaceLedger ==
    /\ ~replaced
    /\ replaced' = TRUE
    /\ UNCHANGED <<provider, state, rows, snapshots, cursors, slots, originals,
                   acquiring, reading>>

(***************************************************************************)
(* acquire: the state is read, the provider awaited, and the state compared *)
(* again before a snapshot is issued; the ledger file is looked at only at  *)
(* the start.                                                               *)
(***************************************************************************)
StartAcquire(p) ==
    /\ acquiring[p] = None
    /\ Len(snapshots) < MaxSnapshots
    /\ ~replaced /\ ~state.draining
    /\ acquiring' = [acquiring EXCEPT ![p] = state]
    /\ UNCHANGED <<provider, state, replaced, rows, snapshots, cursors, slots,
                   originals, reading>>

(* Mutant: the batch's revision is compared, its source heads are not.      *)
RevisionMatches(batch, s) == batch.revision = s.revision

BatchMatches(batch, s) == batch.revision = s.revision /\ batch.sources = s.sources

FinishAcquire(p) ==
    LET s == acquiring[p]
        batch == Batches[provider] IN
    /\ s # None
    /\ reading = None
    /\ acquiring' = [acquiring EXCEPT ![p] = None]
    /\ snapshots' =
         IF /\ BatchMatches(batch, s)
            /\ Rowable(batch, s.policy)
            /\ ~batch.future
            /\ state = s
         THEN Append(snapshots, [state |-> s, peer |-> p, batch |-> batch])
         ELSE snapshots
    /\ UNCHANGED <<provider, state, replaced, rows, cursors, slots, originals, reading>>

(***************************************************************************)
(* _select: an agenda page after a cursor of the same snapshot and query,    *)
(* or the one row of a detail query.                                        *)
(***************************************************************************)
Overlaps(o, q) == o.from < q.to /\ o.to > q.from

Matching(batch, q) ==
    SelectSeq(prepare_rows(batch),
              LAMBDA o : IF q.kind = "DETAIL" THEN o.id = q.id ELSE Overlaps(o, q))

CursorAdmits(c, snap, q) == cursors[c].snapshot = snap /\ cursors[c].query = q

Selectable(snap, q, after) ==
    IF q.kind = "DETAIL" THEN after = None
    ELSE /\ q.from < q.to
         /\ after # None => CursorAdmits(after, snap, q)

_select(snap, q, after) ==
    SelectSeq(Matching(snapshots[snap].batch, q),
              LAMBDA o : after # None => Earlier(cursors[after].last, o))

Queries == {[kind |-> "AGENDA", id |-> 0, from |-> g.from, to |-> g.to] : g \in Agendas}
           \cup {[kind |-> "DETAIL", id |-> 1, from |-> 0, to |-> 0]}

Bounded(page) ==
    FoldSeq(LAMBDA o, n : n + Cardinality(o.labels), 0, page) <= MaxRows

(***************************************************************************)
(* _read, up to begin: a foreign snapshot is denied, a changed head makes    *)
(* the read stale, a slot is consumed before the page bound and the attempt  *)
(* identity are checked.                                                    *)
(***************************************************************************)
BeginRead(p, snap, q, after, a, slot) ==
    LET s == snapshots[snap].state
        found == _select(snap, q, after)
        page == SubSeq(found, 1, IF Len(found) < MaxRows THEN Len(found) ELSE MaxRows)
        more == Len(found) > MaxRows
        begun == Bounded(page) /\ rows[a] = None IN
    /\ reading = None
    /\ snapshots[snap].peer = p
    /\ ~replaced /\ state = s /\ freshness(snapshots[snap].batch) # "UNKNOWN"
    /\ Selectable(snap, q, after)
    /\ slot \notin slots
    /\ slots' = slots \cup {slot}
    /\ IF begun
       THEN /\ rows' = [rows EXCEPT ![a] = begin([epoch |-> s.epoch, generation |-> s.generation,
                                                  snapshot |-> snap, query |-> q, after |-> after,
                                                  attempt |-> a, slot |-> slot], s)]
            /\ cursors' = IF more
                          THEN Append(cursors, [snapshot |-> snap, query |-> q,
                                                last |-> page[MaxRows]])
                          ELSE cursors
            /\ reading' = [attempt |-> a, pc |-> "release",
                           result |-> [rows |-> page,
                                       cursor |-> IF more THEN Len(cursors) + 1 ELSE None]]
       ELSE UNCHANGED <<rows, cursors, reading>>
    /\ UNCHANGED <<provider, state, replaced, snapshots, originals, acquiring>>

ReleaseRead ==
    LET a == reading.attempt
        row == release(state, rows[a], rows[a].initial, reading.result) IN
    /\ reading # None
    /\ reading.pc = "release"
    /\ IF replaced
       THEN UNCHANGED rows /\ reading' = None
       ELSE /\ rows' = [rows EXCEPT ![a] = row]
            /\ reading' = IF row.state = "RELEASED" THEN [reading EXCEPT !.pc = "dequeue"]
                          ELSE None
    /\ UNCHANGED <<provider, state, replaced, snapshots, cursors, slots, originals, acquiring>>

(* dequeue, the exact receipt, and the retained original read.              *)
DequeueRead ==
    LET a == reading.attempt IN
    /\ reading # None
    /\ reading.pc = "dequeue"
    /\ reading' = None
    /\ IF replaced \/ ~CanDequeue(rows[a])
       THEN UNCHANGED <<rows, originals>>
       ELSE /\ rows' = [rows EXCEPT ![a] = dequeue(rows[a])]
            /\ originals' = originals \cup {[row |-> dequeue(rows[a]),
                                  batch |-> snapshots[rows[a].request.snapshot].batch]}
    /\ UNCHANGED <<provider, state, replaced, snapshots, cursors, slots, acquiring>>

(* A new broker over the same ledger: the rows stay, everything the broker   *)
(* held in memory is gone.                                                  *)
RestartBroker ==
    /\ ~replaced
    /\ snapshots # <<>>
    /\ snapshots' = <<>> /\ cursors' = <<>> /\ slots' = {}
    /\ originals' = {} /\ reading' = None
    /\ acquiring' = [p \in Peers |-> None]
    /\ UNCHANGED <<provider, state, replaced, rows>>

Next ==
    \/ \E n \in 1..MaxHeads, b \in 1..Len(Batches) : invalidate(n, b)
    \/ start_owner_drain \/ ProviderMoves \/ ReplaceLedger
    \/ \E p \in Peers : StartAcquire(p) \/ FinishAcquire(p)
    \/ \E p \in Peers, snap \in DOMAIN snapshots, q \in Queries,
          after \in DOMAIN cursors \cup {None}, a, slot \in Attempts :
         BeginRead(p, snap, q, after, a, slot)
    \/ ReleaseRead \/ DequeueRead
    \/ RestartBroker

Spec == Init /\ [][Next]_vars

-------------------------------------------------------------------------------
(***************************************************************************)
(* What later verification accepts: the receipt in the ledger is the exact   *)
(* released and dequeued row, and the historical decoder recomputes the      *)
(* page, its bound and its cursor from the retained batch and state alone.   *)
(***************************************************************************)
ReceiptMatches(o) == rows[o.row.request.attempt] = o.row

decode_h1_original_calendar_read(o) ==
    LET s == o.row.initial
        q == o.row.request.query
        found == Matching(o.batch, q)
        page == SubSeq(found, 1, IF Len(found) < MaxRows THEN Len(found) ELSE MaxRows) IN
    /\ ~s.draining
    /\ o.batch.revision = s.revision /\ o.batch.sources = s.sources
    /\ ~o.batch.future
    /\ Rowable(o.batch, s.policy)
    /\ Bounded(page)
    /\ o.row.result.rows = page
    /\ (o.row.result.cursor = None) = (Len(found) <= MaxRows)

(***************************************************************************)
(* Properties                                                              *)
(***************************************************************************)

(* Every retained original read (_original_reads) keeps verifying against    *)
(* the ledger after any later invalidation, and a first page also decodes    *)
(* historically (decode_h1_original_calendar_read) without the ledger.        *)
OriginalReadsVerify ==
    \A o \in originals :
        /\ ~replaced => ReceiptMatches(o)
        /\ o.row.request.after = None => decode_h1_original_calendar_read(o)

(* Pages joined by cursors partition one query: the page read after a cursor *)
(* starts with the row that follows the page that issued the cursor, in the   *)
(* same snapshot and for the same query.                                     *)
PagesPartitionTheQuery ==
    \A o, n \in originals :
        (o.row.result.cursor # None /\ n.row.request.after = o.row.result.cursor) =>
            /\ n.row.request.query = o.row.request.query
            /\ LET all == Matching(o.batch, o.row.request.query)
                   both == o.row.result.rows \o n.row.result.rows
               IN  \E i \in 0..Len(all) :
                     SubSeq(all, i + 1, i + Len(both)) = both
===============================================================================
