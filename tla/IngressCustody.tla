---------------------------- MODULE IngressCustody ----------------------------
(***************************************************************************)
(* One admission epoch of the ingress broker: the pure ingress reducers of *)
(* platform/_ingress_domain.py, and the sole writer that applies them to   *)
(* the selected snapshot, one command at a time and in any order the       *)
(* guards allow.                                                           *)
(*                                                                         *)
(* A custody snapshot holds one entry per receipt token.  A reducer that   *)
(* raises IngressHold or IngressConflict is a guard that is false; an      *)
(* exact replay returns the snapshot unchanged.  Raw bytes are natural     *)
(* numbers that stand for their own length and digest; a head is the       *)
(* tuple its digest is computed from.  A command carries the heads its     *)
(* author observed, so it may be stale when it is applied.  What the       *)
(* broker enumerates for a drain, and the proof that the producers stopped *)
(* (DrainQuiescence), come from outside the reducers.                      *)
(***************************************************************************)
EXTENDS Naturals, Sequences, FiniteSets, FiniteSetsExt

CONSTANTS
    None,
    Tokens,     \* receipt identities
    TokenOf,    \* the ReceiptToken of every identity
    Fence,      \* the admission fence of the epoch
    Raws,       \* raw receives
    Attempts,   \* parser attempt identities
    Reserve     \* the ClassReserve of every source class

VARIABLES
    snap,        \* the selected CustodySnapshot
    quarantines, \* the QuarantineState of every quarantined receipt
    proof,       \* the inventory the producers' quiescence was proved for
    manifest     \* the published DrainManifest, or None

vars == <<snap, quarantines, proof, manifest>>

-----------------------------------------------------------------------------
LocalCustody == {"ADMITTED_DURABLE", "QUARANTINED_RAW_EVIDENCE"}

\* The head an entry has: its allocation, or the staging on top of it.
state_head(e) ==
    IF e.staged = None THEN <<"token-allocation", e.token, e.mode, e.proof>>
    ELSE <<"token-raw-stage", e.token, e.mode, e.proof, e.staged>>

CustodySnapshot(fence) == [state |-> "OPEN", fence |-> fence, entries |-> <<>>]
WithEntry(s, id, e) ==
    [s EXCEPT !.entries = [i \in DOMAIN s.entries \cup {id} |->
                              IF i = id THEN e ELSE s.entries[i]]]
-----------------------------------------------------------------------------
\* allocate_token, when it proposes a new entry.  A token names its slot, its
\* class, its admission fence and the size of the receive.
CanAllocate(s, id, token, mode, retention) ==
    /\ mode \in {"LOSS_SLOT", "RETAINED_SOURCE"}
    /\ (mode = "RETAINED_SOURCE") = (retention # None)
    /\ id \notin DOMAIN s.entries
    /\ s.state = "OPEN"
    /\ token.fence = s.fence
    /\ \A i \in DOMAIN s.entries : s.entries[i].token.slot # token.slot

allocate_token(s, id, token, mode, retention) ==
    WithEntry(s, id, [token |-> token, mode |-> mode, proof |-> retention,
                      staged |-> None, custody |-> None])

\* Mutant: bytes may be staged after the custody of the receipt was published.
CanStageLate(s, id, raw) ==
    /\ id \in DOMAIN s.entries /\ raw <= s.entries[id].token.maximum
    /\ s.entries[id].staged = None /\ s.state # "CLOSED"

\* stage_raw, when it stages new bytes.
CanStage(s, id, raw) ==
    /\ id \in DOMAIN s.entries
    /\ raw <= s.entries[id].token.maximum
    /\ s.entries[id].staged = None
    /\ s.entries[id].custody = None /\ s.state # "CLOSED"

stage_raw(s, id, raw) == WithEntry(s, id, [s.entries[id] EXCEPT !.staged = raw])

\* publish_custody: one successor, of the current head, closed over the bytes.
CanPublish(s, id, c) ==
    LET e == s.entries[id] IN
    /\ id \in DOMAIN s.entries
    /\ c.token = state_head(e)
    /\ e.custody = None
    /\ c.kind \in LocalCustody =>
          /\ e.staged # None /\ c.raw = e.staged
          /\ c.auth = [raw |-> e.staged, class |-> e.token.class]
    /\ c.kind = "RETRY_WITH_SOURCE_CUSTODY" =>
          e.mode = "RETAINED_SOURCE" /\ c.proof = e.proof
    /\ c.kind = "LOSS_OBLIGATION" => c.slot = e.token.slot

publish_custody(s, id, c) == WithEntry(s, id, [s.entries[id] EXCEPT !.custody = c])

CanQuiesce(s) == s.state = "OPEN"
quiesce(s) == [s EXCEPT !.state = "QUIESCING"]

CanBeginDrain(s) ==
    /\ s.state \in {"QUIESCING", "DRAINING"}
    /\ \A i \in DOMAIN s.entries : s.entries[i].custody # None
begin_drain(s) == [s EXCEPT !.state = "DRAINING"]
-----------------------------------------------------------------------------
(* Quarantined evidence: parser attempts over immutable bytes.  The current  *)
(* head of the lineage is the sequence of everything that happened to it.    *)

quarantine_genesis(c) ==
    [custody |-> c, head |-> <<>>, selected |-> None, retry |-> None,
     result |-> None, completed |-> {}]

CanSelect(q, expected, attempt) ==
    /\ q.result # None => q.result.kind = "RETRY_OR_HOLD"
    /\ q.selected = None
    /\ expected = q.head
    /\ attempt \notin q.completed

select_quarantine_parser(q, expected, attempt) ==
    [q EXCEPT !.selected = attempt, !.retry = expected,
              !.head = Append(@, <<"select", attempt>>)]

\* The inbox identity is derived from the custody alone, whoever parses it.
stable_inbox(q) == <<"quarantine-inbox", q.custody>>

CanFinish(q, attempt, result) ==
    /\ q.selected = attempt
    /\ result.custody = q.custody
    /\ result.kind = "MATERIALIZED" => result.inbox = stable_inbox(q)

finish_quarantine_parser(q, attempt, result) ==
    [q EXCEPT !.selected = None, !.retry = None, !.result = result,
              !.completed = @ \cup {attempt},
              !.head = Append(@, <<"finish", attempt, result.kind>>)]
-----------------------------------------------------------------------------
(* Closing an epoch.  An inventory names where the broker found every        *)
(* receipt: the ready and blocked queues, the settled work, the quarantines, *)
(* the fenced parsers and the physical occupancy.                            *)

Places == {"ready", "blocked", "settled", "quarantine"}
Queued(inv, id) == inv.place[id] \cap {"ready", "blocked"} # {}

\* drain_inventory_fingerprint: everything a restart would need.
drain_inventory_fingerprint(s, qs, inv) == <<s, qs, inv>>

\* Each receipt is accounted for exactly once.
AccountedOnce(s, inv) ==
    \A i \in DOMAIN s.entries : Cardinality(inv.place[i]) = 1

validate_reserve_accounting(reserve, items, bytes, quarantined) ==
    /\ items <= reserve.items /\ bytes <= reserve.bytes
    /\ quarantined <= reserve.quarantine

\* Class by class, the occupied receipts fit the reserve of their class.
WithinReserves(s, inv, reserve) ==
    \A class \in DOMAIN reserve :
        LET mine == {i \in inv.occupied : s.entries[i].token.class = class}
            size(i) == IF s.entries[i].staged = None THEN 0 ELSE s.entries[i].staged
            held == {i \in mine :
                        s.entries[i].custody.kind = "QUARANTINED_RAW_EVIDENCE"} IN
        validate_reserve_accounting(reserve[class], Cardinality(mine),
                                    MapThenSumSet(size, mine), Cardinality(held))

\* close_drain: when the complete CLOSED proposal exists.  The deadlines of the
\* ready bounds are module IngressFairness.
CanClose(s, qs, inv, quiescence, reserve) ==
    /\ s.state = "DRAINING"
    /\ quiescence = drain_inventory_fingerprint(s, qs, inv)
    /\ \A i \in DOMAIN s.entries :
          LET e == s.entries[i] IN
          /\ e.custody # None /\ e.custody.token = state_head(e)
          /\ e.token.fence = s.fence
          /\ e.custody.kind \in LocalCustody => e.custody.raw = e.staged
          /\ Queued(inv, i) => e.custody.kind = "ADMITTED_DURABLE"
          /\ "quarantine" \in inv.place[i] =>
                i \in DOMAIN qs /\ qs[i].custody = e.custody
    /\ inv.fenced = {i \in DOMAIN qs :
                        "quarantine" \in inv.place[i] /\ qs[i].selected # None}
    /\ AccountedOnce(s, inv)
    /\ \A i \in DOMAIN s.entries :
          Queued(inv, i) \/ "quarantine" \in inv.place[i] => i \in inv.occupied
    /\ WithinReserves(s, inv, reserve)

close_drain(s) == [s EXCEPT !.state = "CLOSED"]
-----------------------------------------------------------------------------
\* The heads some author may have observed for a receipt.
ObservedHeads(t) ==
    {state_head([snap.entries[t] EXCEPT !.staged = r]) : r \in Raws \cup {None}}

\* The custody successors a caller may propose.
Successors(t) ==
    LET token == snap.entries[t].token IN
    [kind : LocalCustody, token : ObservedHeads(t), raw : Raws,
     auth : [raw : Raws, class : {token.class}]]
    \cup [kind : {"RETRY_WITH_SOURCE_CUSTODY"}, token : ObservedHeads(t),
          proof : {t, None}]
    \cup [kind : {"TERMINAL_REJECT"}, token : ObservedHeads(t)]
    \cup [kind : {"LOSS_OBLIGATION"}, token : ObservedHeads(t), slot : {token.slot}]

running == {t \in DOMAIN quarantines : quarantines[t].selected # None}

Expected(t) ==
    CASE snap.entries[t].custody.kind = "ADMITTED_DURABLE" -> {"ready"}
      [] snap.entries[t].custody.kind = "QUARANTINED_RAW_EVIDENCE" -> {"quarantine"}
      [] OTHER -> {"settled"}

\* What the broker may enumerate: one receipt may be missing, misplaced or in two
\* places, and the fences and the occupancy complete or missing.
Inventories ==
    [place : {[t \in DOMAIN snap.entries |-> IF t = u THEN P ELSE Expected(t)] :
                u \in DOMAIN snap.entries,
                P \in {{}, {"ready"}, {"settled"}, {"quarantine"}, {"blocked", "settled"}}},
     fenced : {{}, running}, occupied : {{}, DOMAIN snap.entries}]
-----------------------------------------------------------------------------
Init ==
    /\ snap = CustodySnapshot(Fence)
    /\ quarantines = <<>> /\ proof = None /\ manifest = None

Allocate(t, mode) ==
    LET retention == IF mode = "RETAINED_SOURCE" THEN t ELSE None IN
    /\ CanAllocate(snap, t, TokenOf[t], mode, retention)
    /\ snap' = allocate_token(snap, t, TokenOf[t], mode, retention)
    /\ UNCHANGED <<quarantines, proof, manifest>>

Stage(t, raw) ==
    /\ CanStage(snap, t, raw)
    /\ snap' = stage_raw(snap, t, raw)
    /\ UNCHANGED <<quarantines, proof, manifest>>

\* A quarantined receipt starts its parser lineage with its custody.
Publish(t, c) ==
    /\ CanPublish(snap, t, c)
    /\ snap' = publish_custody(snap, t, c)
    /\ quarantines' = IF c.kind = "QUARANTINED_RAW_EVIDENCE"
                      THEN [i \in DOMAIN quarantines \cup {t} |->
                              IF i = t THEN quarantine_genesis(c) ELSE quarantines[i]]
                      ELSE quarantines
    /\ UNCHANGED <<proof, manifest>>

Quiesce ==
    /\ CanQuiesce(snap) /\ snap' = quiesce(snap)
    /\ UNCHANGED <<quarantines, proof, manifest>>

BeginDrain ==
    /\ CanBeginDrain(snap) /\ snap' = begin_drain(snap)
    /\ UNCHANGED <<quarantines, proof, manifest>>

SelectParser(t, attempt) ==
    /\ \E k \in 0..Len(quarantines[t].head) :
          LET expected == SubSeq(quarantines[t].head, 1, k) IN
          /\ CanSelect(quarantines[t], expected, attempt)
          /\ quarantines' = [quarantines EXCEPT ![t] =
                                select_quarantine_parser(@, expected, attempt)]
    /\ UNCHANGED <<snap, proof, manifest>>

FinishParser(t, attempt, kind, u) ==
    LET q == quarantines[t]
        result == [kind |-> kind, custody |-> quarantines[u].custody,
                   inbox |-> IF kind = "MATERIALIZED"
                             THEN stable_inbox(quarantines[u]) ELSE None] IN
    /\ CanFinish(q, attempt, result)
    /\ quarantines' = [quarantines EXCEPT ![t] =
                          finish_quarantine_parser(@, attempt, result)]
    /\ UNCHANGED <<snap, proof, manifest>>

\* The producers are fenced and the broker enumerates what it holds.
ProveQuiescence ==
    /\ snap.state = "DRAINING" /\ proof = None
    /\ \E inv \in Inventories :
          proof' = drain_inventory_fingerprint(snap, quarantines, inv)
    /\ UNCHANGED <<snap, quarantines, manifest>>

\* The proof is refused: the inventory is incomplete, or no longer current.
RefuseDrain ==
    /\ proof # None
    /\ ~CanClose(snap, quarantines, proof[3], proof, Reserve)
    /\ proof' = None
    /\ UNCHANGED <<snap, quarantines, manifest>>

CloseDrain ==
    /\ proof # None
    /\ CanClose(snap, quarantines, proof[3], proof, Reserve)
    /\ snap' = close_drain(snap)
    /\ manifest' = [inv |-> proof[3], running |-> running]
    /\ proof' = None
    /\ UNCHANGED quarantines
-----------------------------------------------------------------------------
Next ==
    \/ \E t \in Tokens, mode \in {"LOSS_SLOT", "RETAINED_SOURCE"} : Allocate(t, mode)
    \/ \E t \in DOMAIN snap.entries :
          (\E raw \in Raws : Stage(t, raw)) \/ (\E c \in Successors(t) : Publish(t, c))
    \/ Quiesce \/ BeginDrain
    \/ \E t \in DOMAIN quarantines, a \in Attempts :
          \/ SelectParser(t, a)
          \/ \E kind \in {"MATERIALIZED", "TERMINAL_PROOF", "RETRY_OR_HOLD"},
                u \in DOMAIN quarantines : FinishParser(t, a, kind, u)
    \/ ProveQuiescence \/ CloseDrain \/ RefuseDrain

Spec == Init /\ [][Next]_vars
-----------------------------------------------------------------------------
\* A drained epoch has lost nothing: every receipt it ever allocated has one
\* custody successor of its last head, local custody holds the very bytes that
\* were staged, no receipt is in two places of the manifest, and evidence that
\* is still active keeps its reserve and, while a parser runs, a fence
\* (allocate_token racing quiesce, stage_raw racing publish_custody, close_drain).
ClosedEpochLosesNothing ==
    snap.state = "CLOSED" => \A t \in DOMAIN snap.entries :
        LET e == snap.entries[t]
            place == manifest.inv.place[t] IN
        /\ e.custody # None /\ e.custody.token = state_head(e)
        /\ e.custody.kind \in LocalCustody => e.custody.raw = e.staged
        /\ Cardinality(place) = 1
        /\ place # {"settled"} => t \in manifest.inv.occupied
        /\ place = {"quarantine"} =>
              (t \in manifest.inv.fenced) = (t \in manifest.running)

\* A draining epoch is never wedged: whatever raced before it, the complete
\* inventory of what the broker holds is accepted by close_drain if it is within
\* the reserves (so no custody binds an earlier head of its receipt).
DrainCanClose ==
    snap.state = "DRAINING" =>
        LET inv == [place |-> [t \in DOMAIN snap.entries |-> Expected(t)],
                    fenced |-> running, occupied |-> DOMAIN snap.entries] IN
        WithinReserves(snap, inv, Reserve) =>
            CanClose(snap, quarantines, inv,
                     drain_inventory_fingerprint(snap, quarantines, inv), Reserve)

\* Of all parser attempts on one quarantined receipt at most one is selected at a
\* time and at most one ends in a terminal result, and it is the last: the bytes
\* never become two inbox items (select_quarantine_parser, finish_quarantine_parser).
OneTerminalResult ==
    \A t \in DOMAIN quarantines :
        LET h == quarantines[t].head IN
        /\ \A i \in DOMAIN h : h[i][1] = IF i % 2 = 1 THEN "select" ELSE "finish"
        /\ \A i \in DOMAIN h : h[i][1] = "finish" => h[i][2] = h[i - 1][2]
        /\ \A i \in DOMAIN h :
              h[i][1] = "finish" /\ h[i][3] # "RETRY_OR_HOLD" => i = Len(h)
        /\ quarantines[t].custody = snap.entries[t].custody
=============================================================================
