------------------------------ MODULE ReadLedger ------------------------------
(***************************************************************************)
(* The durable ledger of bounded reads (platform/read_ledger.py) as         *)
(* operators over one tenant's read state and release rows.  Every public   *)
(* method is one SQLite transaction, so each operator is one atomic step    *)
(* of the modules that use the ledger: AuthorityReads and CalendarReads.    *)
(*                                                                         *)
(* A read state is any record with the fields epoch, generation and         *)
(* draining; its fingerprint is the record itself (SHA-256 over canonical   *)
(* bytes is taken as injective).  An operation is any record with the       *)
(* fields epoch and generation.                                            *)
(***************************************************************************)

CONSTANT None

(***************************************************************************)
(* begin: one row per read attempt, in custody before any byte is read.     *)
(***************************************************************************)
begin(operation, state) ==
    [request |-> operation, initial |-> state, state |-> "PENDING",
     result |-> None, enqueued |-> FALSE, dequeued |-> FALSE]

(***************************************************************************)
(* release: the row becomes RELEASED only while the state it began under is *)
(* still the tenant's current state, not draining, and of the operation's   *)
(* epoch and generation.                                                   *)
(***************************************************************************)
CurrentMatches(current, row, expected) ==
    /\ current = expected
    /\ row.initial = expected
    /\ ~expected.draining
    /\ row.request.epoch = expected.epoch
    /\ row.request.generation = expected.generation

release(current, row, expected, result) ==
    IF row.state # "PENDING" THEN row
    ELSE IF CurrentMatches(current, row, expected)
    THEN [row EXCEPT !.state = "RELEASED", !.result = result, !.enqueued = TRUE]
    ELSE [row EXCEPT !.state = "STALE"]

(***************************************************************************)
(* dequeue: the response leaves the ledger once.                            *)
(***************************************************************************)
CanDequeue(row) == row.state = "RELEASED" /\ row.enqueued /\ ~row.dequeued

dequeue(row) == [row EXCEPT !.dequeued = TRUE]

(***************************************************************************)
(* reconcile_generation: every pending row is fenced before the restarted   *)
(* generation's state replaces the old one.                                 *)
(***************************************************************************)
reconcile_generation(rows) ==
    [a \in DOMAIN rows |->
        IF rows[a] # None /\ rows[a].state = "PENDING"
        THEN [rows[a] EXCEPT !.state = "STALE"] ELSE rows[a]]

(***************************************************************************)
(* _replace_state: compare-and-set on the fingerprint the caller expects.   *)
(***************************************************************************)
_replace_state(current, expected, new) == IF current = expected THEN new ELSE current
===============================================================================
