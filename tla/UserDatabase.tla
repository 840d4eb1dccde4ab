----------------------------- MODULE UserDatabase -----------------------------
(***************************************************************************)
(* One user's PostgreSQL database, platform/postgres.py, at the grain of   *)
(* the SQL statements that others can observe.  A writer holds the row     *)
(* lock of user_state from its SELECT ... FOR UPDATE to its commit; a      *)
(* reader works on the REPEATABLE READ view of its first statement.  A     *)
(* connection may break at any statement: the server rolls its transaction *)
(* back and frees its locks, and the caller does not learn whether a       *)
(* commit was applied.                                                     *)
(***************************************************************************)
EXTENDS Naturals, Sequences, FiniteSets

CONSTANTS
    Clients,    \* connections of runtimes and provisioners
    Requests,   \* publish calls: records [key, fp, ids]
    None

\* A request is a publication without its sequence; None is neither a request
\* nor a connection.
ASSUME RequestsAssumption ==
    /\ \A r \in Requests : r = [key |-> r.key, fp |-> r.fp, ids |-> r.ids]
    /\ None \notin Requests /\ None \notin Clients

VARIABLES
    catalog,    \* the database: "absent", "created" (no tables yet) or "ready"
    advisory,   \* holder of the advisory lock of provision()
    db,         \* the committed tables: head, publications and records
    rowlock,    \* holder of the row lock on user_state
    conn,       \* per connection: next statement, call, what it read and wrote
    seen,       \* the head a client knows, from its last snapshot
    told        \* answers returned to callers

vars == <<catalog, advisory, db, rowlock, conn, seen, told>>

Members(ids) == {ids[n] : n \in DOMAIN ids}

EmptyTables == [head |-> 0, pubs |-> {}, recs |-> {}]

\* A connection at rest; row is the head read under the lock, view the
\* REPEATABLE READ view, got the result of the SELECTs of _snapshot so far.
At(place) ==
    [pc |-> place, req |-> None, expected |-> 0, row |-> 0,
     view |-> EmptyTables, got |-> EmptyTables, wrote |-> EmptyTables]

Init ==
    /\ catalog = "absent" /\ advisory = None
    /\ db = EmptyTables /\ rowlock = None
    /\ conn = [c \in Clients |-> At("closed")]
    /\ seen = [c \in Clients |-> 0]
    /\ told = {}

Goto(c, place) == conn' = [conn EXCEPT ![c].pc = place]

\* The transaction ends, by commit or rollback, and its connection is closed.
Finish(c) ==
    /\ rowlock' = IF rowlock = c THEN None ELSE rowlock
    /\ conn' = [conn EXCEPT ![c] = At("idle")]
-----------------------------------------------------------------------------
(* provision(): CREATE DATABASE is not transactional, so an advisory lock    *)
(* serialises the catalog check with the creation.                           *)

\* Mutant: provisioners do not wait for each other.
AdvisoryLockNotTaken(c) ==
    /\ conn[c].pc = "closed"
    /\ Goto(c, "check")
    /\ UNCHANGED <<catalog, advisory, db, rowlock, seen, told>>

AdvisoryLock(c) ==
    /\ conn[c].pc = "closed"
    /\ advisory = None
    /\ advisory' = c
    /\ Goto(c, "check")
    /\ UNCHANGED <<catalog, db, rowlock, seen, told>>

CheckCatalog(c) ==
    /\ conn[c].pc = "check"
    /\ Goto(c, IF catalog = "absent" THEN "create" ELSE "schema")
    /\ UNCHANGED <<catalog, advisory, db, rowlock, seen, told>>

\* CREATE DATABASE of an existing name is an error.
CreateDatabase(c) ==
    /\ conn[c].pc = "create"
    /\ Goto(c, IF catalog = "absent" THEN "schema" ELSE "duplicate")
    /\ catalog' = IF catalog = "absent" THEN "created" ELSE catalog
    /\ UNCHANGED <<advisory, db, rowlock, seen, told>>

\* Tables and the user_state row, created IF NOT EXISTS in one transaction.
\* Leaving provision closes the administrative connection and frees its lock.
CreateSchema(c) ==
    /\ conn[c].pc = "schema"
    /\ catalog' = "ready"
    /\ advisory' = IF advisory = c THEN None ELSE advisory
    /\ Goto(c, "idle")
    /\ UNCHANGED <<db, rowlock, seen, told>>
-----------------------------------------------------------------------------
(* _snapshot(): three SELECTs and a check that they fit together.  Inside    *)
(* snapshot() they read one REPEATABLE READ view; inside publish() each      *)
(* reads the tables committed when it runs.                                  *)

snapshot(c) ==
    /\ conn[c].pc = "idle"
    /\ conn' = [conn EXCEPT ![c] = [At("select_head") EXCEPT !.view = db]]
    /\ UNCHANGED <<catalog, advisory, db, rowlock, seen, told>>

Visible(c) == IF conn[c].req = None THEN conn[c].view ELSE db

Select(c, place, next, rows) ==
    /\ conn[c].pc = place
    /\ conn' = [conn EXCEPT ![c].pc = next, ![c].got = rows]
    /\ UNCHANGED <<catalog, advisory, db, rowlock, seen, told>>

SelectHead(c) ==
    Select(c, "select_head", "select_records",
           [EmptyTables EXCEPT !.head = Visible(c).head])

SelectRecords(c) ==
    Select(c, "select_records", "select_publications",
           [conn[c].got EXCEPT !.recs = Visible(c).recs])

SelectPublications(c) ==
    Select(c, "select_publications", "validate",
           [conn[c].got EXCEPT !.pubs = Visible(c).pubs])

\* Every publication has members, each a physical record of its own sequence
\* and of no other publication; no record is an orphan; sequences are 1..head.
Complete(t) ==
    /\ \A p \in t.pubs :
          /\ p.ids # <<>> /\ Cardinality(Members(p.ids)) = Len(p.ids)
          /\ \A id \in Members(p.ids) : \E r \in t.recs : r.id = id /\ r.seq = p.seq
          /\ \A q \in t.pubs : q # p => Members(p.ids) \cap Members(q.ids) = {}
    /\ \A r \in t.recs : \E p \in t.pubs : r.id \in Members(p.ids)
    /\ {p.seq : p \in t.pubs} = 1..t.head
    /\ Cardinality(t.pubs) = t.head

\* snapshot() returns; publish() answers a repeated key or runs its guard.
Validate(c) ==
    /\ conn[c].pc = "validate"
    /\ Goto(c, IF ~Complete(conn[c].got) THEN "integrity_error"
               ELSE IF conn[c].req = None THEN "read"
               ELSE IF \E p \in conn[c].got.pubs : p.key = conn[c].req.key THEN "repeated"
               ELSE "guard")
    /\ UNCHANGED <<catalog, advisory, db, rowlock, seen, told>>

ReturnSnapshot(c) ==
    /\ conn[c].pc = "read"
    /\ seen' = [seen EXCEPT ![c] = conn[c].got.head]
    /\ Finish(c)
    /\ UNCHANGED <<catalog, advisory, db, told>>
-----------------------------------------------------------------------------
(* publish() and append().                                                   *)

ValidBatch(r) == r.ids # <<>> /\ Cardinality(Members(r.ids)) = Len(r.ids)

publish(c, r) ==
    /\ conn[c].pc = "idle"
    /\ ValidBatch(r)
    /\ conn' = [conn EXCEPT ![c] = [At("lock") EXCEPT !.req = r, !.expected = seen[c]]]
    /\ UNCHANGED <<catalog, advisory, db, rowlock, seen, told>>

LockHead(c) ==
    /\ conn[c].pc = "lock"
    /\ rowlock = None
    /\ rowlock' = c
    /\ conn' = [conn EXCEPT ![c].pc = "lookup", ![c].row = db.head]
    /\ UNCHANGED <<catalog, advisory, db, seen, told>>

\* A repeated key is answered from the log; a new key on a moved head is STALE
\* (Stale below); otherwise the guard, if there is one, reads a snapshot.
Recorded(c) == \E p \in db.pubs : p.key = conn[c].req.key

Lookup(c) ==
    /\ conn[c].pc = "lookup"
    /\ Recorded(c) \/ conn[c].row = conn[c].expected
    /\ \/ Goto(c, "select_head")
       \/ ~Recorded(c) /\ Goto(c, "append")
    /\ UNCHANGED <<catalog, advisory, db, rowlock, seen, told>>

Stale(c) ==
    /\ conn[c].pc = "lookup"
    /\ ~Recorded(c) /\ conn[c].row # conn[c].expected
    /\ Finish(c)
    /\ UNCHANGED <<catalog, advisory, db, seen, told>>

\* Mutant: a repeated key is a REPLAY, whatever the caller sent with it.
SameAlways(p, r) == TRUE

SamePublication(p, r) == p.fp = r.fp /\ p.ids = r.ids

\* REPLAY when the recorded publication is the same, CONFLICT otherwise.
Repeated(c) ==
    /\ conn[c].pc = "repeated"
    /\ \E p \in conn[c].got.pubs :
          /\ p.key = conn[c].req.key
          /\ told' = told \cup {[req |-> conn[c].req, seq |-> p.seq,
                                 same |-> SamePublication(p, conn[c].req)]}
    /\ Finish(c)
    /\ UNCHANGED <<catalog, advisory, db, seen>>

\* The guard accepts, or raises and rolls the transaction back.
Guard(c) ==
    /\ conn[c].pc = "guard"
    /\ Goto(c, "append")
    /\ UNCHANGED <<catalog, advisory, db, rowlock, seen, told>>

GuardRaises(c) ==
    /\ conn[c].pc = "guard"
    /\ Finish(c)
    /\ UNCHANGED <<catalog, advisory, db, seen, told>>

\* The primary keys of both tables and the unique sequence.
Collides(c) ==
    \/ \E p \in db.pubs : p.key = conn[c].req.key \/ p.seq = conn[c].expected + 1
    \/ \E r \in db.recs : r.id \in Members(conn[c].req.ids)

\* The INSERTs and the UPDATE of append(), not committed yet.
append(c) ==
    LET n == conn[c].expected + 1
        r == conn[c].req
    IN  /\ conn[c].pc = "append"
        /\ ~Collides(c)
        /\ conn' = [conn EXCEPT ![c].pc = "commit", ![c].wrote =
              [head |-> n,
               pubs |-> {[key |-> r.key, fp |-> r.fp, ids |-> r.ids, seq |-> n]},
               recs |-> [id : Members(r.ids), seq : {n}]]]
        /\ UNCHANGED <<catalog, advisory, db, rowlock, seen, told>>

\* Mutant: the failed transaction is left open.
UniqueViolationLeaks(c) ==
    /\ conn[c].pc = "append" /\ Collides(c)
    /\ Goto(c, "idle")
    /\ UNCHANGED <<catalog, advisory, db, rowlock, seen, told>>

\* psycopg raises UniqueViolation; the with block rolls the transaction back.
UniqueViolation(c) ==
    /\ conn[c].pc = "append" /\ Collides(c)
    /\ Finish(c)
    /\ UNCHANGED <<catalog, advisory, db, seen, told>>

Applied(t, w) ==
    [head |-> w.head, pubs |-> t.pubs \cup w.pubs, recs |-> t.recs \cup w.recs]

\* Leaving the with block commits every write and frees the row lock.
Commit(c) ==
    /\ conn[c].pc = "commit"
    /\ db' = Applied(db, conn[c].wrote)
    /\ rowlock' = IF rowlock = c THEN None ELSE rowlock
    /\ conn' = [conn EXCEPT ![c].pc = "committed", ![c].wrote = EmptyTables]
    /\ UNCHANGED <<catalog, advisory, seen, told>>

\* PublicationResult("COMMITTED", sequence) reaches the caller.
Acknowledge(c) ==
    /\ conn[c].pc = "committed"
    /\ told' = told \cup {[req |-> conn[c].req, seq |-> conn[c].expected + 1, same |-> TRUE]}
    /\ Finish(c)
    /\ UNCHANGED <<catalog, advisory, db, seen>>
-----------------------------------------------------------------------------
InProvision == {"closed", "check", "create", "schema", "duplicate"}

\* The connection breaks: the server rolls back, the client connects again.
Break(c) ==
    /\ conn[c].pc \notin InProvision \cup {"idle", "integrity_error"}
    /\ Finish(c)
    /\ UNCHANGED <<catalog, advisory, db, seen, told>>

\* A provisioner dies and starts over; its session's advisory lock is freed.
ProvisionerBreaks(c) ==
    /\ conn[c].pc \in {"check", "create", "schema"}
    /\ advisory' = IF advisory = c THEN None ELSE advisory
    /\ Goto(c, "closed")
    /\ UNCHANGED <<catalog, db, rowlock, seen, told>>

Provisioning(c) ==
    AdvisoryLock(c) \/ CheckCatalog(c) \/ CreateDatabase(c) \/ CreateSchema(c)

Serving(c) ==
    \/ SelectHead(c) \/ SelectRecords(c) \/ SelectPublications(c)
    \/ Validate(c) \/ ReturnSnapshot(c)
    \/ LockHead(c) \/ Lookup(c) \/ Stale(c) \/ Repeated(c) \/ Guard(c) \/ GuardRaises(c)
    \/ append(c) \/ UniqueViolation(c) \/ Commit(c) \/ Acknowledge(c)

Next ==
    \E c \in Clients :
        \/ Provisioning(c)
        \/ snapshot(c)
        \/ \E r \in Requests : publish(c, r)
        \/ Serving(c)
        \/ Break(c) \/ ProvisionerBreaks(c)

\* A connection executes its statements, and the row lock is granted to a
\* waiter sooner or later (PostgreSQL queues them).  Nobody has to call.
Fairness == \A c \in Clients : WF_vars(Serving(c)) /\ SF_vars(LockHead(c))

Spec == Init /\ [][Next]_vars
FairSpec == Spec /\ Fairness
-----------------------------------------------------------------------------
Keys == {r.key : r \in {q \in Requests : ValidBatch(q)}}

TypeOK ==
    /\ catalog \in {"absent", "created", "ready"}
    /\ advisory \in Clients \cup {None} /\ rowlock \in Clients \cup {None}
    /\ db.head \in Nat
    /\ db.recs \subseteq [id : UNION {Members(r.ids) : r \in Requests}, seq : Nat]
    /\ \A p \in db.pubs : p.key \in Keys /\ p.seq \in Nat
    /\ \A c \in Clients : conn[c].req \in Requests \cup {None}
    /\ seen \in [Clients -> Nat]

\* Nobody ever meets PostgresIntegrityError or a duplicate database: concurrent
\* writers, broken connections and repeated provisioning never leave, and no
\* reader ever assembles, an incomplete publication.
NoIntegrityError ==
    \A c \in Clients : conn[c].pc \notin {"integrity_error", "duplicate"}

\* A snapshot tells the past truly: the head and the rows it found are a prefix
\* of the committed log, whoever commits meanwhile.
SnapshotIsPrefix ==
    \A c \in Clients :
        conn[c].pc = "validate" =>
            LET t == conn[c].got IN
            /\ t.head <= db.head
            /\ t.pubs = {p \in db.pubs : p.seq <= t.head}
            /\ t.recs = {r \in db.recs : r.seq <= t.head}

\* publish() commits on exactly the head its caller computed from: no
\* publication lies between the caller's snapshot and its own.
CommitsOnExpectedHead ==
    \A c \in Clients :
        conn[c].pc = "commit" /\ conn'[c].pc = "committed" =>
            db.head = seen[c] /\ db'.head = seen[c] + 1

\* Provisioners and writers that interleave statement by statement never meet an
\* integrity error, read a torn log or commit on a head they did not compute from.
PublicationsAreSerial ==
    /\ [](TypeOK /\ NoIntegrityError /\ SnapshotIsPrefix)
    /\ [][CommitsOnExpectedHead]_vars

\* The log of the abstract specification: the publications in sequence order.
Entry(n) ==
    LET p == CHOOSE q \in db.pubs : q.seq = n
    IN  [key |-> p.key, fp |-> p.fp, ids |-> p.ids]
Abstract == INSTANCE PublicationLog WITH log <- [n \in 1..db.head |-> Entry(n)]

\* Statement by statement, publish() implements an append-only log with at most
\* one publication per key and truthful answers, also to a caller that repeats a
\* request whose acknowledgement was lost.
ImplementsLog == Abstract!Spec

\* A client that calls publish or snapshot gets an answer, or its connection
\* breaks: a writer that fails while it holds the row lock blocks nobody.
CallsReturn ==
    \A c \in Clients : conn[c].pc \notin InProvision ~> conn[c].pc = "idle"
=============================================================================
