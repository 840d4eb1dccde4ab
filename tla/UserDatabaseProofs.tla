------------------------- MODULE UserDatabaseProofs -------------------------
(***************************************************************************)
(* Proofs about UserDatabase: for any connections and any requests, its    *)
(* publications are serial and publish() implements PublicationLog.        *)
(***************************************************************************)
EXTENDS UserDatabase, FiniteSetTheorems, TLAPS

Pubs ==
    [key : Keys, fp : {r.fp : r \in Requests}, ids : {r.ids : r \in Requests}, seq : Nat]
Recs == [id : UNION {Members(r.ids) : r \in Requests}, seq : Nat]
Tables == [head : Nat, pubs : SUBSET Pubs, recs : SUBSET Recs]

Provision == {"check", "create", "schema"}
Reading == {"select_head", "select_records", "select_publications", "validate"}
Publishing == {"lock", "lookup", "repeated", "guard", "append", "commit", "committed"}
Places == {"closed", "idle", "read", "duplicate", "integrity_error"}
             \cup Provision \cup Reading \cup Publishing

Connections ==
    [pc : Places, req : Requests \cup {None}, expected : Nat, row : Nat,
     view : Tables, got : Tables, wrote : Tables]

TypeInv ==
    /\ catalog \in {"absent", "created", "ready"}
    /\ advisory \in Clients \cup {None} /\ rowlock \in Clients \cup {None}
    /\ db \in Tables
    /\ conn \in [Clients -> Connections]
    /\ seen \in [Clients -> Nat]

Publication(r, n) == [key |-> r.key, fp |-> r.fp, ids |-> r.ids, seq |-> n]
Batch(r, n) ==
    [head |-> n, pubs |-> {Publication(r, n)}, recs |-> [id : Members(r.ids), seq : {n}]]

\* The committed tables are complete, and a key or a sequence names one publication.
LogInv ==
    /\ IsFiniteSet(db.pubs) /\ Complete(db)
    /\ \A p, q \in db.pubs : p.seq = q.seq \/ p.key = q.key => p = q
    /\ \A r \in db.recs : \E p \in db.pubs : r.id \in Members(p.ids) /\ r.seq = p.seq

\* Between the catalog check and the schema a provisioner has the advisory lock.
ProvisionInv ==
    \A c \in Clients :
        /\ conn[c].pc \in Provision => advisory = c
        /\ conn[c].pc = "create" => catalog = "absent"
        /\ conn[c].pc # "duplicate"

\* A table is what the log was when its head was t.head.
Prefix(t) ==
    /\ t.head <= db.head
    /\ t.pubs = {p \in db.pubs : p.seq <= t.head}
    /\ t.recs = {r \in db.recs : r.seq <= t.head}

\* The places where publish() holds the row lock.
Holds(k) ==
    \/ k.pc \in {"lookup", "repeated", "guard", "append", "commit"}
    \/ k.pc \in Reading /\ k.req # None

\* What a call may rely on at each place.
ConnInv(c) ==
    LET k == conn[c] IN
    /\ k.pc # "integrity_error"
    /\ k.pc \in Publishing => k.req # None
    /\ k.pc = "read" => k.req = None
    /\ k.req # None => ValidBatch(k.req) /\ k.expected = seen[c]
    /\ Holds(k) => rowlock = c /\ k.row = db.head
    /\ k.pc \in Reading /\ k.req # None => Recorded(c) \/ k.row = k.expected
    /\ k.pc \in {"guard", "append", "commit"} => k.row = k.expected
    /\ k.pc \in Reading /\ k.req = None => Complete(k.view) /\ Prefix(k.view)
    /\ k.pc = "select_records" => k.got.head = Visible(c).head
    /\ k.pc = "select_publications" =>
          k.got.head = Visible(c).head /\ k.got.recs = Visible(c).recs
    /\ k.pc \in {"validate", "repeated"} => k.got = Visible(c)
    /\ k.pc = "commit" => ~Collides(c) /\ k.wrote = Batch(k.req, k.expected + 1)
    /\ k.pc = "committed" => Publication(k.req, k.expected + 1) \in db.pubs

IInv == TypeInv /\ LogInv /\ ProvisionInv /\ \A c \in Clients : ConnInv(c)
-----------------------------------------------------------------------------
\* The initial state satisfies the inductive invariant.
LEMMA InitIInv == Init => IInv
<1> SUFFICES ASSUME Init PROVE IInv
  OBVIOUS
<1>1. EmptyTables \in Tables
  BY DEF EmptyTables, Tables
<1>2. TypeInv
  BY <1>1 DEF Init, TypeInv, Connections, At, Places
<1>3. LogInv
  <2>1. IsFiniteSet(db.pubs) /\ Cardinality(db.pubs) = 0
    BY FS_EmptySet DEF Init, EmptyTables
  <2> QED
    BY <2>1 DEF Init, EmptyTables, LogInv, Complete
<1>4. ProvisionInv
  BY DEF Init, ProvisionInv, At, Provision
<1>5. ASSUME NEW c \in Clients PROVE ConnInv(c)
  BY DEF Init, ConnInv, At, Publishing, Reading, Holds
<1> QED
  BY <1>2, <1>3, <1>4, <1>5 DEF IInv

\* A step that leaves the log and a call alone, and the row lock if the call holds
\* it, keeps what the call may rely on.
LEMMA UntouchedCall ==
    ASSUME IInv, NEW d \in Clients, db' = db, conn'[d] = conn[d], seen'[d] = seen[d],
           Holds(conn[d]) => rowlock' = rowlock
    PROVE  ConnInv(d)'
  BY DEF IInv, ConnInv, Recorded, Prefix, Visible, Collides

\* A step of c that leaves the log alone, and takes the row lock only when it is
\* free or gives back its own, leaves the other calls as they were.
LEMMA OthersKept ==
    ASSUME IInv, NEW c \in Clients, NEW d \in Clients, d # c,
           db' = db, conn'[d] = conn[d], seen'[d] = seen[d],
           rowlock' = rowlock \/ rowlock \in {c, None}
    PROVE  ConnInv(d)'
<1>1. Holds(conn[d]) => rowlock' = rowlock
  BY RequestsAssumption DEF IInv, ConnInv
<1> QED
  BY <1>1, UntouchedCall

\* The invariant after a step of c outside provision() and commit.
LEMMA CallKeeps ==
    ASSUME IInv, NEW c \in Clients,
           db' = db, catalog' = catalog, advisory' = advisory,
           rowlock' \in Clients \cup {None}, rowlock' = rowlock \/ rowlock \in {c, None},
           conn' \in [Clients -> Connections], seen' \in [Clients -> Nat],
           \A d \in Clients \ {c} : conn'[d] = conn[d] /\ seen'[d] = seen[d],
           conn'[c].pc \notin Provision \cup {"duplicate"},
           ConnInv(c)'
    PROVE  IInv'
<1>1. TypeInv'
  BY DEF IInv, TypeInv
<1>2. LogInv'
  BY DEF IInv, LogInv
<1>3. ProvisionInv'
  BY DEF IInv, ProvisionInv, Provision
<1>4. ASSUME NEW d \in Clients PROVE ConnInv(d)'
  <2>1. CASE d = c
    BY <2>1
  <2>2. CASE d # c
    BY <2>2, OthersKept
  <2> QED
    BY <2>1, <2>2
<1> QED
  BY <1>1, <1>2, <1>3, <1>4 DEF IInv

\* A transaction that ends without a commit.
LEMMA FinishKeeps ==
    ASSUME IInv, NEW c \in Clients, Finish(c),
           db' = db, catalog' = catalog, advisory' = advisory,
           seen' \in [Clients -> Nat], \A d \in Clients \ {c} : seen'[d] = seen[d]
    PROVE  IInv'
<1>1. At("idle") \in Connections
  BY DEF At, Connections, Places, EmptyTables, Tables
<1>2. conn' \in [Clients -> Connections] /\ conn'[c] = At("idle")
      /\ \A d \in Clients \ {c} : conn'[d] = conn[d]
  BY <1>1 DEF Finish, IInv, TypeInv
<1>3. rowlock' \in Clients \cup {None} /\ (rowlock' = rowlock \/ rowlock \in {c, None})
  BY DEF Finish, IInv, TypeInv
<1>4. ConnInv(c)'
  BY <1>2 DEF ConnInv, At, Holds, Publishing, Reading
<1>5. conn'[c].pc \notin Provision \cup {"duplicate"}
  BY <1>2 DEF At, Provision
<1> QED
  BY <1>2, <1>3, <1>4, <1>5, CallKeeps

\* provision() moves between its own places and changes nothing of the log.
LEMMA ProvisionStep ==
    ASSUME IInv, NEW c \in Clients, Provisioning(c) \/ ProvisionerBreaks(c)
    PROVE  IInv'
<1> USE DEF Goto
<1>1. db' = db /\ rowlock' = rowlock /\ seen' = seen
  BY DEF Provisioning, AdvisoryLock, CheckCatalog, CreateDatabase, CreateSchema, ProvisionerBreaks
<1>2. \E place \in Places : conn' = [conn EXCEPT ![c].pc = place]
                            /\ place \in Provision \cup {"idle", "closed"}
  <2>1. "check" \in Places /\ "schema" \in Places /\ "create" \in Places
        /\ "idle" \in Places /\ "closed" \in Places
    BY DEF Places, Provision
  <2>2. conn[c].pc = "create" => catalog = "absent"
    BY DEF IInv, ProvisionInv
  <2> QED
    BY <2>1, <2>2 DEF Provisioning, AdvisoryLock, CheckCatalog, CreateDatabase, CreateSchema,
                      ProvisionerBreaks, Provision
<1>3. PICK place \in Places : conn' = [conn EXCEPT ![c].pc = place]
                              /\ place \in Provision \cup {"idle", "closed"}
  BY <1>2
<1>4. TypeInv'
  <2>1. [conn[c] EXCEPT !.pc = place] \in Connections
    BY DEF IInv, TypeInv, Connections
  <2>2. conn' \in [Clients -> Connections]
    BY <2>1, <1>3 DEF IInv, TypeInv
  <2>3. catalog' \in {"absent", "created", "ready"} /\ advisory' \in Clients \cup {None}
    BY DEF IInv, TypeInv, Provisioning, AdvisoryLock, CheckCatalog, CreateDatabase,
           CreateSchema, ProvisionerBreaks
  <2> QED
    BY <2>2, <2>3, <1>1 DEF IInv, TypeInv
<1>5. LogInv'
  BY <1>1 DEF IInv, LogInv
<1>6. ProvisionInv'
  <2> USE RequestsAssumption DEF IInv, TypeInv, ProvisionInv, Provision, Connections
  <2>1. CASE AdvisoryLock(c)
    BY <2>1 DEF AdvisoryLock
  <2>2. CASE CheckCatalog(c)
    BY <2>2 DEF CheckCatalog
  <2>3. CASE CreateDatabase(c)
    BY <2>3 DEF CreateDatabase
  <2>4. CASE CreateSchema(c)
    BY <2>4 DEF CreateSchema
  <2>5. CASE ProvisionerBreaks(c)
    BY <2>5 DEF ProvisionerBreaks
  <2> QED
    BY <2>1, <2>2, <2>3, <2>4, <2>5 DEF Provisioning
<1>7. ASSUME NEW d \in Clients PROVE ConnInv(d)'
  <2>1. CASE d = c
    <3>1. conn'[c] = [conn[c] EXCEPT !.pc = place]
      BY <1>3 DEF IInv, TypeInv
    <3>2. conn'[c].req = conn[c].req /\ conn'[c].expected = conn[c].expected
          /\ conn'[c].pc = place
      BY <3>1 DEF IInv, TypeInv, Connections
    <3> QED
      BY <1>1, <1>3, <3>2, <2>1
      DEF IInv, ConnInv, Holds, Publishing, Reading, Provision
  <2>2. CASE d # c
    BY <2>2, <1>1, <1>3, OthersKept DEF IInv, TypeInv
  <2> QED
    BY <2>1, <2>2
<1> QED
  BY <1>4, <1>5, <1>6, <1>7 DEF IInv

\* The step of a call that goes to another place, with its new locals k.
LEMMA MoveKeeps ==
    ASSUME IInv, NEW c \in Clients, NEW k \in Connections,
           conn' = [conn EXCEPT ![c] = k], k.pc \notin Provision \cup {"duplicate"},
           UNCHANGED <<db, catalog, advisory, seen>>,
           rowlock' \in Clients \cup {None}, rowlock' = rowlock \/ rowlock = None,
           ConnInv(c)'
    PROVE  IInv'
<1>1. conn' \in [Clients -> Connections] /\ conn'[c] = k
      /\ \A d \in Clients \ {c} : conn'[d] = conn[d]
  BY DEF IInv, TypeInv
<1> QED
  BY <1>1, CallKeeps DEF IInv, TypeInv

\* snapshot() starts on the committed tables, which are complete.
LEMMA SnapshotStep ==
    ASSUME IInv, NEW c \in Clients, snapshot(c)
    PROVE  IInv'
<1> DEFINE k == [At("select_head") EXCEPT !.view = db]
<1>1. k \in Connections /\ k.pc = "select_head" /\ k.req = None /\ k.view = db
  BY DEF IInv, TypeInv, At, Connections, Places, Reading, EmptyTables, Tables
<1>2. conn' = [conn EXCEPT ![c] = k] /\ UNCHANGED <<catalog, advisory, db, rowlock, seen>>
  BY DEF snapshot
<1>3. conn'[c] = k
  BY <1>2 DEF IInv, TypeInv
<1> HIDE DEF k
<1>4. Prefix(db)
  BY DEF IInv, TypeInv, LogInv, Complete, Prefix, Tables, Pubs, Recs
<1>5. Complete(conn[c].view)' /\ Prefix(conn[c].view)'
  <2>1. conn'[c].view = db /\ db' = db
    BY <1>1, <1>2, <1>3
  <2>2. Complete(db)
    BY DEF IInv, LogInv
  <2> QED
    BY <2>1, <2>2, <1>4, ZenonT(40) DEF Prefix, Complete
<1>6. ConnInv(c)'
  BY <1>1, <1>2, <1>3, <1>5 DEF ConnInv, Holds, Publishing, Reading
<1> QED
  BY <1>1, <1>2, <1>6, MoveKeeps DEF IInv, TypeInv, Provision

\* publish() starts with the head its caller has seen.
LEMMA PublishStep ==
    ASSUME IInv, NEW c \in Clients, NEW r \in Requests, publish(c, r)
    PROVE  IInv'
<1> DEFINE k == [At("lock") EXCEPT !.req = r, !.expected = seen[c]]
<1>1. k \in Connections /\ k.pc = "lock" /\ k.req = r /\ k.expected = seen[c]
  BY DEF IInv, TypeInv, At, Connections, Places, Publishing, EmptyTables, Tables
<1>2. conn' = [conn EXCEPT ![c] = k] /\ UNCHANGED <<catalog, advisory, db, rowlock, seen>>
      /\ ValidBatch(r)
  BY DEF publish
<1>3. conn'[c] = k
  BY <1>2 DEF IInv, TypeInv
<1> HIDE DEF k
<1>4. ConnInv(c)'
  BY <1>1, <1>2, <1>3, RequestsAssumption
  DEF ConnInv, Holds, Publishing, Reading, ValidBatch
<1> QED
  BY <1>1, <1>2, <1>4, MoveKeeps DEF IInv, TypeInv, Provision

\* The three SELECTs collect what is visible to the call.
LEMMA SelectStep ==
    ASSUME IInv, NEW c \in Clients,
           SelectHead(c) \/ SelectRecords(c) \/ SelectPublications(c)
    PROVE  IInv'
<1>1. Visible(c) \in Tables
  BY DEF Visible, IInv, TypeInv, Connections
<1>2. \E next \in {"select_records", "select_publications", "validate"}, rows \in Tables :
         /\ conn[c].pc \in Reading
         /\ conn' = [conn EXCEPT ![c].pc = next, ![c].got = rows]
         /\ rows.head = Visible(c).head
         /\ next # "select_records" => rows.recs = Visible(c).recs
         /\ next = "validate" => rows = Visible(c)
         /\ UNCHANGED <<catalog, advisory, db, rowlock, seen>>
  <2>1. CASE SelectHead(c)
    <3>1. [EmptyTables EXCEPT !.head = Visible(c).head] \in Tables
      BY <1>1 DEF EmptyTables, Tables
    <3> QED
      BY <2>1, <3>1, <1>1 DEF SelectHead, Select, Reading, EmptyTables
  <2>2. CASE SelectRecords(c)
    <3>1. conn[c].got \in Tables /\ conn[c].got.head = Visible(c).head
      BY <2>2 DEF SelectRecords, Select, IInv, TypeInv, ConnInv, Connections
    <3>2. [conn[c].got EXCEPT !.recs = Visible(c).recs] \in Tables
      BY <3>1, <1>1 DEF Tables
    <3> QED
      BY <2>2, <3>1, <3>2, <1>1 DEF SelectRecords, Select, Reading, Tables
  <2>3. CASE SelectPublications(c)
    <3>1. conn[c].got \in Tables /\ conn[c].got.head = Visible(c).head
          /\ conn[c].got.recs = Visible(c).recs
      BY <2>3 DEF SelectPublications, Select, IInv, TypeInv, ConnInv, Connections
    <3>2. [conn[c].got EXCEPT !.pubs = Visible(c).pubs] = Visible(c)
      BY <3>1, <1>1 DEF Tables
    <3> QED
      BY <2>3, <3>1, <3>2, <1>1 DEF SelectPublications, Select, Reading
  <2> QED
    BY <2>1, <2>2, <2>3
<1>3. PICK next \in {"select_records", "select_publications", "validate"}, rows \in Tables :
         /\ conn[c].pc \in Reading
         /\ conn' = [conn EXCEPT ![c].pc = next, ![c].got = rows]
         /\ rows.head = Visible(c).head
         /\ next # "select_records" => rows.recs = Visible(c).recs
         /\ next = "validate" => rows = Visible(c)
         /\ UNCHANGED <<catalog, advisory, db, rowlock, seen>>
  BY <1>2
<1> DEFINE k == [conn[c] EXCEPT !.pc = next, !.got = rows]
<1>4. /\ k \in Connections /\ k.pc = next /\ k.got = rows /\ k.req = conn[c].req
      /\ k.expected = conn[c].expected /\ k.row = conn[c].row /\ k.view = conn[c].view
  BY <1>3 DEF IInv, TypeInv, Connections, Places, Reading
<1>5. conn' = [conn EXCEPT ![c] = k] /\ conn'[c] = k
  BY <1>3 DEF IInv, TypeInv
<1> HIDE DEF k
<1>6. Visible(c)' = Visible(c)
  BY <1>3, <1>4, <1>5 DEF Visible
<1>7. ConnInv(c)'
  <2>1. k.req # None => ValidBatch(k.req) /\ k.expected = seen[c]
                        /\ rowlock = c /\ k.row = db.head
                        /\ (Recorded(c) \/ k.row = k.expected)
    BY <1>3, <1>4 DEF IInv, ConnInv, Holds
  <2>2. k.req = None => Complete(conn[c].view)' /\ Prefix(conn[c].view)'
    <3>1. k.req = None => Complete(conn[c].view) /\ Prefix(conn[c].view)
      BY <1>3, <1>4 DEF IInv, ConnInv
    <3>2. conn'[c].view = conn[c].view /\ db' = db
      BY <1>3, <1>4, <1>5
    <3>3. Complete(conn[c].view)' = Complete(conn[c].view)
      BY <3>2 DEF Complete
    <3>4. Prefix(conn[c].view)' = Prefix(conn[c].view)
      BY <3>2 DEF Prefix
    <3> QED
      BY <3>1, <3>3, <3>4
  <2>3. Recorded(c)' = Recorded(c)
    BY <1>3, <1>4, <1>5 DEF Recorded
  <2> QED
    BY <1>3, <1>4, <1>5, <1>6, <2>1, <2>2, <2>3
    DEF ConnInv, Holds, Publishing, Reading
<1> QED
  BY <1>3, <1>4, <1>5, <1>7, MoveKeeps DEF IInv, TypeInv, Provision

\* The tables visible to a call are complete, so it never meets an integrity
\* error; a repeated key is answered and a new one is guarded.
LEMMA ValidateStep ==
    ASSUME IInv, NEW c \in Clients, Validate(c)
    PROVE  IInv'
<1>1. conn[c].pc = "validate" /\ conn[c].got = Visible(c)
      /\ UNCHANGED <<catalog, advisory, db, rowlock, seen>>
  BY DEF Validate, IInv, ConnInv
<1>2. Complete(conn[c].got)
  BY <1>1 DEF IInv, LogInv, ConnInv, Visible, Reading
<1>3. PICK next \in {"read", "repeated", "guard"} :
         /\ conn' = [conn EXCEPT ![c].pc = next]
         /\ next = "read" <=> conn[c].req = None
         /\ next = "guard" => ~Recorded(c)
  <2>1. CASE conn[c].req = None
    <3>1. conn' = [conn EXCEPT ![c].pc = "read"]
      BY <1>2, <2>1 DEF Validate, Goto
    <3> QED
      BY <2>1, <3>1
  <2>2. CASE conn[c].req # None
    <3>1. conn[c].got = db
      BY <1>1, <2>2 DEF Visible
    <3> QED
      BY <1>2, <2>2, <3>1 DEF Validate, Goto, Recorded
  <2> QED
    BY <2>1, <2>2
<1>4. PICK k \in Connections : k = [conn[c] EXCEPT !.pc = next]
  BY DEF IInv, TypeInv, Connections, Places, Publishing
<1>5. /\ k.pc = next /\ k.got = conn[c].got /\ k.req = conn[c].req
      /\ k.expected = conn[c].expected /\ k.row = conn[c].row
  BY <1>4 DEF IInv, TypeInv, Connections
<1>6. conn' = [conn EXCEPT ![c] = k] /\ conn'[c] = k
  BY <1>3, <1>4 DEF IInv, TypeInv
<1>7. k.req # None => /\ ValidBatch(k.req) /\ k.expected = seen[c]
                      /\ rowlock = c /\ k.row = db.head /\ k.got = db
                      /\ Recorded(c) \/ k.row = k.expected
  BY <1>1, <1>5 DEF IInv, ConnInv, Holds, Reading, Visible
<1>8. ConnInv(c)'
  BY <1>1, <1>3, <1>5, <1>6, <1>7 DEF ConnInv, Holds, Publishing, Reading, Visible
<1> QED
  BY <1>1, <1>3, <1>5, <1>6, <1>8, MoveKeeps DEF IInv, TypeInv, Provision

\* The row lock: the head that is read under it stays the head.
LEMMA LockStep ==
    ASSUME IInv, NEW c \in Clients, LockHead(c)
    PROVE  IInv'
<1>1. /\ conn[c].pc = "lock" /\ rowlock = None /\ rowlock' = c
      /\ conn' = [conn EXCEPT ![c].pc = "lookup", ![c].row = db.head]
      /\ UNCHANGED <<catalog, advisory, db, seen>>
  BY DEF LockHead
<1>2. PICK k \in Connections : k = [conn[c] EXCEPT !.pc = "lookup", !.row = db.head]
  <2>1. conn[c] \in Connections /\ db.head \in Nat /\ "lookup" \in Places
    BY DEF IInv, TypeInv, Places, Publishing, Tables
  <2> QED
    BY <2>1 DEF Connections
<1>3. /\ k.pc = "lookup" /\ k.req = conn[c].req
      /\ k.expected = conn[c].expected /\ k.row = db.head
  BY <1>2 DEF IInv, TypeInv, Connections
<1>4. conn' = [conn EXCEPT ![c] = k] /\ conn'[c] = k
  BY <1>1, <1>2 DEF IInv, TypeInv
<1>5. k.req # None /\ ValidBatch(k.req) /\ k.expected = seen[c]
  BY <1>1, <1>3 DEF IInv, ConnInv, Publishing
<1>6. ConnInv(c)'
  BY <1>1, <1>3, <1>4, <1>5 DEF ConnInv, Holds, Publishing, Reading
<1> QED
  BY <1>1, <1>3, <1>4, <1>6, MoveKeeps DEF IInv, TypeInv, Provision

\* A new key goes on only when the locked head is the one the caller expects.
LEMMA LookupStep ==
    ASSUME IInv, NEW c \in Clients, Lookup(c) \/ Guard(c)
    PROVE  IInv'
<1>1. PICK next \in {"select_head", "append"} :
         /\ conn' = [conn EXCEPT ![c].pc = next]
         /\ next = "append" => conn[c].row = conn[c].expected
         /\ Recorded(c) \/ conn[c].row = conn[c].expected
  BY DEF Lookup, Guard, Goto, IInv, ConnInv
<1>2. conn[c].pc \in {"lookup", "guard"} /\ UNCHANGED <<catalog, advisory, db, rowlock, seen>>
  BY DEF Lookup, Guard
<1>3. PICK k \in Connections : k = [conn[c] EXCEPT !.pc = next]
  BY DEF IInv, TypeInv, Connections, Places, Publishing, Reading
<1>4. /\ k.pc = next /\ k.req = conn[c].req
      /\ k.expected = conn[c].expected /\ k.row = conn[c].row
  BY <1>3 DEF IInv, TypeInv, Connections
<1>5. conn' = [conn EXCEPT ![c] = k] /\ conn'[c] = k
  BY <1>1, <1>3 DEF IInv, TypeInv
<1>6. /\ k.req # None /\ ValidBatch(k.req) /\ k.expected = seen[c]
      /\ rowlock = c /\ k.row = db.head
  BY <1>2, <1>4 DEF IInv, ConnInv, Publishing, Holds
<1>7. Recorded(c)' = Recorded(c)
  BY <1>2, <1>4, <1>5 DEF Recorded
<1>8. ConnInv(c)'
  BY <1>1, <1>2, <1>4, <1>5, <1>6, <1>7 DEF ConnInv, Holds, Publishing, Reading
<1> QED
  BY <1>1, <1>2, <1>4, <1>5, <1>8, MoveKeeps DEF IInv, TypeInv, Provision

\* append() writes the request under the next sequence.
LEMMA AppendStep ==
    ASSUME IInv, NEW c \in Clients, append(c)
    PROVE  IInv'
<1> DEFINE r == conn[c].req
           n == conn[c].expected + 1
<1>1. /\ conn[c].pc = "append" /\ ~Collides(c)
      /\ conn' = [conn EXCEPT ![c].pc = "commit", ![c].wrote = Batch(r, n)]
      /\ UNCHANGED <<catalog, advisory, db, rowlock, seen>>
  BY DEF append, Batch, Publication
<1>2. /\ r \in Requests /\ ValidBatch(r) /\ n \in Nat
      /\ conn[c].expected = seen[c] /\ rowlock = c
      /\ conn[c].row = db.head /\ conn[c].row = conn[c].expected
  BY <1>1 DEF IInv, TypeInv, ConnInv, Publishing, Holds, Connections
<1>3. Batch(r, n) \in Tables
  <2>1. Publication(r, n) \in Pubs
    BY <1>2 DEF Publication, Pubs, Keys
  <2>2. [id : Members(r.ids), seq : {n}] \subseteq Recs
    BY <1>2 DEF Recs
  <2> QED
    BY <1>2, <2>1, <2>2 DEF Batch, Tables
<1>4. PICK k \in Connections : k = [conn[c] EXCEPT !.pc = "commit", !.wrote = Batch(r, n)]
  BY <1>3 DEF IInv, TypeInv, Connections, Places, Publishing
<1>5. /\ k.pc = "commit" /\ k.req = r /\ k.wrote = Batch(r, n)
      /\ k.expected = conn[c].expected /\ k.row = conn[c].row
  BY <1>4 DEF IInv, TypeInv, Connections
<1>6. conn' = [conn EXCEPT ![c] = k] /\ conn'[c] = k
  BY <1>1, <1>4 DEF IInv, TypeInv
<1>7. ~Collides(c)'
  BY <1>1, <1>5, <1>6 DEF Collides
<1>8. ConnInv(c)'
  BY <1>1, <1>2, <1>5, <1>6, <1>7, RequestsAssumption
  DEF ConnInv, Holds, Publishing, Reading, Batch, Publication, ValidBatch
<1> QED
  BY <1>1, <1>5, <1>6, <1>8, MoveKeeps DEF IInv, TypeInv, Provision

\* What the committing call knows: it holds the row lock, and its write is the
\* next publication, with a key, a sequence and records of its own.
LEMMA CommitFacts ==
    ASSUME IInv, NEW c \in Clients, Commit(c)
    PROVE  LET r == conn[c].req
               n == db.head + 1
               p == Publication(r, n)
           IN  /\ r \in Requests /\ ValidBatch(r) /\ n \in Nat /\ p \in Pubs
               /\ rowlock = c /\ conn[c].expected = db.head /\ seen[c] = db.head
               /\ db' = [head |-> n, pubs |-> db.pubs \cup {p},
                         recs |-> db.recs \cup [id : Members(r.ids), seq : {n}]]
               /\ db' \in Tables
               /\ \A q \in db.pubs : q.key # r.key /\ q.seq # n /\ q.seq <= db.head
               /\ \A s \in db.recs : s.id \notin Members(r.ids)
<1> DEFINE r == conn[c].req
           n == db.head + 1
           p == Publication(r, n)
<1>1. conn[c].pc = "commit" /\ db' = Applied(db, conn[c].wrote)
  BY DEF Commit
<1>2. /\ r \in Requests /\ ValidBatch(r) /\ n \in Nat
      /\ rowlock = c /\ conn[c].expected = db.head /\ seen[c] = db.head
      /\ ~Collides(c) /\ conn[c].wrote = Batch(r, n)
  BY <1>1 DEF IInv, TypeInv, ConnInv, Publishing, Holds, Connections, Tables
<1>3. p \in Pubs
  BY <1>2 DEF Publication, Pubs, Keys
<1>4. db' = [head |-> n, pubs |-> db.pubs \cup {p},
             recs |-> db.recs \cup [id : Members(r.ids), seq : {n}]]
  BY <1>1, <1>2, SMTT(30) DEF Applied, Batch
<1>5. [id : Members(r.ids), seq : {n}] \subseteq Recs
  BY <1>2 DEF Recs
<1>6. db' \in Tables
  BY <1>2, <1>3, <1>4, <1>5 DEF IInv, TypeInv, Tables
<1>7. ASSUME NEW q \in db.pubs PROVE q.key # r.key /\ q.seq # n /\ q.seq <= db.head
  <2>1. q.key # r.key /\ q.seq # n
    BY <1>2 DEF Collides
  <2>2. q.seq \in 1..db.head
    BY DEF IInv, LogInv, Complete
  <2> QED
    BY <2>1, <2>2 DEF IInv, TypeInv, Tables
<1>8. \A s \in db.recs : s.id \notin Members(r.ids)
  BY <1>2 DEF Collides
<1> QED
  BY <1>2, <1>3, <1>4, <1>6, <1>7, <1>8

\* A commit extends the log by one complete publication.
LEMMA CommitExtendsLog ==
    ASSUME IInv, NEW c \in Clients, Commit(c)
    PROVE  LogInv'
<1> DEFINE r == conn[c].req
           n == db.head + 1
           p == Publication(r, n)
<1>1. /\ r \in Requests /\ ValidBatch(r) /\ n \in Nat
      /\ db' = [head |-> n, pubs |-> db.pubs \cup {p},
                recs |-> db.recs \cup [id : Members(r.ids), seq : {n}]]
      /\ \A q \in db.pubs : q.key # r.key /\ q.seq # n /\ q.seq <= db.head
      /\ \A s \in db.recs : s.id \notin Members(r.ids)
  BY CommitFacts
<1>2. p.key = r.key /\ p.ids = r.ids /\ p.seq = n
  BY DEF Publication
<1>3. db'.head = n /\ db'.pubs = db.pubs \cup {p}
      /\ db'.recs = db.recs \cup [id : Members(r.ids), seq : {n}]
  BY <1>1
<1>4. db.head \in Nat /\ LogInv
  BY DEF IInv, TypeInv, Tables
<1> HIDE DEF p
<1>5. IsFiniteSet(db'.pubs) /\ Cardinality(db'.pubs) = n
  <2>1. p \notin db.pubs
    BY <1>1, <1>2
  <2>2. IsFiniteSet(db.pubs) /\ Cardinality(db.pubs) = db.head
    BY <1>4 DEF LogInv, Complete
  <2> QED
    BY <1>3, <2>1, <2>2, FS_AddElement
<1>6. {q.seq : q \in db'.pubs} = 1..db'.head
  <2>1. {q.seq : q \in db.pubs} = 1..db.head
    BY <1>4 DEF LogInv, Complete
  <2>2. {q.seq : q \in db'.pubs} = {q.seq : q \in db.pubs} \cup {n}
    BY <1>2, <1>3
  <2>3. 1..n = (1..db.head) \cup {n}
    BY <1>4
  <2> QED
    BY <1>3, <2>1, <2>2, <2>3
<1>7. ASSUME NEW q \in db'.pubs
      PROVE  /\ q.ids # <<>> /\ Cardinality(Members(q.ids)) = Len(q.ids)
             /\ \A id \in Members(q.ids) : \E s \in db'.recs : s.id = id /\ s.seq = q.seq
  <2>1. CASE q = p
    <3>1. q.ids # <<>> /\ Cardinality(Members(q.ids)) = Len(q.ids)
      BY <1>1, <1>2, <2>1 DEF ValidBatch
    <3>2. ASSUME NEW id \in Members(q.ids)
          PROVE  \E s \in db'.recs : s.id = id /\ s.seq = q.seq
      <4>1. [id |-> id, seq |-> n] \in db'.recs
        BY <1>2, <1>3, <2>1
      <4> QED
        BY <4>1, <1>2, <2>1
    <3> QED
      BY <3>1, <3>2
  <2>2. CASE q \in db.pubs
    BY <1>3, <1>4, <2>2, SMTT(30) DEF LogInv, Complete
  <2> QED
    BY <1>3, <2>1, <2>2
<1>8. ASSUME NEW q \in db'.pubs, NEW s \in db'.pubs, s # q
      PROVE  Members(q.ids) \cap Members(s.ids) = {}
  <2>1. ASSUME NEW x \in db.pubs PROVE Members(x.ids) \cap Members(r.ids) = {}
    <3>1. \A id \in Members(x.ids) : \E y \in db.recs : y.id = id /\ y.seq = x.seq
      BY <1>4, Zenon DEF LogInv, Complete
    <3> QED
      BY <1>1, <3>1
  <2>2. CASE q \in db.pubs /\ s \in db.pubs
    BY <1>4, <1>8, <2>2 DEF LogInv, Complete
  <2>3. CASE q = p /\ s \in db.pubs
    BY <1>2, <2>1, <2>3
  <2>4. CASE q \in db.pubs /\ s = p
    BY <1>2, <2>1, <2>4
  <2> QED
    BY <1>3, <1>8, <2>2, <2>3, <2>4
<1>9. \A s \in db'.recs : \E q \in db'.pubs : s.id \in Members(q.ids) /\ s.seq = q.seq
  <2>1. \A s \in db.recs : \E q \in db.pubs : s.id \in Members(q.ids) /\ s.seq = q.seq
    BY <1>4 DEF LogInv
  <2>2. \A s \in [id : Members(r.ids), seq : {n}] : s.id \in Members(p.ids) /\ s.seq = p.seq
    BY <1>2
  <2> QED
    BY <1>3, <2>1, <2>2
<1>10. \A q, s \in db'.pubs : q.seq = s.seq \/ q.key = s.key => q = s
  BY <1>1, <1>2, <1>3, <1>4, SMTT(30) DEF LogInv
<1>11. Complete(db)'
  BY <1>3, <1>5, <1>6, <1>7, <1>8, <1>9 DEF Complete
<1> QED
  BY <1>5, <1>9, <1>10, <1>11 DEF LogInv

\* Readers keep their prefix when another call commits.
LEMMA CommitStep ==
    ASSUME IInv, NEW c \in Clients, Commit(c)
    PROVE  IInv'
<1> DEFINE r == conn[c].req
           n == db.head + 1
           p == Publication(r, n)
<1>1. /\ r \in Requests /\ ValidBatch(r) /\ n \in Nat
      /\ rowlock = c /\ conn[c].expected = db.head
      /\ db' = [head |-> n, pubs |-> db.pubs \cup {p},
                recs |-> db.recs \cup [id : Members(r.ids), seq : {n}]]
      /\ db' \in Tables
  BY CommitFacts
<1>2. /\ conn' = [conn EXCEPT ![c].pc = "committed", ![c].wrote = EmptyTables]
      /\ conn[c].pc = "commit" /\ rowlock' = None
      /\ UNCHANGED <<catalog, advisory, seen>>
  BY <1>1 DEF Commit
<1>3. PICK k \in Connections : k = [conn[c] EXCEPT !.pc = "committed", !.wrote = EmptyTables]
  <2>1. conn[c] \in Connections /\ EmptyTables \in Tables /\ "committed" \in Places
    BY DEF IInv, TypeInv, Places, Publishing, EmptyTables, Tables
  <2> QED
    BY <2>1 DEF Connections
<1>4. /\ k.pc = "committed" /\ k.req = conn[c].req /\ k.expected = conn[c].expected
  BY <1>3 DEF IInv, TypeInv, Connections
<1>5. conn' \in [Clients -> Connections] /\ conn'[c] = k
      /\ \A d \in Clients \ {c} : conn'[d] = conn[d]
  BY <1>2, <1>3 DEF IInv, TypeInv
<1>6. TypeInv'
  BY <1>1, <1>2, <1>5 DEF IInv, TypeInv
<1>7. LogInv'
  BY CommitExtendsLog
<1>8. ProvisionInv'
  BY <1>2, <1>4, <1>5 DEF IInv, ProvisionInv, Provision
<1>9. ConnInv(c)'
  BY <1>1, <1>2, <1>4, <1>5, RequestsAssumption
  DEF IInv, ConnInv, Holds, Publishing, Reading, ValidBatch
<1>10. ASSUME NEW d \in Clients, d # c PROVE ConnInv(d)'
  <2>1. conn'[d] = conn[d] /\ ~Holds(conn[d]) /\ seen'[d] = seen[d]
    BY <1>1, <1>2, <1>5, <1>10 DEF IInv, ConnInv
  <2>2. ASSUME NEW t \in Tables, Prefix(t) PROVE Prefix(t)'
    <3>1. db.head \in Nat /\ t.head <= db.head /\ t.head \in Nat
          /\ db'.head = n /\ db'.pubs = db.pubs \cup {p}
          /\ db'.recs = db.recs \cup [id : Members(r.ids), seq : {n}]
      BY <1>1, <2>2 DEF IInv, TypeInv, Tables, Prefix
    <3>2. p.seq = n /\ ~(n <= t.head)
      BY <3>1 DEF Publication
    <3>3. t.pubs = {q \in db'.pubs : q.seq <= t.head}
      BY <2>2, <3>1, <3>2 DEF Prefix
    <3>4. t.recs = {s \in db'.recs : s.seq <= t.head}
      BY <2>2, <3>1, <3>2 DEF Prefix
    <3> QED
      BY <3>1, <3>3, <3>4 DEF Prefix
  <2>3. conn[d].pc \in Reading /\ conn[d].req = None =>
          Complete(conn[d].view)' /\ Prefix(conn[d].view)'
    <3>1. conn[d].pc \in Reading /\ conn[d].req = None =>
            Complete(conn[d].view) /\ Prefix(conn[d].view)
      BY DEF IInv, ConnInv
    <3>2. Complete(conn[d].view)' = Complete(conn[d].view)
      BY <2>1 DEF Complete
    <3>3. conn[d].view \in Tables
      BY DEF IInv, TypeInv, Connections
    <3>4. Prefix(conn[d].view) => Prefix(conn[d].view)'
      BY <2>1, <2>2, <3>3 DEF Prefix
    <3> QED
      BY <3>1, <3>2, <3>4
  <2>4. db.pubs \subseteq db'.pubs
    BY <1>1
  <2>5. conn[d].req = None => Visible(d)' = Visible(d)
    BY <2>1 DEF Visible
  <2> QED
    BY <2>1, <2>3, <2>4, <2>5 DEF IInv, ConnInv, Holds, Publishing, Reading
<1> QED
  BY <1>6, <1>7, <1>8, <1>9, <1>10 DEF IInv

\* Every step preserves the inductive invariant.
LEMMA NextIInv == IInv /\ [Next]_vars => IInv'
<1> SUFFICES ASSUME IInv, [Next]_vars PROVE IInv'
  OBVIOUS
<1>1. CASE Next
  <2> PICK c \in Clients : \/ Provisioning(c) \/ snapshot(c)
                           \/ \E r \in Requests : publish(c, r)
                           \/ Serving(c) \/ Break(c) \/ ProvisionerBreaks(c)
    BY <1>1 DEF Next
  <2>1. CASE Provisioning(c) \/ ProvisionerBreaks(c)
    BY <2>1, ProvisionStep
  <2>2. CASE snapshot(c)
    BY <2>2, SnapshotStep
  <2>3. CASE \E r \in Requests : publish(c, r)
    BY <2>3, PublishStep
  <2>4. CASE SelectHead(c) \/ SelectRecords(c) \/ SelectPublications(c)
    BY <2>4, SelectStep
  <2>5. CASE Validate(c)
    BY <2>5, ValidateStep
  <2>6. CASE LockHead(c)
    BY <2>6, LockStep
  <2>7. CASE Lookup(c) \/ Guard(c)
    BY <2>7, LookupStep
  <2>8. CASE append(c)
    BY <2>8, AppendStep
  <2>9. CASE Commit(c)
    BY <2>9, CommitStep
  <2>10. CASE ReturnSnapshot(c)
    <3>1. conn[c].got.head \in Nat
      BY DEF IInv, TypeInv, Connections, Tables
    <3>2. Finish(c) /\ UNCHANGED <<catalog, advisory, db>>
          /\ seen' = [seen EXCEPT ![c] = conn[c].got.head]
      BY <2>10 DEF ReturnSnapshot
    <3>3. seen' \in [Clients -> Nat] /\ \A d \in Clients \ {c} : seen'[d] = seen[d]
      BY <3>1, <3>2 DEF IInv, TypeInv
    <3> QED
      BY <3>2, <3>3, FinishKeeps
  <2>11. CASE Stale(c) \/ Repeated(c) \/ GuardRaises(c) \/ UniqueViolation(c)
              \/ Acknowledge(c) \/ Break(c)
    <3>1. Finish(c) /\ UNCHANGED <<catalog, advisory, db, seen>>
      BY <2>11 DEF Stale, Repeated, GuardRaises, UniqueViolation, Acknowledge, Break
    <3>2. seen' \in [Clients -> Nat] /\ \A d \in Clients \ {c} : seen'[d] = seen[d]
      BY <3>1 DEF IInv, TypeInv
    <3> QED
      BY <3>1, <3>2, FinishKeeps
  <2> QED
    BY <2>1, <2>2, <2>3, <2>4, <2>5, <2>6, <2>7, <2>8, <2>9, <2>10, <2>11 DEF Serving
<1>2. CASE UNCHANGED vars
  <2>1. UNCHANGED <<catalog, advisory, db, rowlock, conn, seen>>
    BY <1>2 DEF vars
  <2>2. TypeInv' /\ LogInv' /\ ProvisionInv'
    BY <2>1 DEF IInv, TypeInv, LogInv, ProvisionInv
  <2>3. \A c \in Clients : ConnInv(c)'
    BY <2>1, UntouchedCall
  <2> QED
    BY <2>2, <2>3 DEF IInv
<1> QED
  BY <1>1, <1>2

\* The invariant implies what a state promises.
LEMMA IInvImplies == IInv => TypeOK /\ NoIntegrityError /\ SnapshotIsPrefix
<1> SUFFICES ASSUME IInv PROVE TypeOK /\ NoIntegrityError /\ SnapshotIsPrefix
  OBVIOUS
<1>1. TypeOK
  BY DEF IInv, TypeInv, TypeOK, Tables, Pubs, Recs, Connections
<1>2. NoIntegrityError
  BY DEF IInv, ProvisionInv, ConnInv, NoIntegrityError
<1>3. ASSUME NEW c \in Clients, conn[c].pc = "validate" PROVE Prefix(conn[c].got)
  <2>1. conn[c].got = Visible(c)
    BY <1>3 DEF IInv, ConnInv
  <2>2. CASE conn[c].req = None
    BY <1>3, <2>1, <2>2 DEF IInv, ConnInv, Visible, Reading
  <2>3. CASE conn[c].req # None
    <3>1. Prefix(db)
      BY DEF IInv, TypeInv, LogInv, Complete, Prefix, Tables, Pubs, Recs
    <3> QED
      BY <2>1, <2>3, <3>1 DEF Visible
  <2> QED
    BY <2>2, <2>3
<1> QED
  BY <1>1, <1>2, <1>3 DEF SnapshotIsPrefix, Prefix

\* A commit happens on exactly the head its caller has seen.
LEMMA CommitsExpected == IInv /\ [Next]_vars => [CommitsOnExpectedHead]_vars
<1> SUFFICES ASSUME IInv, Next, NEW c \in Clients,
                    conn[c].pc = "commit", conn'[c].pc = "committed"
             PROVE  db.head = seen[c] /\ db'.head = seen[c] + 1
  BY DEF CommitsOnExpectedHead
<1>1. Commit(c)
  <2> PICK b \in Clients : \/ Provisioning(b) \/ snapshot(b)
                           \/ \E r \in Requests : publish(b, r)
                           \/ Serving(b) \/ Break(b) \/ ProvisionerBreaks(b)
    BY DEF Next
  <2> USE DEF IInv, TypeInv
  <2>1. CASE Provisioning(b) \/ ProvisionerBreaks(b)
    BY <2>1 DEF Provisioning, AdvisoryLock, CheckCatalog, CreateDatabase, CreateSchema,
                ProvisionerBreaks, Goto
  <2>2. CASE snapshot(b) \/ \E r \in Requests : publish(b, r)
    BY <2>2 DEF snapshot, publish
  <2>3. CASE SelectHead(b) \/ SelectRecords(b) \/ SelectPublications(b)
    BY <2>3 DEF SelectHead, SelectRecords, SelectPublications, Select
  <2>4. CASE Validate(b) \/ LockHead(b) \/ Lookup(b) \/ Guard(b) \/ append(b)
    BY <2>4 DEF Validate, LockHead, Lookup, Guard, append, Goto
  <2>5. CASE ReturnSnapshot(b) \/ Stale(b) \/ Repeated(b) \/ GuardRaises(b)
             \/ UniqueViolation(b) \/ Acknowledge(b) \/ Break(b)
    <3>1. Finish(b)
      BY <2>5 DEF ReturnSnapshot, Stale, Repeated, GuardRaises, UniqueViolation, Acknowledge,
                  Break
    <3> QED
      BY <3>1 DEF Finish, At
  <2>6. CASE Commit(b)
    BY <2>6 DEF Commit
  <2> QED
    BY <2>1, <2>2, <2>3, <2>4, <2>5, <2>6 DEF Serving
<1>2. seen[c] = db.head /\ db'.head = db.head + 1
  BY <1>1, CommitFacts, SMTT(30)
<1> QED
  BY <1>2

\* For any connections and requests, statements of provision(), snapshot() and
\* publish() interleave without an integrity error, every snapshot is a prefix
\* of the log, and every commit extends the head its caller computed from.
THEOREM SerialPublications == Spec => PublicationsAreSerial
<1>1. Spec => []IInv
  BY InitIInv, NextIInv, PTL DEF Spec
<1> QED
  BY <1>1, IInvImplies, CommitsExpected, PTL DEF Spec, PublicationsAreSerial
-----------------------------------------------------------------------------
(* The refinement of PublicationLog.                                         *)

Log == [n \in 1..db.head |-> Entry(n)]

\* The n-th entry of the log is the one publication with sequence n.
LEMMA EntryOf ==
    ASSUME IInv, NEW p \in db.pubs
    PROVE  /\ p.seq \in DOMAIN Log
           /\ Log[p.seq] = [key |-> p.key, fp |-> p.fp, ids |-> p.ids]
<1>1. p.seq \in 1..db.head
  BY DEF IInv, LogInv, Complete
<1>2. (CHOOSE q \in db.pubs : q.seq = p.seq) = p
  BY DEF IInv, LogInv
<1>3. Entry(p.seq) = [key |-> p.key, fp |-> p.fp, ids |-> p.ids]
  BY <1>2 DEF Entry
<1> QED
  BY <1>1, <1>3 DEF Log

\* Every sequence up to the head has its publication.
LEMMA PublicationOf ==
    ASSUME IInv, NEW n \in DOMAIN Log
    PROVE  \E p \in db.pubs :
             p.seq = n /\ Log[n] = [key |-> p.key, fp |-> p.fp, ids |-> p.ids]
<1>1. PICK p \in db.pubs : p.seq = n
  BY DEF IInv, LogInv, Complete, Log
<1> QED
  BY <1>1, EntryOf

\* A commit appends its request to the log.
LEMMA CommitAppends ==
    ASSUME IInv, NEW c \in Clients, Commit(c)
    PROVE  Abstract!Publish(conn[c].req)
<1> DEFINE r == conn[c].req
           n == db.head + 1
           p == Publication(r, n)
<1>1. /\ r \in Requests /\ ValidBatch(r) /\ n \in Nat /\ db.head \in Nat
      /\ db' = [head |-> n, pubs |-> db.pubs \cup {p},
                recs |-> db.recs \cup [id : Members(r.ids), seq : {n}]]
      /\ \A q \in db.pubs : q.key # r.key /\ q.seq # n /\ q.seq <= db.head
      /\ \A s \in db.recs : s.id \notin Members(r.ids)
  BY CommitFacts DEF IInv, TypeInv, Tables
<1>2. IInv'
  BY CommitStep
<1>3. ASSUME NEW m \in DOMAIN Log
      PROVE  Log[m].key # r.key /\ Members(Log[m].ids) \cap Members(r.ids) = {}
  <2>1. PICK q \in db.pubs :
          q.seq = m /\ Log[m] = [key |-> q.key, fp |-> q.fp, ids |-> q.ids]
    BY PublicationOf
  <2>2. \A id \in Members(q.ids) : \E y \in db.recs : y.id = id /\ y.seq = q.seq
    BY Zenon DEF IInv, LogInv, Complete
  <2> QED
    BY <1>1, <2>1, <2>2
<1>4. r = [key |-> r.key, fp |-> r.fp, ids |-> r.ids]
  BY <1>1, RequestsAssumption
<1>5. Log' = Append(Log, r)
  <2>1. p \in db'.pubs /\ p.seq = n /\ db'.head = n /\ db'.pubs = db.pubs \cup {p}
        /\ r = [key |-> p.key, fp |-> p.fp, ids |-> p.ids]
    BY <1>1, <1>4 DEF Publication
  <2> HIDE DEF p
  <2>2. Log'[n] = r
    <3>1. (CHOOSE q \in db'.pubs : q.seq = n) = p
      BY <1>2, <2>1 DEF IInv, LogInv
    <3> QED
      BY <1>1, <2>1, <3>1, SMTT(30) DEF Log, Entry
  <2>3. ASSUME NEW m \in 1..db.head PROVE Log'[m] = Log[m]
    <3>1. PICK q \in db.pubs :
            q.seq = m /\ Log[m] = [key |-> q.key, fp |-> q.fp, ids |-> q.ids]
      BY PublicationOf DEF Log
    <3>2. (CHOOSE x \in db'.pubs : x.seq = m) = q
      BY <1>2, <2>1, <3>1 DEF IInv, LogInv
    <3> QED
      BY <1>1, <2>1, <3>1, <3>2, SMTT(30) DEF Log, Entry
  <2>4. DOMAIN Log' = 1..n /\ DOMAIN Log = 1..db.head
    BY <2>1 DEF Log
  <2>5. Log \in Seq({Log[m] : m \in 1..db.head} \cup {r}) /\ Len(Log) = db.head
    <3> DEFINE S == {Log[m] : m \in 1..db.head} \cup {r}
    <3>1. Log \in [1..db.head -> S]
      BY DEF Log
    <3> HIDE DEF S
    <3>2. Log \in Seq(S)
      BY <1>1, <3>1
    <3> QED
      BY <1>1, <2>4, <3>2 DEF S
  <2> DEFINE new == Append(Log, r)
  <2>6. DOMAIN new = 1..n /\ new[n] = r /\ \A m \in 1..db.head : new[m] = Log[m]
    BY <1>1, <2>5
  <2>7. Log' = [m \in 1..n |-> Log'[m]] /\ new = [m \in 1..n |-> new[m]]
    BY <2>1, <2>5, <2>6, <1>1, SMTT(30) DEF Log
  <2> HIDE DEF new
  <2>8. \A m \in 1..n : Log'[m] = new[m]
    BY <1>1, <2>2, <2>3, <2>6
  <2>9. Log' = new
    BY <2>7, <2>8
  <2> QED
    BY <2>9 DEF new
<1> QED
  BY <1>1, <1>3, <1>5 DEF Abstract!Publish, Abstract!Members, Members, ValidBatch, Commit, Log

\* An answer names a publication of the log, and says truly whether it is the
\* request.
LEMMA AnswerIsTrue ==
    ASSUME IInv, NEW r \in Requests, NEW p \in db.pubs, p.key = r.key, db' = db,
           told' = told \cup {[req |-> r, seq |-> p.seq, same |-> SamePublication(p, r)]}
    PROVE  \E n \in DOMAIN Log : Abstract!Answer(r, n)
<1>1. p.seq \in DOMAIN Log /\ Log[p.seq] = [key |-> p.key, fp |-> p.fp, ids |-> p.ids]
  BY EntryOf
<1>2. SamePublication(p, r) = (Log[p.seq] = r)
  <2>1. r = [key |-> r.key, fp |-> r.fp, ids |-> r.ids]
    BY RequestsAssumption
  <2>2. SamePublication(p, r) => Log[p.seq] = r
    BY <1>1, <2>1 DEF SamePublication
  <2>3. Log[p.seq] = r => SamePublication(p, r)
    BY <1>1 DEF SamePublication
  <2> QED
    BY <2>2, <2>3 DEF SamePublication
<1>3. Log' = Log
  BY DEF Log, Entry
<1>4. Abstract!Answer(r, p.seq)
  BY <1>1, <1>2, <1>3, SMTT(30) DEF Abstract!Answer, Log
<1> QED
  BY <1>1, <1>4

\* Every step of the database is a publication, an answer or nothing to the log.
LEMMA StepRefines == IInv /\ [Next]_vars => [Abstract!Next]_<<Log, told>>
<1> SUFFICES ASSUME IInv, [Next]_vars PROVE [Abstract!Next]_<<Log, told>>
  OBVIOUS
<1>1. ASSUME db' = db, told' = told PROVE UNCHANGED <<Log, told>>
  BY <1>1 DEF Log, Entry
<1>2. CASE UNCHANGED vars
  BY <1>1, <1>2 DEF vars
<1>3. CASE Next
  <2> PICK c \in Clients : \/ Provisioning(c) \/ snapshot(c)
                           \/ \E r \in Requests : publish(c, r)
                           \/ Serving(c) \/ Break(c) \/ ProvisionerBreaks(c)
    BY <1>3 DEF Next
  <2>1. CASE Commit(c)
    <3>1. conn[c].req \in Requests
      BY <2>1, CommitFacts
    <3> QED
      BY <2>1, <3>1, CommitAppends DEF Abstract!Next
  <2>2. CASE Repeated(c)
    <3>1. conn[c].got = db /\ conn[c].req \in Requests
      BY <2>2 DEF Repeated, IInv, TypeInv, ConnInv, Visible, Publishing, Connections
    <3>2. PICK p \in db.pubs :
            /\ p.key = conn[c].req.key
            /\ told' = told \cup {[req |-> conn[c].req, seq |-> p.seq,
                                   same |-> SamePublication(p, conn[c].req)]}
      BY <2>2, <3>1 DEF Repeated
    <3>3. db' = db
      BY <2>2 DEF Repeated
    <3>4. \E n \in DOMAIN Log : Abstract!Answer(conn[c].req, n)
      BY <3>1, <3>2, <3>3, AnswerIsTrue
    <3> QED
      BY <3>1, <3>4 DEF Abstract!Next, Log
  <2>3. CASE Acknowledge(c)
    <3> DEFINE r == conn[c].req
               p == Publication(r, conn[c].expected + 1)
    <3>1. r \in Requests /\ p \in db.pubs
      BY <2>3 DEF Acknowledge, IInv, TypeInv, ConnInv, Publishing, Connections
    <3>2. p.key = r.key /\ p.seq = conn[c].expected + 1 /\ SamePublication(p, r) = TRUE
      BY DEF Publication, SamePublication
    <3>3. db' = db /\ told' = told \cup {[req |-> r, seq |-> p.seq, same |-> SamePublication(p, r)]}
      BY <2>3, <3>2 DEF Acknowledge
    <3>4. \E n \in DOMAIN Log : Abstract!Answer(r, n)
      BY <3>1, <3>2, <3>3, AnswerIsTrue
    <3> QED
      BY <3>1, <3>4 DEF Abstract!Next, Log
  <2>4. CASE ~(Commit(c) \/ Repeated(c) \/ Acknowledge(c))
    <3>1. db' = db /\ told' = told
      BY <2>4 DEF Provisioning, AdvisoryLock, CheckCatalog, CreateDatabase, CreateSchema,
                  ProvisionerBreaks, snapshot, publish, Serving, SelectHead, SelectRecords,
                  SelectPublications, Select, Validate, ReturnSnapshot, LockHead, Lookup, Stale,
                  Guard, GuardRaises, append, UniqueViolation, Break
    <3> QED
      BY <1>1, <3>1
  <2> QED
    BY <2>1, <2>2, <2>3, <2>4
<1> QED
  BY <1>2, <1>3

\* For any connections and requests, publish() implements the append-only log of
\* PublicationLog: each key is published at most once, nothing is changed or
\* removed, and every answer is true, also to a caller that repeats a request
\* whose acknowledgement was lost.
THEOREM PublishImplementsLog == Spec => ImplementsLog
<1>1. Init => Abstract!Init
  <2> SUFFICES ASSUME Init PROVE Abstract!Init
    OBVIOUS
  <2>1. Log = <<>>
    BY DEF Init, EmptyTables, Log
  <2> QED
    BY <2>1 DEF Init, Abstract!Init, Log
<1>2. Spec => []IInv
  BY InitIInv, NextIInv, PTL DEF Spec
<1>3. IInv /\ [Next]_vars => [Abstract!Next]_<<[n \in 1..db.head |-> Entry(n)], told>>
  BY StepRefines DEF Log
<1> QED
  BY <1>1, <1>2, <1>3, PTL DEF Spec, ImplementsLog, Abstract!Spec
=============================================================================
