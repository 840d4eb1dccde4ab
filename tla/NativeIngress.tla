----------------------------- MODULE NativeIngress -----------------------------
(***************************************************************************)
(* Registered ingress of prompts (composition/postgres_ingress.py) behind   *)
(* its two transports (adapters/driven/native_ingress_cli.py and            *)
(* native_ingress_telegram.py): authenticate, look the replay identity up,  *)
(* publish inbox and Run in one batch, look the selected custody up again,  *)
(* acknowledge it, and drive the Run.                                       *)
(*                                                                         *)
(* The lane is released between the publication and the acknowledgement,    *)
(* runtimes of several processes publish against one head, a commit may     *)
(* succeed without its acknowledgement reaching the caller, and a client    *)
(* repeats its identity, with the same bytes or with others.                *)
(***************************************************************************)
EXTENDS Naturals, Sequences, FiniteSets, TLAPS

CONSTANTS
    Processes,    \* runtimes over the user's database, each with one lane
    Connections,  \* accepted transport connections
    Replays,      \* replay identities of the registered source
    Bodies,       \* raw bytes
    MaxHead,      \* bound on publications
    MaxFaults,    \* bound on lost acknowledgements, crashes and other writers
    None

VARIABLES
    log,       \* batches: inbox admissions with their Run, and others
    lane,      \* process -> connection inside submit, or None
    config,    \* process -> registered source binding and budget policy
    conn,      \* connection -> locals of receive and submit
    acked,     \* acknowledgements written to a transport
    faults

vars == <<log, lane, config, conn, acked, faults>>

Closed == [pc |-> "closed", proc |-> None, replay |-> None, raw |-> None,
           head |-> 0, receipt |-> None, transport |-> "cli", witness |-> None]

Init ==
    /\ log = <<>>
    /\ lane = [p \in Processes |-> None]
    /\ config = [p \in Processes |-> [binding |-> 1, policy |-> 1]]
    /\ conn = [c \in Connections |-> Closed]
    /\ acked = {}
    /\ faults = 0

(***************************************************************************)
(* _records and _lookup: the one inbox of an identity, refused when its      *)
(* source binding is no longer the registered one.                          *)
(***************************************************************************)
Inboxes(replay) == {i \in DOMAIN log : log[i].kind = "admit" /\ log[i].replay = replay}

receipt(i) == [replay |-> log[i].replay, raw |-> log[i].raw, run |-> log[i].run, sequence |-> i]

LookupReadable(p, replay) ==
    /\ Cardinality(Inboxes(replay)) <= 1
    /\ \A i \in Inboxes(replay) : log[i].binding = config[p].binding

_lookup(replay) ==
    IF Inboxes(replay) = {} THEN None ELSE receipt(CHOOSE i \in Inboxes(replay) : TRUE)

(***************************************************************************)
(* receive: one framed request per connection of an authenticated peer; a    *)
(* body that is not a supported prompt is refused before it is issued.       *)
(***************************************************************************)
issue(p) == config[p]

receive(c, p, replay, raw, transport) ==
    /\ conn[c].pc = "closed"
    /\ conn' = [conn EXCEPT ![c] =
         [pc |-> "submit", proc |-> p, replay |-> replay, raw |-> raw, head |-> 0,
          receipt |-> None, transport |-> transport, witness |-> issue(p)]]
    /\ UNCHANGED <<log, lane, config, acked, faults>>

Close(c) == conn' = [conn EXCEPT ![c] = Closed]

(* _authenticate: the witness is the proof over the registered source and     *)
(* the budget policy.                                                        *)
_authenticate(c) == conn[c].witness = config[conn[c].proc]

SameSubmission(c, i) ==
    log[i].raw = conn[c].raw /\ log[i].policy = config[conn[c].proc].policy

(***************************************************************************)
(* submit, inside the lane: the snapshot, the witness and the lookup.  An    *)
(* exact replay returns the original receipt, a changed one is refused, and  *)
(* a new identity is prepared against the snapshot's head.                   *)
(***************************************************************************)
StartSubmit(c) ==
    LET p == conn[c].proc
        previous == _lookup(conn[c].replay) IN
    /\ conn[c].pc = "submit"
    /\ lane[p] = None
    /\ _authenticate(c)
    /\ \/ /\ LookupReadable(p, conn[c].replay)
          /\ previous = None
          /\ lane' = [lane EXCEPT ![p] = c]
          /\ conn' = [conn EXCEPT ![c].pc = "publish", ![c].head = Len(log)]
       \/ /\ LookupReadable(p, conn[c].replay)
          /\ previous # None
          /\ SameSubmission(c, previous.sequence)
          /\ conn' = [conn EXCEPT ![c].pc = "selected", ![c].receipt = previous]
          /\ UNCHANGED lane
       \/ /\ LookupReadable(p, conn[c].replay)
             => previous # None /\ ~SameSubmission(c, previous.sequence)
          /\ Close(c)
          /\ UNCHANGED lane
    /\ UNCHANGED <<log, config, acked, faults>>

(***************************************************************************)
(* publish_execution_batch: a batch of the same identity, a moved head or    *)
(* the guard's lookup refuse; otherwise inbox and Run are one batch.  The    *)
(* Run record names its worker, so another process's batch never replays.    *)
(***************************************************************************)
Batch(c) ==
    LET p == conn[c].proc IN
    [kind |-> "admit", replay |-> conn[c].replay, raw |-> conn[c].raw,
     run |-> <<conn[c].replay, "run">>, worker |-> p,
     binding |-> config[p].binding, policy |-> config[p].policy]

(* Mutant: the batch is appended on the head of its own snapshot.           *)
AdmitsStale(c) == TRUE

Admits(c) == Inboxes(conn[c].replay) = {} /\ conn[c].head = Len(log)

publish_execution_batch(c) ==
    LET p == conn[c].proc IN
    /\ conn[c].pc = "publish"
    /\ lane' = [lane EXCEPT ![p] = None]
    /\ \/ /\ Admits(c)
          /\ Len(log) < MaxHead
          /\ log' = Append(log, Batch(c))
          /\ conn' = [conn EXCEPT ![c].pc = "selected",
                        ![c].receipt = [replay |-> conn[c].replay, raw |-> conn[c].raw,
                                        run |-> Batch(c).run, sequence |-> Len(log) + 1]]
          /\ UNCHANGED faults
       \/ /\ Admits(c)
          /\ Len(log) < MaxHead
          /\ faults < MaxFaults
          /\ faults' = faults + 1
          /\ log' = Append(log, Batch(c))
          /\ Close(c)
       \/ /\ ~Admits(c)
          /\ Close(c)
          /\ UNCHANGED <<log, faults>>
    /\ UNCHANGED <<config, acked>>

(***************************************************************************)
(* The transport looks the selected custody up outside the lane and goes on   *)
(* only with what equals the admitted receipt and its own bytes.  The local  *)
(* socket acknowledges at once and then drives the Run.                      *)
(***************************************************************************)
ExactCustody(c) ==
    LET selected == _lookup(conn[c].replay) IN
    /\ LookupReadable(conn[c].proc, conn[c].replay)
    /\ selected = conn[c].receipt
    /\ selected.raw = conn[c].raw

Acknowledge(c) ==
    /\ conn[c].pc = "selected"
    /\ conn[c].transport = "cli"
    /\ IF ExactCustody(c)
       THEN /\ acked' = acked \cup {conn[c].receipt}
            /\ conn' = [conn EXCEPT ![c].pc = "drive"]
       ELSE UNCHANGED acked /\ Close(c)
    /\ UNCHANGED <<log, lane, config, faults>>

SelectTelegram(c) ==
    /\ conn[c].pc = "selected"
    /\ conn[c].transport = "telegram"
    /\ IF ExactCustody(c) THEN conn' = [conn EXCEPT ![c].pc = "drive"] ELSE Close(c)
    /\ UNCHANGED <<log, lane, config, acked, faults>>

(* drive: the inbox resolves to the same Run; its transitions are those of   *)
(* ModelExecution, and an error here leaves the Run for recovery.  The        *)
(* Telegram boundary returns the receipt only after the drive.               *)
drive(c) ==
    /\ conn[c].pc = "drive"
    /\ \/ UNCHANGED acked
       \/ /\ conn[c].transport = "telegram"
          /\ acked' = acked \cup {conn[c].receipt}
    /\ Close(c)
    /\ UNCHANGED <<log, lane, config, faults>>

(***************************************************************************)
(* Faults and the environment.                                             *)
(***************************************************************************)
OtherPublication ==
    /\ Len(log) < MaxHead
    /\ faults < MaxFaults
    /\ faults' = faults + 1
    /\ log' = Append(log, [kind |-> "other"])
    /\ UNCHANGED <<lane, config, conn, acked>>

(* A process restarts, with another binding or policy of the source.         *)
Restart(p, new) ==
    /\ faults < MaxFaults
    /\ faults' = faults + 1
    /\ config' = [config EXCEPT ![p] = new]
    /\ lane' = [lane EXCEPT ![p] = None]
    /\ conn' = [c \in Connections |-> IF conn[c].proc = p THEN Closed ELSE conn[c]]
    /\ UNCHANGED <<log, acked>>

Next ==
    \/ \E c \in Connections :
         \/ \E p \in Processes, r \in Replays, b \in Bodies,
               t \in {"cli", "telegram"} : receive(c, p, r, b, t)
         \/ StartSubmit(c) \/ publish_execution_batch(c) \/ Acknowledge(c)
         \/ SelectTelegram(c) \/ drive(c)
    \/ OtherPublication
    \/ \E p \in Processes, b, q \in 1..2 : Restart(p, [binding |-> b, policy |-> q])

Spec == Init /\ [][Next]_vars

-------------------------------------------------------------------------------
(***************************************************************************)
(* Properties                                                              *)
(***************************************************************************)

(* What a transport acknowledged (NativeCliIngress.receive) stays the one     *)
(* selected custody of its identity: one inbox, with exactly the bytes and    *)
(* the Run that were acknowledged, however often and wherever the identity    *)
(* is submitted again.                                                       *)
AckIsSelectedCustody ==
    \A a \in acked :
        /\ Inboxes(a.replay) = {a.sequence}
        /\ receipt(a.sequence) = a

-------------------------------------------------------------------------------
(***************************************************************************)
(* The inductive invariant.                                                *)
(***************************************************************************)
Configs == [binding : 1..2, policy : 1..2]
Runs == Replays \X {"run"}
Entries == [kind : {"admit"}, replay : Replays, raw : Bodies, run : Runs,
            worker : Processes, binding : 1..2, policy : 1..2]
             \cup {[kind |-> "other"]}
Receipts == [replay : Replays, raw : Bodies, run : Runs, sequence : Nat]

\* What the constants have to be: None is no process, connection or receipt.
IngressAssumption ==
    /\ None \notin Processes /\ None \notin Connections /\ None \notin Receipts
    /\ MaxHead \in Nat /\ MaxFaults \in Nat

Optional(S) == S \cup {None}
Transports == {"cli", "telegram"}
Pcs == {"closed", "submit", "publish", "selected", "drive"}
Locals == [pc : Pcs, proc : Optional(Processes), replay : Optional(Replays),
           raw : Optional(Bodies), head : Nat, receipt : Optional(Receipts),
           transport : Transports, witness : Optional(Configs)]

TypeInv ==
    /\ log \in Seq(Entries) /\ config \in [Processes -> Configs]
    /\ conn \in [Connections -> Locals]

\* The replay identity is unique in the log.
OneInbox ==
    \A i, j \in DOMAIN log :
        /\ log[i].kind = "admit" /\ log[j].kind = "admit"
        /\ log[i].replay = log[j].replay
        => i = j

Custody(a) ==
    /\ Inboxes(a.replay) = {a.sequence}
    /\ receipt(a.sequence) = a

\* A connection is a submission until it closes; it has a receipt once selected
\* and the custody of it once it drives the Run.
ConnInv(l) ==
    /\ l.pc # "closed" => l.proc \in Processes /\ l.replay \in Replays /\ l.raw \in Bodies
    /\ l.pc = "selected" => l.receipt # None
    /\ l.pc = "drive" => Custody(l.receipt)

IInv ==
    /\ TypeInv /\ OneInbox
    /\ \A c \in Connections : ConnInv(conn[c])
    /\ \A a \in acked : Custody(a)

-------------------------------------------------------------------------------
(***************************************************************************)
(* What a step leaves of the custody.                                      *)
(***************************************************************************)
SetsConn(c, l) ==
    /\ conn' \in [Connections -> Locals] /\ conn'[c] = l
    /\ \A d \in Connections : d # c => conn'[d] = conn[d]

\* What was in custody still is.
CustodyKept == \A a : Custody(a) => Custody(a)'

LEMMA LogUnchanged ==
    ASSUME IInv, UNCHANGED log
    PROVE  log' \in Seq(Entries) /\ OneInbox' /\ CustodyKept
<1>1. log' \in Seq(Entries) /\ OneInbox'
    BY DEF IInv, TypeInv, OneInbox
<1>2. CustodyKept
    BY DEF CustodyKept, Custody, Inboxes, receipt
<1> QED BY <1>1, <1>2

\* A batch of another kind, or the first inbox of its identity, takes nothing
\* from the custody of the identities before it.
LEMMA LogAppended ==
    ASSUME IInv, NEW e \in Entries, log' = Append(log, e),
           e.kind = "other" \/ Inboxes(e.replay) = {}
    PROVE  log' \in Seq(Entries) /\ OneInbox' /\ CustodyKept
<1>1. log \in Seq(Entries) /\ OneInbox
    BY DEF IInv, TypeInv
<1>2. /\ log' \in Seq(Entries) /\ DOMAIN log' = DOMAIN log \cup {Len(log) + 1}
      /\ log'[Len(log) + 1] = e /\ \A i \in DOMAIN log : log'[i] = log[i]
      /\ Len(log) + 1 \notin DOMAIN log
    BY <1>1
<1>3. \A i \in DOMAIN log : log[i].kind = "admit" /\ e.kind = "admit" => log[i].replay # e.replay
    <2>1. "admit" # "other"
        OBVIOUS
    <2> QED BY <2>1 DEF Inboxes
<1>4. OneInbox'
    <2> SUFFICES ASSUME NEW i \in DOMAIN log', NEW j \in DOMAIN log',
                        log'[i].kind = "admit", log'[j].kind = "admit",
                        log'[i].replay = log'[j].replay
                 PROVE  i = j
        BY DEF OneInbox
    <2>1. CASE i \in DOMAIN log /\ j \in DOMAIN log
        BY <1>1, <1>2, <2>1 DEF OneInbox
    <2>2. CASE ~(i \in DOMAIN log /\ j \in DOMAIN log)
        BY <1>2, <1>3, <2>2
    <2> QED BY <2>1, <2>2
<1>5. ASSUME NEW a, Custody(a) PROVE Custody(a)'
    <2>1. Inboxes(a.replay) = {a.sequence} /\ receipt(a.sequence) = a
        BY <1>5 DEF Custody
    <2>2. a.sequence \in DOMAIN log /\ log[a.sequence].kind = "admit"
          /\ log[a.sequence].replay = a.replay
        BY <2>1 DEF Inboxes
    <2>3. e.kind = "admit" => e.replay # a.replay
        BY <1>3, <2>2
    <2>4. Inboxes(a.replay)' = {a.sequence}
        <3>1. ASSUME NEW i \in DOMAIN log', log'[i].kind = "admit", log'[i].replay = a.replay
              PROVE  i \in Inboxes(a.replay)
            BY <1>2, <2>3, <3>1 DEF Inboxes
        <3>2. a.sequence \in DOMAIN log' /\ log'[a.sequence] = log[a.sequence]
            BY <1>2, <2>2
        <3> QED BY <2>1, <2>2, <3>1, <3>2 DEF Inboxes
    <2>5. receipt(a.sequence)' = a
        BY <1>2, <2>1, <2>2 DEF receipt
    <2> QED BY <2>4, <2>5 DEF Custody
<1> QED BY <1>2, <1>4, <1>5 DEF CustodyKept

\* A step of one connection that owes the rest of the invariant for itself only.
LEMMA ConnStep ==
    ASSUME IInv, NEW c \in Connections, NEW l \in Locals, SetsConn(c, l), ConnInv(l)',
           log' \in Seq(Entries), OneInbox', CustodyKept, UNCHANGED config,
           \A a \in acked' : a \in acked \/ Custody(a)'
    PROVE  IInv'
<1>1. TypeInv'
    BY DEF IInv, TypeInv, SetsConn
<1>2. ASSUME NEW d \in Connections PROVE ConnInv(conn[d])'
    <2>1. CASE d = c
        BY <2>1 DEF SetsConn
    <2>2. CASE d # c
        BY <2>2 DEF SetsConn, IInv, ConnInv, CustodyKept
    <2> QED BY <2>1, <2>2
<1>3. \A a \in acked' : Custody(a)'
    BY DEF IInv, CustodyKept
<1> QED BY <1>1, <1>2, <1>3 DEF IInv

\* A refused or finished connection.
LEMMA CloseStep ==
    ASSUME IngressAssumption, IInv, NEW c \in Connections, Close(c),
           log' \in Seq(Entries), OneInbox', CustodyKept, UNCHANGED config,
           \A a \in acked' : a \in acked \/ Custody(a)'
    PROVE  IInv'
<1>1. Closed \in Locals /\ Closed.pc = "closed"
    BY DEF Closed, Locals, Pcs, Transports, Optional
<1>2. SetsConn(c, Closed)
    BY <1>1 DEF Close, SetsConn, IInv, TypeInv
<1>3. ConnInv(Closed)'
    BY <1>1 DEF ConnInv
<1> QED BY <1>1, <1>2, <1>3, ConnStep

\* Moving on keeps what the connection was opened with; so does taking the head
\* to publish against ...
LEMMA MovesOn ==
    ASSUME IInv, NEW c \in Connections, NEW pc \in Pcs,
           conn' = [conn EXCEPT ![c].pc = pc]
    PROVE  \E l \in Locals :
             /\ SetsConn(c, l) /\ l.pc = pc /\ l.receipt = conn[c].receipt
             /\ l.proc = conn[c].proc /\ l.replay = conn[c].replay /\ l.raw = conn[c].raw
<1>1. conn \in [Connections -> Locals]
    BY DEF IInv, TypeInv
<1>2. conn' \in [Connections -> Locals]
    BY <1>1 DEF Locals
<1>3. SetsConn(c, conn'[c])
    BY <1>1, <1>2 DEF SetsConn
<1> QED BY <1>1, <1>2, <1>3 DEF Locals

\* ... with the head itself ...
LEMMA MovesWithHead ==
    ASSUME IInv, NEW c \in Connections, NEW pc \in Pcs, NEW head \in Nat,
           conn' = [conn EXCEPT ![c].pc = pc, ![c].head = head]
    PROVE  \E l \in Locals :
             /\ SetsConn(c, l) /\ l.pc = pc /\ l.receipt = conn[c].receipt
             /\ l.proc = conn[c].proc /\ l.replay = conn[c].replay /\ l.raw = conn[c].raw
<1>1. conn \in [Connections -> Locals]
    BY DEF IInv, TypeInv
<1>2. conn' \in [Connections -> Locals]
    BY <1>1 DEF Locals
<1>3. SetsConn(c, conn'[c])
    BY <1>1, <1>2 DEF SetsConn
<1> QED BY <1>1, <1>2, <1>3 DEF Locals

Selects(c, rec) == conn' = [conn EXCEPT ![c].pc = "selected", ![c].receipt = rec]

\* ... or the receipt of what was selected.
LEMMA MovesWithReceipt ==
    ASSUME IInv, NEW c \in Connections, NEW rec \in Receipts, Selects(c, rec)
    PROVE  \E l \in Locals :
             /\ SetsConn(c, l) /\ l.pc = "selected" /\ l.receipt = rec
             /\ l.proc = conn[c].proc /\ l.replay = conn[c].replay /\ l.raw = conn[c].raw
<1>1. conn \in [Connections -> Locals]
    BY DEF IInv, TypeInv
<1>2. conn' \in [Connections -> Locals]
    <2>1. "selected" \in Pcs /\ rec \in Optional(Receipts)
        BY DEF Pcs, Optional
    <2> QED BY <1>1, <2>1 DEF Locals, Selects
<1>3. SetsConn(c, conn'[c])
    BY <1>1, <1>2 DEF SetsConn, Selects
<1> QED BY <1>1, <1>2, <1>3 DEF Locals, Selects


-------------------------------------------------------------------------------
(***************************************************************************)
(* The actions.                                                            *)
(***************************************************************************)

\* What the lookup of an identity in the log finds is its custody.
LEMMA LookupIsCustody ==
    ASSUME IngressAssumption, IInv, NEW replay \in Replays, _lookup(replay) # None
    PROVE  /\ _lookup(replay) \in Receipts /\ Custody(_lookup(replay))
           /\ _lookup(replay).replay = replay
<1>1. log \in Seq(Entries) /\ OneInbox
    BY DEF IInv, TypeInv
<1>2. Inboxes(replay) # {}
    BY DEF _lookup
<1>3. PICK i \in Inboxes(replay) : i = CHOOSE j \in Inboxes(replay) : TRUE
    BY <1>2
<1>4. i \in DOMAIN log /\ log[i].kind = "admit" /\ log[i].replay = replay
    BY <1>3 DEF Inboxes
<1>5. Inboxes(replay) = {i}
    BY <1>1, <1>3, <1>4 DEF Inboxes, OneInbox
<1>6. _lookup(replay) = receipt(i)
    BY <1>2, <1>3 DEF _lookup
<1>7. log[i] \in Entries /\ i \in Nat
    BY <1>1, <1>4
<1>8. log[i].raw \in Bodies /\ log[i].run \in Runs
    BY <1>4, <1>7 DEF Entries
<1>9. receipt(i) \in Receipts /\ receipt(i).replay = replay /\ receipt(i).sequence = i
    BY <1>4, <1>7, <1>8 DEF receipt, Receipts
<1> QED BY <1>5, <1>6, <1>9 DEF Custody

LEMMA ReceiveStep ==
    ASSUME IngressAssumption, IInv, NEW c \in Connections, NEW p \in Processes,
           NEW r \in Replays, NEW b \in Bodies, NEW t \in Transports, receive(c, p, r, b, t)
    PROVE  IInv'
<1>1. conn \in [Connections -> Locals] /\ config[p] \in Configs
    BY DEF IInv, TypeInv
<1>2. PICK l \in Locals :
        /\ l = [pc |-> "submit", proc |-> p, replay |-> r, raw |-> b, head |-> 0,
                receipt |-> None, transport |-> t, witness |-> config[p]]
        /\ l.pc = "submit" /\ l.proc = p /\ l.replay = r /\ l.raw = b
    <2> DEFINE l == [pc |-> "submit", proc |-> p, replay |-> r, raw |-> b, head |-> 0,
                     receipt |-> None, transport |-> t, witness |-> config[p]]
    <2>1. l \in Locals
        BY <1>1 DEF Locals, Pcs, Optional
    <2> QED BY <2>1, Zenon
<1>4. conn' = [conn EXCEPT ![c] = l]
    BY <1>2 DEF receive, issue
<1>5. SetsConn(c, l)
    BY <1>1, <1>4 DEF SetsConn
<1>6. ConnInv(l)'
    BY <1>2 DEF ConnInv
<1>7. UNCHANGED <<log, config, acked>>
    BY DEF receive
<1>8. log' \in Seq(Entries) /\ OneInbox' /\ CustodyKept
    BY <1>7, LogUnchanged
<1> QED BY <1>5, <1>6, <1>7, <1>8, ConnStep

\* A new identity goes on to publish; a replay has the original receipt.
LEMMA StartSubmitStep ==
    ASSUME IngressAssumption, IInv, NEW c \in Connections, StartSubmit(c)
    PROVE  IInv'
<1>1. /\ TypeInv /\ ConnInv(conn[c]) /\ conn[c].pc = "submit" /\ conn[c].replay \in Replays
      /\ conn[c].proc \in Processes /\ conn[c].raw \in Bodies
    BY DEF IInv, ConnInv, StartSubmit
<1>2. UNCHANGED <<log, config, acked>>
    BY DEF StartSubmit
<1>3. log' \in Seq(Entries) /\ OneInbox' /\ CustodyKept
    BY <1>2, LogUnchanged
<1>4. CASE conn' = [conn EXCEPT ![c].pc = "publish", ![c].head = Len(log)]
    <2>1. Len(log) \in Nat
        BY <1>1 DEF TypeInv
    <2>2. PICK l \in Locals :
            /\ SetsConn(c, l) /\ l.pc = "publish" /\ l.proc = conn[c].proc
            /\ l.replay = conn[c].replay /\ l.raw = conn[c].raw
        BY <1>4, <2>1, MovesWithHead DEF Pcs
    <2>3. ConnInv(l)'
        BY <1>1, <2>2 DEF ConnInv
    <2> QED BY <1>2, <1>3, <2>2, <2>3, ConnStep
<1>5. CASE /\ _lookup(conn[c].replay) # None
           /\ conn' = [conn EXCEPT ![c].pc = "selected", ![c].receipt = _lookup(conn[c].replay)]
    <2>1. PICK rec \in Receipts : rec = _lookup(conn[c].replay)
        BY <1>1, <1>5, LookupIsCustody
    <2>2. PICK l \in Locals :
            /\ SetsConn(c, l) /\ l.pc = "selected" /\ l.receipt = rec /\ l.proc = conn[c].proc
            /\ l.replay = conn[c].replay /\ l.raw = conn[c].raw
        <3>1. Selects(c, rec)
            BY <1>5, <2>1 DEF Selects
        <3> QED BY <3>1, MovesWithReceipt
    <2>3. ConnInv(l)'
        BY <1>1, <2>1, <2>2 DEF ConnInv, IngressAssumption
    <2> QED BY <1>2, <1>3, <2>2, <2>3, ConnStep
<1>6. CASE Close(c)
    BY <1>2, <1>3, <1>6, CloseStep
<1> QED BY <1>4, <1>5, <1>6 DEF StartSubmit

\* Inbox and Run are one batch, appended only when the identity has no inbox.
LEMMA PublishStep ==
    ASSUME IngressAssumption, IInv, NEW c \in Connections, publish_execution_batch(c)
    PROVE  IInv'
<1>1. /\ TypeInv /\ ConnInv(conn[c]) /\ conn[c].pc = "publish" /\ conn[c].replay \in Replays
      /\ conn[c].proc \in Processes /\ conn[c].raw \in Bodies
    BY DEF IInv, ConnInv, publish_execution_batch
<1>2. UNCHANGED <<config, acked>>
    BY DEF publish_execution_batch
<1>3. Batch(c) \in Entries /\ Batch(c).replay = conn[c].replay
      /\ Batch(c).run = <<conn[c].replay, "run">> /\ Batch(c).run \in Runs
    BY <1>1 DEF Batch, Entries, Runs, TypeInv, Configs
<1>4. ASSUME Admits(c), log' = Append(log, Batch(c))
      PROVE  log' \in Seq(Entries) /\ OneInbox' /\ CustodyKept
    <2>1. PICK e \in Entries : e = Batch(c)
        BY <1>3
    <2>2. Inboxes(e.replay) = {}
        BY <1>3, <1>4, <2>1 DEF Admits
    <2> QED BY <1>4, <2>1, <2>2, LogAppended
<1>5. CASE /\ Admits(c) /\ log' = Append(log, Batch(c))
           /\ conn' = [conn EXCEPT ![c].pc = "selected",
                         ![c].receipt = [replay |-> conn[c].replay, raw |-> conn[c].raw,
                                         run |-> Batch(c).run, sequence |-> Len(log) + 1]]
    <2>1. PICK rec \in Receipts :
            rec = [replay |-> conn[c].replay, raw |-> conn[c].raw,
                   run |-> Batch(c).run, sequence |-> Len(log) + 1]
        <3>1. Len(log) + 1 \in Nat
            BY <1>1 DEF TypeInv
        <3>2. [replay |-> conn[c].replay, raw |-> conn[c].raw,
               run |-> Batch(c).run, sequence |-> Len(log) + 1] \in Receipts
            BY <1>1, <1>3, <3>1 DEF Receipts
        <3> QED BY <3>2, Zenon
    <2>2. PICK l \in Locals :
            /\ SetsConn(c, l) /\ l.pc = "selected" /\ l.receipt = rec /\ l.proc = conn[c].proc
            /\ l.replay = conn[c].replay /\ l.raw = conn[c].raw
        <3>1. Selects(c, rec)
            BY <1>5, <2>1 DEF Selects
        <3> QED BY <3>1, MovesWithReceipt
    <2>3. ConnInv(l)'
        BY <1>1, <2>1, <2>2 DEF ConnInv, IngressAssumption
    <2> QED BY <1>2, <1>4, <1>5, <2>2, <2>3, ConnStep
<1>6. CASE Admits(c) /\ log' = Append(log, Batch(c)) /\ Close(c)
    BY <1>2, <1>4, <1>6, CloseStep
<1>7. CASE UNCHANGED log /\ Close(c)
    BY <1>2, <1>7, LogUnchanged, CloseStep
<1> QED BY <1>5, <1>6, <1>7 DEF publish_execution_batch

\* The transport goes on only with the custody the lookup finds.
LEMMA SelectStep ==
    ASSUME IngressAssumption, IInv, NEW c \in Connections, Acknowledge(c) \/ SelectTelegram(c)
    PROVE  IInv'
<1>1. /\ TypeInv /\ ConnInv(conn[c]) /\ conn[c].pc = "selected" /\ conn[c].replay \in Replays
      /\ conn[c].proc \in Processes /\ conn[c].raw \in Bodies /\ conn[c].receipt # None
    BY DEF IInv, ConnInv, Acknowledge, SelectTelegram
<1>2. UNCHANGED <<log, config>>
    BY DEF Acknowledge, SelectTelegram
<1>3. log' \in Seq(Entries) /\ OneInbox' /\ CustodyKept
    BY <1>2, LogUnchanged
<1>4. CASE ExactCustody(c)
    <2>1. Custody(conn[c].receipt)
        BY <1>1, <1>4, LookupIsCustody DEF ExactCustody
    <2>2. conn' = [conn EXCEPT ![c].pc = "drive"] /\ acked' \subseteq acked \cup {conn[c].receipt}
        BY <1>4 DEF Acknowledge, SelectTelegram
    <2>3. PICK l \in Locals :
            /\ SetsConn(c, l) /\ l.pc = "drive" /\ l.receipt = conn[c].receipt
            /\ l.proc = conn[c].proc /\ l.replay = conn[c].replay /\ l.raw = conn[c].raw
        BY <2>2, MovesOn DEF Pcs
    <2>4. Custody(l.receipt)'
        <3>1. PICK rec : rec = conn[c].receipt
            OBVIOUS
        <3> QED BY <1>3, <2>1, <2>3, <3>1 DEF CustodyKept
    <2>5. ConnInv(l)'
        BY <1>1, <2>3, <2>4 DEF ConnInv
    <2>6. \A a \in acked' : a \in acked \/ Custody(a)'
        BY <2>2, <2>3, <2>4
    <2> QED BY <1>2, <1>3, <2>3, <2>5, <2>6, ConnStep
<1>5. CASE ~ExactCustody(c)
    <2>1. Close(c) /\ UNCHANGED acked
        BY <1>5 DEF Acknowledge, SelectTelegram
    <2> QED BY <1>2, <1>3, <2>1, CloseStep
<1> QED BY <1>4, <1>5

LEMMA DriveStep ==
    ASSUME IngressAssumption, IInv, NEW c \in Connections, drive(c)
    PROVE  IInv'
<1>1. Custody(conn[c].receipt) /\ UNCHANGED <<log, config>> /\ Close(c)
      /\ acked' \subseteq acked \cup {conn[c].receipt}
    BY DEF IInv, ConnInv, drive
<1>2. log' \in Seq(Entries) /\ OneInbox' /\ CustodyKept
    BY <1>1, LogUnchanged
<1>3. ASSUME NEW a \in acked' PROVE a \in acked \/ Custody(a)'
    BY <1>1, <1>2 DEF CustodyKept
<1> QED BY <1>1, <1>2, <1>3, CloseStep

LEMMA OtherPublicationStep ==
    ASSUME IInv, OtherPublication
    PROVE  IInv'
<1>1. UNCHANGED <<config, conn, acked>>
    BY DEF OtherPublication
<1>2. PICK e \in Entries : e.kind = "other" /\ log' = Append(log, e)
    BY DEF OtherPublication, Entries
<1>3. log' \in Seq(Entries) /\ OneInbox' /\ CustodyKept
    BY <1>2, LogAppended
<1>4. TypeInv'
    BY <1>1, <1>3 DEF IInv, TypeInv
<1>5. \A c \in Connections : ConnInv(conn[c])'
    BY <1>1, <1>3 DEF IInv, ConnInv, CustodyKept
<1>6. \A a \in acked' : Custody(a)'
    BY <1>1, <1>3 DEF IInv, CustodyKept
<1> QED BY <1>3, <1>4, <1>5, <1>6 DEF IInv

LEMMA RestartStep ==
    ASSUME IngressAssumption, IInv, NEW p \in Processes, NEW new \in Configs, Restart(p, new)
    PROVE  IInv'
<1>1. UNCHANGED <<log, acked>>
    BY DEF Restart
<1>2. log' \in Seq(Entries) /\ OneInbox' /\ CustodyKept
    BY <1>1, LogUnchanged
<1>3. Closed \in Locals /\ Closed.pc = "closed"
    BY DEF Closed, Locals, Pcs, Transports, Optional
<1>4. \A c \in Connections : conn'[c] = Closed \/ conn'[c] = conn[c]
    BY DEF Restart
<1>5. TypeInv'
    BY <1>2, <1>3 DEF Restart, IInv, TypeInv
<1>6. ASSUME NEW c \in Connections PROVE ConnInv(conn[c])'
    <2>1. ConnInv(conn[c])
        BY DEF IInv
    <2> QED BY <1>2, <1>3, <1>4, <2>1 DEF ConnInv, CustodyKept
<1>7. \A a \in acked' : Custody(a)'
    BY <1>1, <1>2 DEF IInv, CustodyKept
<1> QED BY <1>2, <1>5, <1>6, <1>7 DEF IInv

LEMMA InitIInv ==
    ASSUME IngressAssumption, Init
    PROVE  IInv
<1>1. Closed \in Locals /\ Closed.pc = "closed"
    BY DEF Closed, Locals, Pcs, Transports, Optional
<1>2. log = <<>> /\ acked = {} /\ log \in Seq(Entries)
    BY DEF Init
<1>3. TypeInv
    BY <1>1, <1>2 DEF Init, TypeInv, Configs
<1>4. OneInbox
    BY <1>2 DEF OneInbox
<1>5. \A c \in Connections : ConnInv(conn[c])
    BY <1>1 DEF Init, ConnInv
<1> QED BY <1>2, <1>3, <1>4, <1>5 DEF IInv

LEMMA NextIInv ==
    ASSUME IngressAssumption, IInv, [Next]_vars
    PROVE  IInv'
<1>1. CASE UNCHANGED vars
    <2>1. UNCHANGED <<log, config, conn, acked>>
        BY <1>1 DEF vars
    <2>2. log' \in Seq(Entries) /\ OneInbox' /\ CustodyKept
        BY <2>1, LogUnchanged
    <2> QED BY <2>1, <2>2 DEF IInv, TypeInv, ConnInv, CustodyKept
<1>2. ASSUME NEW c \in Connections, NEW p \in Processes, NEW r \in Replays, NEW b \in Bodies,
             NEW t \in {"cli", "telegram"}, receive(c, p, r, b, t)
      PROVE  IInv'
    BY <1>2, ReceiveStep DEF Transports
<1>3. ASSUME NEW c \in Connections,
             \/ StartSubmit(c) \/ publish_execution_batch(c) \/ Acknowledge(c)
             \/ SelectTelegram(c) \/ drive(c)
      PROVE  IInv'
    BY <1>3, StartSubmitStep, PublishStep, SelectStep, DriveStep
<1>4. CASE OtherPublication
    BY <1>4, OtherPublicationStep
<1>5. ASSUME NEW p \in Processes, NEW b \in 1..2, NEW q \in 1..2,
             Restart(p, [binding |-> b, policy |-> q])
      PROVE  IInv'
    BY <1>5, RestartStep DEF Configs
<1> QED BY <1>1, <1>2, <1>3, <1>4, <1>5 DEF Next

\* For any number of processes, connections, identities, bodies and faults: what
\* a transport acknowledged stays the one selected custody of its identity.  The
\* log admits an identity once, a lookup therefore finds its custody, and a
\* connection that drives a Run has that custody in hand.
THEOREM AcksStaySelectedCustody == IngressAssumption /\ Spec => []AckIsSelectedCustody
<1> SUFFICES ASSUME IngressAssumption PROVE Spec => []AckIsSelectedCustody
    OBVIOUS
<1>1. Init => IInv
    BY InitIInv
<1>2. IInv /\ [Next]_vars => IInv'
    BY NextIInv
<1>3. IInv => AckIsSelectedCustody
    BY DEF IInv, Custody, AckIsSelectedCustody
<1> QED BY <1>1, <1>2, <1>3, PTL DEF Spec
===============================================================================
