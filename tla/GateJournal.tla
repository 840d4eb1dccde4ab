----------------------------- MODULE GateJournal -----------------------------
(***************************************************************************)
(* The deployment gate of the R8 runtime (platform/r8_gate.py under        *)
(* composition/r8.py), with the independent authority that authenticates   *)
(* entitlements connected: an append-only journal orders entitlement       *)
(* imports, handoffs and materializations, and its SQLite tables are       *)
(* rebuilt from it in every transaction.                                   *)
(*                                                                         *)
(*   entries  the decision journal; torn once its body is ahead of its     *)
(*            head file, from where every reading refuses;                 *)
(*   store    the committed planning batches, standing for the commitment  *)
(*            of the storage as well;                                      *)
(*   anchor   the authenticated commitment;                                *)
(*   reads    commitment and epoch of the current read state.              *)
(*                                                                         *)
(* A planning write is decided in the journal inside SQLite's transaction, *)
(* before its commit; a disclosure has no execution to replay.  Processes  *)
(* open the same files, crash anywhere, and meet failing commits and       *)
(* appends.                                                                *)
(***************************************************************************)
EXTENDS Naturals, Sequences, FiniteSets, SequencesExt, FiniteSetsExt

CONSTANTS
    Processes,
    Creates,       \* planning commands
    Renders,       \* disclosure operations
    Heads, Modes,  \* entitlement heads and modes
    Cap,           \* handoffs an entitlement admits in a mode
    Expires,       \* the tick at which every entitlement expires
    None,
    MaxClock, MaxEpoch, MaxImports, MaxFaults

\* What the constants have to satisfy.
GateJournalAssumption ==
    {Cap, Expires, MaxClock, MaxEpoch, MaxImports, MaxFaults} \subseteq Nat

VARIABLES entries, torn, store, anchor, reads, epoch,
          issued,     \* operations the authority ledger holds
          clock, faults,
          gate,       \* the process that holds the AuthorityGate between steps
          disclosed,  \* renders whose lines were returned
          committed,  \* creates whose caller was told they are committed
          proc

journal == <<entries, torn>>
bundle == <<store, anchor, reads, epoch, issued>>
observed == <<disclosed, committed>>
vars == <<journal, bundle, observed, clock, faults, gate, proc>>

Down == [pc |-> "down", op |-> None, request |-> None, epoch |-> 0, traced |-> None,
         decided |-> None, next |-> "down"]

Init ==
    /\ entries = <<>> /\ torn = FALSE
    /\ store = <<>> /\ anchor = <<>> /\ reads = [commitment |-> <<>>, epoch |-> 0]
    /\ epoch = 0 /\ issued = {}
    /\ clock = 0 /\ faults = 0 /\ gate = None
    /\ disclosed = {} /\ committed = {}
    /\ proc = [p \in Processes |-> Down]

-----------------------------------------------------------------------------
(* What a transaction materializes from the journal.                       *)

Entries(kind) == {k \in DOMAIN entries : entries[k].kind = kind}

_current ==
    IF Entries("CURRENT") = {} THEN None ELSE entries[Max(Entries("CURRENT"))].value

Handoffs == {entries[k] : k \in Entries("HANDOFF")}
Crossed(o) == \E h \in Handoffs : h.request.op = o
Handoff(o) == CHOOSE h \in Handoffs : h.request.op = o
Materialized(o) == \E k \in Entries("MATERIALIZED") : entries[k].op = o

\* Handoffs that carry an execution and are not materialized.
Pending == {h.request.op : h \in {x \in Handoffs : x.execution # None /\ ~Materialized(x.request.op)}}

Current(sequence, head, mode, status) ==
    [sequence |-> sequence, head |-> head, mode |-> mode, status |-> status]

Request(o, value) == [op |-> o, value |-> value]

Used(value) ==
    Cardinality({h \in Handoffs : /\ h.request.value.head = value.head
                                  /\ h.request.value.mode = value.mode})

\* Permitted under exactly the current entitlement, once, within its cap.
_evaluate(request) ==
    /\ ~torn
    /\ _current # None
    /\ request.value = _current
    /\ clock < Expires
    /\ _current.status = "ACTIVE"
    /\ ~Crossed(request.op)
    /\ Used(request.value) < Cap

Fault == faults < MaxFaults /\ faults' = faults + 1

\* The exact decision is in the journal, found there if the append failed late.
_decide(event) == ~torn /\ entries' = Append(entries, event) /\ UNCHANGED torn

\* Nothing is written, or the body without its head.
DecideFails == ~torn /\ Fault /\ torn' \in BOOLEAN /\ UNCHANGED entries

HandoffEvent(request, execution) ==
    [kind |-> "HANDOFF", request |-> request, execution |-> execution, at |-> clock]

Free == gate = None
IsCurrent(p) == proc[p].epoch = epoch

\* BrokerAuthorityReader releases storage that equals the read state, to its epoch.
Readable(p) == IsCurrent(p) /\ reads.epoch = proc[p].epoch /\ reads.commitment = store

-----------------------------------------------------------------------------
(* The entitlement authority and the clock. *)

\* An authenticated successor of the value it expects, in the same epoch.
import_current ==
    /\ Free /\ ~torn /\ Cardinality(Entries("CURRENT")) < MaxImports
    /\ \E h \in Heads, m \in Modes, status \in {"ACTIVE", "HELD"} :
          _decide([kind |-> "CURRENT",
                   value |-> Current(IF _current = None THEN 0 ELSE _current.sequence + 1,
                                     h, m, status)])
    /\ UNCHANGED <<bundle, observed, clock, faults, gate, proc>>

Tick ==
    /\ clock < MaxClock /\ clock' = clock + 1
    /\ UNCHANGED <<journal, bundle, observed, faults, gate, proc>>

-----------------------------------------------------------------------------
(* Steps of a process. *)

Goto(p, pc) == proc' = [proc EXCEPT ![p].pc = pc]

Idle(p) == [proc[p] EXCEPT !.pc = "up", !.op = None, !.request = None, !.traced = None, !.decided = None]

\* The call returns; one that fails while the runtime opens does not bring it up.
Return(p) == proc' = [proc EXCEPT ![p] = Idle(p)]
Raise(p) == proc' = [proc EXCEPT ![p] = IF proc[p].epoch = 0 THEN Down ELSE Idle(p)]

Crash(p) ==
    /\ proc[p].pc # "down"
    /\ proc' = [proc EXCEPT ![p] = Down]
    /\ gate' = IF gate = p THEN None ELSE gate
    /\ UNCHANGED <<journal, bundle, observed, clock, faults>>

\* _prepare_startup: the gate is configured, then what is pending is recovered.
Open(p) ==
    /\ proc[p].pc = "down" /\ epoch < MaxEpoch /\ Free /\ ~torn
    /\ proc' = [proc EXCEPT ![p] = [Down EXCEPT !.pc = "recover", !.next = "start"]]
    /\ UNCHANGED <<journal, bundle, observed, clock, faults, gate>>

\* As if nothing were pending once the runtime is up.
RecoverAtStartup(p) == IF proc[p].epoch = 0 THEN Pending ELSE {}

RecoverFirst(p) == Pending

\* _recover_pending, for the decision it finds: still to be written, or
\* already in the store.
_recover_pending(p) ==
    /\ proc[p].pc = "recover" /\ Free
    /\ IF torn THEN Raise(p)
       ELSE IF RecoverFirst(p) = {} THEN Goto(p, proc[p].next)
       ELSE LET o == CHOOSE x \in RecoverFirst(p) : TRUE
            IN  proc' = [proc EXCEPT ![p].pc =
                            IF store = Handoff(o).execution.predecessor THEN "resubmit"
                            ELSE "finish",
                         ![p].decided = o]
    /\ UNCHANGED <<journal, bundle, observed, clock, faults, gate>>

\* The decided batch, at the head its proposal names; no guard is asked again.
Resubmit(p) ==
    LET o == proc[p].decided
        h == Handoff(o)
        stored == o \in ToSet(store)
        current == Len(store) = Len(h.execution.predecessor) IN
    /\ proc[p].pc = "resubmit" /\ Free
    /\ \/ stored /\ Goto(p, "finish") /\ UNCHANGED <<store, faults>>
       \/ /\ ~stored /\ ~current /\ UNCHANGED <<store, faults>>
          /\ IF ~torn /\ Materialized(o) THEN Goto(p, "recover") ELSE Raise(p)
       \/ ~stored /\ current /\ store' = Append(store, o) /\ Goto(p, "finish") /\ UNCHANGED faults
       \/ ~stored /\ current /\ Fault /\ store' \in {store, Append(store, o)} /\ Raise(p)
    /\ UNCHANGED <<journal, anchor, reads, epoch, issued, observed, clock, gate>>

Between(c, h) == c \in {h.execution.predecessor, h.execution.resulting}

\* _finish_gate_decision under the authority gate: the anchor, the read
\* state, then the journal.
_finish_gate_decision(p) ==
    LET o == proc[p].decided
        h == Handoff(o) IN
    /\ proc[p].pc = "finish" /\ Free
    /\ IF torn THEN Raise(p) /\ UNCHANGED <<anchor, gate>>
       ELSE IF Materialized(o) THEN Goto(p, "finished") /\ UNCHANGED <<anchor, gate>>
       ELSE IF /\ Pending = {o} /\ store = h.execution.resulting
               /\ Between(anchor, h) /\ Between(reads.commitment, h)
       THEN anchor' = store /\ gate' = p /\ Goto(p, "finish_reads")
       ELSE Raise(p) /\ UNCHANGED <<anchor, gate>>
    /\ UNCHANGED <<journal, store, reads, epoch, issued, observed, clock, faults>>

FinishReads(p) ==
    /\ proc[p].pc = "finish_reads"
    /\ reads' = [reads EXCEPT !.commitment = store]
    /\ Goto(p, "finish_mark")
    /\ UNCHANGED <<journal, store, anchor, epoch, issued, observed, clock, faults, gate>>

materialized(p) ==
    /\ proc[p].pc = "finish_mark"
    /\ gate' = None
    /\ \/ /\ _decide([kind |-> "MATERIALIZED", op |-> proc[p].decided])
          /\ Goto(p, "finished") /\ UNCHANGED faults
       \/ DecideFails /\ Raise(p)
    /\ UNCHANGED <<bundle, observed, clock>>

\* A recovery goes on with what is pending next; a create has its outcome.
Finished(p) ==
    /\ proc[p].pc = "finished"
    /\ IF proc[p].next = "outcome"
       THEN committed' = committed \cup {proc[p].op} /\ Return(p)
       ELSE Goto(p, "recover") /\ UNCHANGED committed
    /\ UNCHANGED <<journal, bundle, disclosed, clock, faults, gate>>

\* The next epoch, and its read state if the store is what was anchored.
_start_generation(p) ==
    /\ proc[p].pc = "start" /\ Free /\ epoch < MaxEpoch
    /\ epoch' = epoch + 1
    /\ IF anchor = store
       THEN /\ reads' = [commitment |-> anchor, epoch |-> epoch + 1]
            /\ proc' = [proc EXCEPT ![p] = [Idle(p) EXCEPT !.epoch = epoch + 1]]
       ELSE Raise(p) /\ UNCHANGED reads
    /\ UNCHANGED <<journal, store, anchor, issued, observed, clock, faults, gate>>

-----------------------------------------------------------------------------
(* Creating an intention line. *)

Imported == {entries[k].value : k \in Entries("CURRENT")}

\* The lane is taken and what is pending is recovered first.
create(p, o) ==
    /\ proc[p].pc = "up"
    /\ \E v \in Imported :
          proc' = [proc EXCEPT ![p].pc = "recover", ![p].next = "cross", ![p].op = o,
                               ![p].request = Request(o, v)]
    /\ UNCHANGED <<journal, bundle, observed, clock, faults, gate>>

\* A command that crossed is only looked up; any other needs the permit.
Cross(p) ==
    LET o == proc[p].op IN
    /\ proc[p].pc = "cross" /\ Free
    /\ IF ~torn /\ Crossed(o)
       THEN /\ committed' = IF /\ Handoff(o).request = proc[p].request
                               /\ Readable(p) /\ o \in ToSet(store)
                            THEN committed \cup {o} ELSE committed
            /\ Return(p)
       ELSE /\ IF _evaluate(proc[p].request) THEN Goto(p, "prepare") ELSE Return(p)
            /\ UNCHANGED committed
    /\ UNCHANGED <<journal, bundle, disclosed, clock, faults, gate>>

\* The owner proposes on the traced snapshot, and the ledger issues the
\* operation once.
Prepare(p) ==
    LET o == proc[p].op IN
    /\ proc[p].pc = "prepare" /\ Free
    /\ IF Readable(p) /\ o \notin ToSet(store) /\ o \notin issued
       THEN /\ issued' = issued \cup {o}
            /\ proc' = [proc EXCEPT ![p].pc = "submit", ![p].traced = reads]
       ELSE Return(p) /\ UNCHANGED issued
    /\ UNCHANGED <<journal, store, anchor, reads, epoch, observed, clock, faults, gate>>

\* The trace is reproduced inside the writer's transaction.
_publication_authority_guard(p) == Readable(p) /\ reads = proc[p].traced

Execution(o) == [predecessor |-> reads.commitment, resulting |-> Append(store, o)]

Submits(p) == proc[p].pc = "submit" /\ Free

\* The head, the guards, the decision, and SQLite's commit.
Publish(p) ==
    LET o == proc[p].op IN
    /\ Submits(p)
    /\ _publication_authority_guard(p) /\ _evaluate(proc[p].request)
    /\ _decide(HandoffEvent(proc[p].request, Execution(o)))
    /\ \/ /\ store' = Append(store, o) /\ UNCHANGED faults
          /\ proc' = [proc EXCEPT ![p].pc = "finalize", ![p].decided = o]
       \/ Fault /\ store' \in {store, Append(store, o)} /\ Raise(p)
    /\ UNCHANGED <<anchor, reads, epoch, issued, observed, clock, gate>>

DecisionFails(p) ==
    /\ Submits(p)
    /\ _publication_authority_guard(p) /\ _evaluate(proc[p].request)
    /\ DecideFails /\ Return(p)
    /\ UNCHANGED <<bundle, observed, clock, gate>>

\* Not current any more, not entitled any more, or past the trace's window.
Refused(p) ==
    /\ Submits(p) /\ Return(p)
    /\ UNCHANGED <<journal, bundle, observed, clock, faults, gate>>

\* _finalize_planning_commitment, which a recovery may have overtaken: the
\* anchor and then the read state, under the authority gate.
Finalize(p) ==
    LET h == Handoff(proc[p].decided) IN
    /\ proc[p].pc = "finalize" /\ Free
    /\ IF store # h.execution.resulting
       THEN /\ IF anchor = store
               THEN proc' = [proc EXCEPT ![p].pc = "finish", ![p].next = "outcome"]
               ELSE Raise(p)
            /\ UNCHANGED <<anchor, gate>>
       ELSE IF Between(anchor, h) /\ Between(reads.commitment, h)
       THEN anchor' = store /\ gate' = p /\ Goto(p, "finalize_reads")
       ELSE Raise(p) /\ UNCHANGED <<anchor, gate>>
    /\ UNCHANGED <<journal, store, reads, epoch, issued, observed, clock, faults>>

FinalizeReads(p) ==
    /\ proc[p].pc = "finalize_reads"
    /\ reads' = [reads EXCEPT !.commitment = store]
    /\ proc' = [proc EXCEPT ![p].pc = "finish", ![p].next = "outcome"]
    /\ gate' = None
    /\ UNCHANGED <<journal, store, anchor, epoch, issued, observed, clock, faults>>

\* The lines are read, then the handoff is committed, then they are returned;
\* an indeterminate decision returns nothing.
render(p, o) ==
    /\ proc[p].pc = "up" /\ Free /\ Readable(p)
    /\ \E v \in Imported :
          /\ _evaluate(Request(o, v))
          /\ \/ /\ _decide(HandoffEvent(Request(o, v), None))
                /\ \/ disclosed' = disclosed \cup {o} /\ UNCHANGED faults
                   \/ Fault /\ UNCHANGED disclosed
             \/ DecideFails /\ UNCHANGED disclosed
    /\ UNCHANGED <<bundle, committed, clock, gate, proc>>

Next ==
    \/ import_current \/ Tick
    \/ \E p \in Processes :
          \/ Open(p) \/ _recover_pending(p) \/ Resubmit(p) \/ _finish_gate_decision(p)
          \/ FinishReads(p) \/ materialized(p) \/ Finished(p) \/ _start_generation(p)
          \/ Cross(p) \/ Prepare(p) \/ Publish(p) \/ DecisionFails(p) \/ Refused(p)
          \/ Finalize(p) \/ FinalizeReads(p) \/ Crash(p)
          \/ \E o \in Creates : create(p, o)
          \/ \E o \in Renders : render(p, o)

Spec == Init /\ [][Next]_vars

-----------------------------------------------------------------------------
(***************************************************************************)
(* Whatever crosses the gate was entitled: every handoff comes under the   *)
(* active, unexpired entitlement that was current when it was decided, no  *)
(* operation crosses twice, an entitlement admits at most Cap of them in   *)
(* each mode over all processes, restarts and failed appends, and nothing  *)
(* is stored, disclosed or reported committed without its handoff          *)
(* (BrokerDeploymentGate.commit_handoff).                                  *)
(***************************************************************************)
ExposureIsEntitled ==
    /\ \A k \in Entries("HANDOFF") :
          LET e == entries[k]
              before == {j \in Entries("CURRENT") : j < k} IN
          /\ before # {} /\ e.request.value = entries[Max(before)].value
          /\ e.request.value.status = "ACTIVE" /\ e.at < Expires
    /\ \A j, k \in Entries("HANDOFF") : entries[j].request.op = entries[k].request.op => j = k
    /\ \A h \in Heads, m \in Modes :
          Cardinality({k \in Entries("HANDOFF") : /\ entries[k].request.value.head = h
                                                  /\ entries[k].request.value.mode = m}) <= Cap
    /\ \A o \in ToSet(store) \cup disclosed \cup committed : Crossed(o)
    /\ committed \subseteq ToSet(store)

(***************************************************************************)
(* A decided batch can always be materialized: the store holds the decided *)
(* batches in the order of their decisions, at most the last one missing,  *)
(* only that one is unmarked, and storage, anchor and read state are each  *)
(* at its predecessor or its result, so the next recovery completes it     *)
(* (R8PlanningRuntime._recover_pending).  Of a torn journal this says that *)
(* nothing was lost; a recovery refuses it all the same.                   *)
(***************************************************************************)
DecisionsStayRecoverable ==
    LET executed(e) == e.kind = "HANDOFF" /\ e.execution # None
        decided == SelectSeq(entries, executed)
        n == Len(decided) IN
    /\ Len(store) \in {n, n - 1}
    /\ \A k \in DOMAIN store : store[k] = decided[k].request.op
    /\ \A k \in 1..(n - 1) : \E j \in Entries("MATERIALIZED") : entries[j].op = decided[k].request.op
    /\ n > 0 => {store, anchor, reads.commitment}
                   \subseteq {decided[n].execution.predecessor, decided[n].execution.resulting}
=============================================================================
