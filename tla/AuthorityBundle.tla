--------------------------- MODULE AuthorityBundle ---------------------------
(***************************************************************************)
(* The broker runtime's authority bundle (composition/r13_runtime.py and   *)
(* r13_planning.py over r7_planning.py): several files that one            *)
(* publication has to move together.                                       *)
(*                                                                         *)
(*   store    records and publications of platform/_sqlite.py;             *)
(*   journal  the independent decision journal of the bundle: DECIDED      *)
(*            before SQLite's commit, MATERIALIZED once everything else    *)
(*            has followed, DISPLAY for a proposal shown to the principal; *)
(*   anchor   AuthorityCommitmentJournal, the authenticated commitment;    *)
(*   reads    the current BrokerReadState of platform/read_ledger.py;      *)
(*   ledger   BrokerAuthorityLedger: epochs and issued operations.         *)
(*                                                                         *)
(* No transaction spans two of them.  A process may die, a commit may fail *)
(* and an acknowledgement may be lost between any two, and a second        *)
(* process may open the same bundle meanwhile: the AuthorityGate file lock *)
(* (gate) serialises what is done while it is held, and nothing else.      *)
(*                                                                         *)
(* A commitment is the digest of the whole store, so it is represented by  *)
(* the sequence of committed operations itself.                            *)
(***************************************************************************)
EXTENDS Naturals, Sequences, FiniteSets, SequencesExt

CONSTANTS
    Processes,   \* operating system processes that may open the bundle
    Loops,       \* agent_loop records: SQLiteLoopStore.publish
    Auxiliary,   \* workspace.policy and conversation.accept publications
    Adoptions,   \* proposal displays; adopting one is a planning write
    None,
    MaxEpoch,    \* bound: generations started over the life of the bundle
    MaxFaults    \* bound: failed commits, failed or torn appends, lost acks

Operations == Loops \cup Auxiliary \cup Adoptions

VARIABLES store, journal, torn, anchor, reads, epoch, ledger, gate, faults, proc

disk == <<store, journal, torn, anchor, reads, epoch, ledger>>
vars == <<disk, gate, faults, proc>>

Down == [pc |-> "down", op |-> None, head |-> 0, epoch |-> 0,
         selected |-> <<>>, next |-> "down"]

\* A bootstrapped bundle, cleanly closed: epoch 1 anchored the empty store.
Init ==
    /\ store = <<>> /\ journal = <<>> /\ torn = FALSE /\ anchor = <<>>
    /\ reads = [commitment |-> <<>>, epoch |-> 1, draining |-> TRUE]
    /\ epoch = 1
    /\ ledger = [o \in Adoptions |-> None]
    /\ gate = None /\ faults = 0
    /\ proc = [p \in Processes |-> Down]

-----------------------------------------------------------------------------
(* The decision journal.                                                   *)

Entries(kind) == {e \in ToSet(journal) : e.kind = kind}
Materialized(o) == \E e \in Entries("MATERIALIZED") : e.op = o
Decision(o) == CHOOSE e \in Entries("DECIDED") : e.op = o
Display(o) == CHOOSE e \in Entries("DISPLAY") : e.op = o
Displayed(o) == \E e \in Entries("DISPLAY") : e.op = o

\* R13Runtime._pending: decided and not yet materialized.
Pending == {e.op : e \in {d \in Entries("DECIDED") : ~Materialized(d.op)}}

Decided(o, predecessor, resulting) ==
    [kind |-> "DECIDED", op |-> o, predecessor |-> predecessor, resulting |-> resulting]

Mark(kind, o, frontier) == [kind |-> kind, op |-> o, frontier |-> frontier]

Fault == faults < MaxFaults /\ faults' = faults + 1

\* IndependentTenantDecisionJournal.append writes the body line and then the
\* head file.  It fails before the line, or between the two: from then on
\* every reading finds the head behind the body and refuses.
append(e) ==
    /\ ~torn
    /\ journal' = Append(journal, e)
    /\ UNCHANGED <<torn, faults>>

AppendFails ==
    /\ Fault
    /\ torn' \in {torn, TRUE}
    /\ UNCHANGED journal

-----------------------------------------------------------------------------
(* What the steps of one process share.                                    *)

Goto(p, pc) == proc' = [proc EXCEPT ![p].pc = pc]
Return(p) == proc' = [proc EXCEPT ![p].pc = proc[p].next, ![p].op = None]

Free == gate = None

\* An exception leaves the call: a runtime that is up stays up, one that is
\* opening does not come up.
Raised(p) ==
    IF proc[p].next = "up" THEN [proc[p] EXCEPT !.pc = "up", !.op = None]
    ELSE Down

Raise(p) == proc' = [proc EXCEPT ![p] = Raised(p)]

\* R7RuntimeSupervisor.runtime: only the newest epoch is served.
IsCurrent(p) == proc[p].epoch = epoch

\* BrokerAuthorityLedger.finish for an operation that is still ISSUED; a rival
\* terminal disposition is refused (AuthorityLedgerConflict).
Issued(o) == ledger[o] # None /\ ledger[o].state = "ISSUED"
Finished(o, state, outcome) ==
    [ledger EXCEPT ![o] = [state |-> state, outcome |-> outcome]]

\* _create's except branch: OUTCOME_UNKNOWN, and the error is raised again.
WriterFailure(o) ==
    IF o \in Adoptions /\ Issued(o) THEN Finished(o, "OUTCOME_UNKNOWN", None)
    ELSE ledger

-----------------------------------------------------------------------------
(* Opening the bundle.                                                     *)

\* _open_runtime up to _prepare_startup, whose first act is to read the
\* pending decisions; an unreadable journal ends the startup.
Open(p) ==
    /\ proc[p].pc = "down" /\ epoch < MaxEpoch /\ Free /\ ~torn
    /\ proc' = [proc EXCEPT ![p] = [Down EXCEPT
                    !.pc = "recover",
                    !.op = IF Pending = {} THEN None ELSE CHOOSE o \in Pending : TRUE,
                    !.next = "start"]]
    /\ UNCHANGED <<disk, gate, faults>>

\* R13Runtime._prepare_startup for the decision it read: already materialized,
\* not yet in the store, or already there.
Recover(p) ==
    LET o == proc[p].op IN
    /\ proc[p].pc = "recover" /\ Free
    /\ IF torn THEN Raise(p)
       ELSE IF o = None \/ Materialized(o) THEN Goto(p, "start")
       ELSE IF store = Decision(o).predecessor THEN Goto(p, "resubmit")
       ELSE Goto(p, "finish")
    /\ UNCHANGED <<disk, gate, faults>>

\* _submit_exact_recovery of the decided batch; the observer does not journal
\* the decision a second time (_replaying_publication).
Resubmit(p) ==
    LET o == proc[p].op
        d == Decision(o)
        stored == o \in ToSet(store)
        current == Len(store) = Len(d.predecessor) IN
    /\ proc[p].pc = "resubmit" /\ Free
    /\ \/ stored /\ Goto(p, "finish") /\ UNCHANGED <<store, faults>>
       \/ /\ ~stored /\ ~current
          /\ IF ~torn /\ Materialized(o) THEN Goto(p, "start") ELSE Raise(p)
          /\ UNCHANGED <<store, faults>>
       \/ /\ ~stored /\ current
          /\ store' = Append(store, o) /\ Goto(p, "finish") /\ UNCHANGED faults
       \/ /\ ~stored /\ current
          /\ Fault /\ store' \in {store, Append(store, o)} /\ Raise(p)
    /\ UNCHANGED <<journal, torn, anchor, reads, epoch, ledger, gate>>

\* BrokerAuthorityLedger.reconcile_pending: what an earlier epoch left ISSUED
\* is not known to have happened or not.
reconcile_pending ==
    [o \in Adoptions |-> IF Issued(o) THEN [state |-> "OUTCOME_UNKNOWN", outcome |-> None]
                         ELSE ledger[o]]

\* _drain_read_state of the predecessor, or of this process's own epoch.
Drained == [reads EXCEPT !.draining = TRUE]

\* BrokerAuthorityLedger.allocate_epoch: the next epoch, and the only current.
allocate_epoch == epoch + 1

\* _start_quarantine_runtime, under the gate: the predecessor's reads drain,
\* the next epoch is allocated and its pending operations are reconciled.
StartGeneration(p) ==
    /\ proc[p].pc = "start" /\ Free /\ epoch < MaxEpoch
    /\ reads' = Drained
    /\ epoch' = allocate_epoch
    /\ ledger' = reconcile_pending
    /\ proc' = [proc EXCEPT ![p].pc = "admit", ![p].epoch = allocate_epoch]
    /\ UNCHANGED <<store, journal, torn, anchor, gate, faults>>

\* start_generation once the owners run: superseded by a later epoch or not.
AdmitGeneration(p) ==
    /\ proc[p].pc = "admit" /\ Free
    /\ IF IsCurrent(p) THEN Goto(p, "reconcile") ELSE Raise(p)
    /\ UNCHANGED <<disk, gate, faults>>

\* _locked_reconcile_read_generation: reads are admitted for this generation
\* only on storage that is exactly what was anchored.
ReconcileReads(p) ==
    /\ proc[p].pc = "reconcile" /\ Free
    /\ IF IsCurrent(p) /\ anchor = store
       THEN /\ reads' = [commitment |-> anchor, epoch |-> epoch, draining |-> FALSE]
            /\ proc' = [proc EXCEPT ![p].pc = "up", ![p].next = "up", ![p].op = None]
       ELSE Raise(p) /\ UNCHANGED reads
    /\ UNCHANGED <<store, journal, torn, anchor, epoch, ledger, gate, faults>>

\* R7RuntimeSupervisor.close drains only the reads of its own current epoch.
Close(p) ==
    /\ proc[p].pc = "up" /\ Free
    /\ reads' = IF reads.epoch = proc[p].epoch /\ IsCurrent(p)
                THEN Drained ELSE reads
    /\ proc' = [proc EXCEPT ![p] = Down]
    /\ UNCHANGED <<store, journal, torn, anchor, epoch, ledger, gate, faults>>

\* The process dies; the operating system releases its file lock.
Crash(p) ==
    /\ proc[p].pc # "down"
    /\ proc' = [proc EXCEPT ![p] = Down]
    /\ gate' = IF gate = p THEN None ELSE gate
    /\ UNCHANGED <<disk, faults>>

-----------------------------------------------------------------------------
(* Preparing a publication.                                                *)

\* BrokerAuthorityReader.execute releases a snapshot only to the generation
\* the read state names, and only of storage that equals its commitment.
Readable(p) ==
    /\ IsCurrent(p)
    /\ reads.epoch = proc[p].epoch /\ ~reads.draining
    /\ reads.commitment = store

Submitting(p, o) ==
    proc' = [proc EXCEPT ![p].pc = "submit", ![p].op = o, ![p].head = Len(store)]

\* SQLiteLoopStore.snapshot and the conversation store's read of the head: no
\* authority read is needed to prepare these.
Prepare(p, o) ==
    /\ proc[p].pc = "up" /\ Free
    /\ o \in Loops \cup Auxiliary
    /\ Submitting(p, o)
    /\ UNCHANGED <<disk, gate, faults>>

\* R13PlanningRuntime.display: the frontier the proposal was rendered against
\* is bound into the display, which goes to the journal and not to the store.
display(p, o) ==
    /\ proc[p].pc = "up" /\ Free
    /\ ~Displayed(o) /\ Readable(p)
    /\ append(Mark("DISPLAY", o, reads))
    /\ UNCHANGED <<store, anchor, reads, epoch, ledger, gate, proc>>

\* The trace recorded for the display, frontier included, is reproduced exactly.
Fresh(o) == Display(o).frontier = reads

\* _prepare_create and _prepare_planning_request: the owner answers with a
\* proposal on a released snapshot, for a command the snapshot does not hold.
Proposed(p, o) == Readable(p) /\ Fresh(o) /\ o \notin ToSet(store)

\* BrokerAuthorityLedger.admit_with_novelty: only the current epoch issues, and
\* only once; the token of another call never has the recorded fingerprint.
Novel(p, o) == IsCurrent(p) /\ ledger[o] = None

\* _trust_observation_guard: the session and its reads are still this
\* generation's.
TrustGuard(p) ==
    IF ~IsCurrent(p) THEN "RAISE"
    ELSE IF reads.draining \/ reads.epoch # proc[p].epoch THEN "STALE"
    ELSE "PROCEED"

\* adopt, with _create up to the submission.
Adopt(p, o) ==
    /\ proc[p].pc = "up" /\ Free /\ ~torn
    /\ Displayed(o) /\ Proposed(p, o)
    /\ TrustGuard(p) = "PROCEED" /\ Novel(p, o)
    /\ ledger' = Finished(o, "ISSUED", None)
    /\ Submitting(p, o)
    /\ UNCHANGED <<store, journal, torn, anchor, reads, epoch, gate, faults>>

-----------------------------------------------------------------------------
(* Publishing: SQLiteMaterializer._publish under the gate and SQLite's     *)
(* write lock, with the guards of the caller.                              *)

\* The guard _create hands to the writer: the trust observation once more and
\* then _publication_authority_guard.
AdoptionGuard(p, o) ==
    IF TrustGuard(p) # "PROCEED" THEN TrustGuard(p)
    ELSE IF ~Readable(p) THEN "RAISE"
    ELSE IF ~Fresh(o) THEN "STALE" ELSE "PROCEED"

\* SQLiteLoopStore.publish's guard asks the current owner generation; an
\* auxiliary publication has no admission guard.
admission_guard(p, o) ==
    CASE o \in Adoptions -> AdoptionGuard(p, o)
      [] o \in Loops     -> IF IsCurrent(p) THEN "PROCEED" ELSE "RAISE"
      [] o \in Auxiliary -> "PROCEED"

\* decide, decide_publication and _publication_decision_guard: one decision at
\* a time.
decision_guard(o) ==
    IF torn THEN "RAISE"
    ELSE IF Pending = {} THEN "PROCEED"
    ELSE IF o \in Adoptions THEN "DENIED" ELSE "RAISE"

disposition(p, o) ==
    IF o \in ToSet(store) THEN "REPLAY"
    ELSE IF Len(store) # proc[p].head THEN "STALE"
    ELSE IF admission_guard(p, o) # "PROCEED" THEN admission_guard(p, o)
    ELSE decision_guard(o)

Publishing(p, d) ==
    /\ proc[p].pc = "submit" /\ Free
    /\ disposition(p, proc[p].op) = d

\* The journal owns the exact batch before SQLite's fallible commit.
Committed(p) ==
    LET o == proc[p].op
        resulting == Append(store, o) IN
    /\ Publishing(p, "PROCEED")
    /\ append(Decided(o, anchor, resulting))
    /\ store' = resulting
    /\ proc' = [proc EXCEPT ![p].selected = <<anchor, resulting>>,
                            ![p].pc = IF o \in Adoptions THEN "finalize" ELSE "finish"]
    /\ UNCHANGED <<anchor, reads, epoch, ledger, gate>>

\* The commit fails after the decision, or succeeds and its answer is lost.
CommitFails(p) ==
    LET o == proc[p].op IN
    /\ Publishing(p, "PROCEED") /\ Fault
    /\ journal' = Append(journal, Decided(o, anchor, Append(store, o)))
    /\ store' \in {store, Append(store, o)}
    /\ ledger' = WriterFailure(o)
    /\ Raise(p)
    /\ UNCHANGED <<torn, anchor, reads, epoch, gate>>

DecisionFails(p) ==
    /\ Publishing(p, "PROCEED")
    /\ AppendFails
    /\ ledger' = WriterFailure(proc[p].op)
    /\ Raise(p)
    /\ UNCHANGED <<store, anchor, reads, epoch, gate>>

Failed(p) ==
    /\ Publishing(p, "RAISE")
    /\ ledger' = WriterFailure(proc[p].op)
    /\ Raise(p)
    /\ UNCHANGED <<store, journal, torn, anchor, reads, epoch, gate, faults>>

\* A refusal is a definite outcome of an adoption's issued operation; the
\* caller of every kind of publication is told by an exception.
Refused(p) ==
    LET o == proc[p].op IN
    /\ \E d \in {"STALE", "DENIED"} :
          /\ Publishing(p, d)
          /\ ledger' = IF o \in Adoptions /\ Issued(o) THEN Finished(o, "DEFINITE", d)
                       ELSE ledger
    /\ Raise(p)
    /\ UNCHANGED <<store, journal, torn, anchor, reads, epoch, gate, faults>>

Replayed(p) ==
    /\ Publishing(p, "REPLAY") /\ proc[p].op \notin Adoptions
    /\ Goto(p, "finish")
    /\ UNCHANGED <<disk, gate, faults>>

-----------------------------------------------------------------------------
(* After the commit.                                                       *)

Between(c, predecessor, resulting) == c \in {predecessor, resulting}

\* _finalize_planning_commitment: anchor first, the read state after it.
Finalize(p) ==
    LET predecessor == proc[p].selected[1]
        resulting == proc[p].selected[2] IN
    /\ proc[p].pc = "finalize" /\ Free
    /\ IF store # resulting
       THEN /\ IF anchor = store THEN Goto(p, "record") ELSE Raise(p)
            /\ UNCHANGED <<anchor, gate>>
       ELSE IF /\ Between(anchor, predecessor, resulting)
               /\ Between(reads.commitment, predecessor, resulting)
       THEN anchor' = resulting /\ gate' = p /\ Goto(p, "finalize_reads")
       ELSE Raise(p) /\ UNCHANGED <<anchor, gate>>
    /\ UNCHANGED <<store, journal, torn, reads, epoch, ledger, faults>>

\* Mutant: the read state is left at the predecessor.
KeepReads(p, then) ==
    /\ Goto(p, then)
    /\ UNCHANGED <<store, journal, torn, anchor, reads, epoch, ledger, faults>>

\* invalidate_storage_mutation, the gate still held.
Invalidate(p, then) ==
    /\ reads' = [reads EXCEPT !.commitment = store]
    /\ Goto(p, then)
    /\ UNCHANGED <<store, journal, torn, anchor, epoch, ledger, faults>>

FinalizeReads(p) ==
    /\ proc[p].pc = "finalize_reads"
    /\ Invalidate(p, "record")
    /\ gate' = None

\* The ledger's DEFINITE, refused when a later epoch has reconciled it.
Record(p) ==
    LET o == proc[p].op IN
    /\ proc[p].pc = "record" /\ Free
    /\ IF Issued(o)
       THEN ledger' = Finished(o, "DEFINITE", "COMMITTED") /\ Goto(p, "finish")
       ELSE Raise(p) /\ UNCHANGED ledger
    /\ UNCHANGED <<store, journal, torn, anchor, reads, epoch, gate, faults>>

Finishes(o) ==
    LET d == Decision(o) IN
    /\ Pending = {o}
    /\ store = d.resulting
    /\ Between(anchor, d.predecessor, d.resulting)
    /\ Between(reads.commitment, d.predecessor, d.resulting)

\* R13Runtime._finish_decision: a decision another process has finished stays
\* as it is; historical completion cannot rewind a later anchor.
Finish(p) ==
    LET o == proc[p].op IN
    /\ proc[p].pc = "finish" /\ Free
    /\ IF torn THEN Raise(p) /\ UNCHANGED <<anchor, gate>>
       ELSE IF Materialized(o) THEN Return(p) /\ UNCHANGED <<anchor, gate>>
       ELSE IF Finishes(o)
       THEN anchor' = store /\ gate' = p /\ Goto(p, "finish_reads")
       ELSE Raise(p) /\ UNCHANGED <<anchor, gate>>
    /\ UNCHANGED <<store, journal, torn, reads, epoch, ledger, faults>>

FinishReads(p) ==
    /\ proc[p].pc = "finish_reads"
    /\ Invalidate(p, "finish_mark")
    /\ UNCHANGED gate

FinishMark(p) ==
    /\ proc[p].pc = "finish_mark"
    /\ append(Mark("MATERIALIZED", proc[p].op, None))
    /\ gate' = None
    /\ Return(p)
    /\ UNCHANGED <<store, anchor, reads, epoch, ledger>>

\* An input/output error while the gate is held: what was written stays.
Interrupted(p) ==
    /\ gate = p
    /\ \/ AppendFails /\ proc[p].pc = "finish_mark"
       \/ Fault /\ UNCHANGED <<journal, torn>> /\ proc[p].pc # "finish_mark"
    /\ gate' = None
    /\ Raise(p)
    /\ UNCHANGED <<store, anchor, reads, epoch, ledger>>

-----------------------------------------------------------------------------
Startup(p) == Open(p) \/ Recover(p) \/ Resubmit(p) \/ StartGeneration(p)
              \/ AdmitGeneration(p) \/ ReconcileReads(p)
Shutdown(p) == Close(p) \/ Crash(p)
Request(p) == \/ \E o \in Loops \cup Auxiliary : Prepare(p, o)
              \/ \E o \in Adoptions : display(p, o) \/ Adopt(p, o)
Publish(p) == Committed(p) \/ CommitFails(p) \/ DecisionFails(p)
              \/ Failed(p) \/ Refused(p) \/ Replayed(p)
Complete(p) == Finalize(p) \/ FinalizeReads(p) \/ Record(p) \/ Finish(p)
               \/ FinishReads(p) \/ FinishMark(p) \/ Interrupted(p)

Next == \E p \in Processes :
            Startup(p) \/ Shutdown(p) \/ Request(p) \/ Publish(p) \/ Complete(p)

Spec == Init /\ [][Next]_vars

-----------------------------------------------------------------------------
(* What the bundle promises.                                               *)

\* Wherever a process stops, the files are where _prepare_startup can bring them
\* together again: no decision is pending and the anchor, the read state and the
\* store agree, or exactly one is and each of them is at its predecessor or at
\* its result.  This is about the whole lines of the journal: a torn last line
\* hides none of them, but startup refuses a torn journal for good.
BundleIsRecoverable ==
    \/ /\ Pending = {}
       /\ anchor = store /\ reads.commitment = store
    \/ \E o \in Operations :
          /\ Pending = {o}
          /\ LET d == Decision(o) IN
             \A c \in {store, anchor, reads.commitment} :
                Between(c, d.predecessor, d.resulting)

\* The store is the journal's decisions in the order they were decided, each
\* once; only the last of them may still be missing, and only while it is
\* pending.
StoreFollowsDecisions ==
    LET decided == [i \in DOMAIN SelectSeq(journal, LAMBDA e : e.kind = "DECIDED") |->
                       SelectSeq(journal, LAMBDA e : e.kind = "DECIDED")[i].op] IN
    \/ store = decided
    \/ /\ decided # <<>> /\ store = Front(decided)
       /\ Last(decided) \in Pending

\* A proposal is committed only on the state it was displayed against: between
\* the display and the adoption's place in the store nothing else was written.
AdoptedAsDisplayed ==
    \A i \in DOMAIN store :
        store[i] \in Adoptions =>
            Display(store[i]).frontier.commitment = SubSeq(store, 1, i - 1)

\* What the ledger records as definite stays true: a committed adoption is in
\* the store and a refused one never gets there, not even by the recovery of
\* another process.
DefiniteOutcomesAreTrue ==
    \A o \in Adoptions :
        ledger[o] # None /\ ledger[o].state = "DEFINITE" =>
            (ledger[o].outcome = "COMMITTED") = (o \in ToSet(store))
=============================================================================
