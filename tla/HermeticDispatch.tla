--------------------------- MODULE HermeticDispatch ---------------------------
(***************************************************************************)
(* The offline effects leaf and the grant that is restricted to it:        *)
(* composition/r16_dispatch_registry.py (HermeticDispatchResources),       *)
(* composition/r16_dispatch_custody.py and the provider of                 *)
(* adapters/driven/effects_hermetic.py.                                    *)
(*                                                                         *)
(* Several processes may hold the same custody path.  They share four      *)
(* files: the custody record, created once; the revocation marker; the     *)
(* journal of transfers; and the journal of late receipts.  A process      *)
(* keeps no file contents between operations (every operation loads the    *)
(* journals again), but it does keep whether it has seen the revocation.   *)
(* A line is appended by one flushed write under an exclusive lock.  The   *)
(* write may be short, because the process is killed or the disk is full:  *)
(* a line that lacks only its newline still decodes and is continued by    *)
(* the next append; any other short line never decodes, and nothing in the *)
(* provider truncates it.                                                  *)
(***************************************************************************)
EXTENDS Integers, Sequences, FiniteSets, SequencesExt

CONSTANTS Processes,
          Transmissions,  \* identities of issued tickets
          Configurations, \* the scenarios and cap a process is started with
          Scenarios,      \* the outcome of each transfer, in order
          Late,           \* the late receipts registered for each transfer
          MaxEpoch, MaxGeneration, None

\* What the constants have to satisfy.
HermeticAssumption ==
    /\ Scenarios \in Seq({"CONFIRM", "PERMANENT_NO_EFFECT", "LOST_RESPONSE_AFTER_EFFECT"})
    /\ Late \in Seq(Nat)
    /\ Len(Late) <= Len(Scenarios)

VARIABLES custody,   \* the custody file: None, "EMPTY" or the configuration
          marker,    \* the revocation marker exists
          transfers, \* the lines of the journal of transfers written to their end
          receipts,  \* the same of the journal of late receipts
          tail,      \* journal -> its end: "ended" by a newline, "unended" after a
                     \* whole line, or "cut": a last line that does not decode
          holder,    \* what every process holds in memory
          status,    \* the grant status a process last observed
          epoch      \* the number of processes started so far

vars == <<custody, marker, transfers, receipts, tail, holder, status, epoch>>

Idle(p) == holder[p] # None /\ holder[p].job = None

Job(p, job) == holder' = [holder EXCEPT ![p].job = job]

Transferred(t) == \E n \in DOMAIN transfers : transfers[n].ticket = t
TransferOf(t) == SelectInSeq(transfers, LAMBDA r : r.ticket = t)
LateOf(t) == Len(SelectSeq(receipts, LAMBDA r : r.ticket = t))

\* The lines are in order: the transfers carry the sequences 0, 1, ..., no
\* transmission twice, and the late receipts of a retained transmission carry
\* the sequences that follow its own.
LinesInOrder ==
    /\ \A n \in DOMAIN transfers : transfers[n].sequence = n - 1
    /\ \A m, n \in DOMAIN transfers : transfers[m].ticket = transfers[n].ticket => m = n
    /\ \A n \in DOMAIN receipts :
         LET t == receipts[n].ticket
             earlier == {k \in 1..(n - 1) : receipts[k].ticket = t}
         IN  /\ Transferred(t)
             /\ receipts[n].sequence =
                  transfers[TransferOf(t)].sequence + Cardinality(earlier) + 1

\* _load_transfers and _load_late_receipts, which every operation begins with.
_load_transfers ==
    /\ \A journal \in DOMAIN tail : tail[journal] # "cut"
    /\ LinesInOrder

-----------------------------------------------------------------------------
(* load_or_create: the first process creates the file and then writes it.  *)

Started(config) ==
    [config |-> config, active |-> TRUE, generation |-> 0, epoch |-> epoch + 1, job |-> None]

Fresh(p) == holder[p] = None /\ epoch < MaxEpoch

create(p, config) ==
    /\ Fresh(p)
    /\ custody = None
    /\ custody' = "EMPTY"
    /\ holder' = [holder EXCEPT ![p] = [Started(config) EXCEPT !.job = [kind |-> "CREATE"]]]
    /\ epoch' = epoch + 1
    /\ status' = [status EXCEPT ![p] = None]
    /\ UNCHANGED <<marker, transfers, receipts, tail>>

write_custody(p) ==
    /\ holder[p] # None
    /\ holder[p].job = [kind |-> "CREATE"]
    /\ custody' = holder[p].config
    /\ Job(p, None)
    /\ UNCHANGED <<marker, transfers, receipts, tail, status, epoch>>

\* A retained file is opened only under the same scenarios and cap; an empty
\* one, left by a process that stopped before it wrote, is never readable.
load(p, config) ==
    /\ Fresh(p)
    /\ custody = config
    /\ _load_transfers
    /\ holder' = [holder EXCEPT ![p] = Started(config)]
    /\ epoch' = epoch + 1
    /\ status' = [status EXCEPT ![p] = None]
    /\ UNCHANGED <<custody, marker, transfers, receipts, tail>>

-----------------------------------------------------------------------------
(* The grant. *)

\* Revocation is shared by every holder of the custody; once seen, the
\* disappearance of the marker does not reactivate this holder.
StillActive(active) == active /\ ~marker

observe(p) ==
    /\ Idle(p)
    /\ holder' = [holder EXCEPT ![p].active = StillActive(@)]
    /\ status' = [status EXCEPT ![p] = IF StillActive(holder[p].active)
                                       THEN "ACTIVE" ELSE "REVOKED"]
    /\ UNCHANGED <<custody, marker, transfers, receipts, tail, epoch>>

\* revoke: the holder is inactive first and the marker is written after that.
revoke(p) ==
    /\ Idle(p)
    /\ holder[p].generation < MaxGeneration
    /\ holder' = [holder EXCEPT ![p].generation = @ + 1, ![p].active = FALSE,
                                ![p].job = [kind |-> "REVOKE"]]
    /\ UNCHANGED <<custody, marker, transfers, receipts, tail, status, epoch>>

write_marker(p) ==
    /\ holder[p] # None
    /\ holder[p].job = [kind |-> "REVOKE"]
    /\ marker' = TRUE
    /\ Job(p, None)
    /\ UNCHANGED <<custody, transfers, receipts, tail, status, epoch>>

-----------------------------------------------------------------------------
(* The provider. *)

\* An append.  After a line without its newline it completes a line that
\* does not decode.  A short write leaves the start of the line, or all of it
\* but the newline, and the process is killed or the operation raises.
TailAfter(journal, end) ==
    tail' = [tail EXCEPT ![journal] = IF @ = "ended" THEN end ELSE "cut"]

AppendLine(p, journal, lines, line) ==
    \/ /\ lines' = Append(lines, line)
       /\ TailAfter(journal, "ended")
       /\ Job(p, None)
    \/ /\ \/ lines' = lines /\ TailAfter(journal, "cut")
          \/ lines' = Append(lines, line) /\ TailAfter(journal, "unended")
       /\ Job(p, None) \/ holder' = [holder EXCEPT ![p] = None]

Refused(p) == Job(p, None) /\ UNCHANGED <<transfers, receipts, tail>>

\* emit_issued, up to the receipt: the journal is loaded, a transmission that
\* was observed before is refused, and the next sequence picks the scenario.
emit_issued(p, t) ==
    /\ Idle(p)
    /\ _load_transfers
    /\ ~Transferred(t)
    /\ Len(transfers) < Len(Scenarios)
    /\ Job(p, [kind |-> "EMIT", ticket |-> t, sequence |-> Len(transfers)])
    /\ UNCHANGED <<custody, marker, transfers, receipts, tail, status, epoch>>

\* Mutant: the sequence is not compared again once the lock is held.
LockedAnyway(sequence) == TRUE

SequenceHolds(sequence) == sequence = Len(transfers)

\* _persist_transfer: under the lock the journal is loaded again.
persist_transfer(p) ==
    /\ holder[p] # None
    /\ holder[p].job # None
    /\ holder[p].job.kind = "EMIT"
    /\ LET job == holder[p].job IN
       IF _load_transfers /\ SequenceHolds(job.sequence)
       THEN /\ AppendLine(p, "transfers", transfers,
                          [ticket |-> job.ticket, sequence |-> job.sequence])
            /\ UNCHANGED receipts
       ELSE Refused(p)
    /\ UNCHANGED <<custody, marker, status, epoch>>

\* observe_late_receipt and _persist_late_receipt: a registered observation
\* about a retained send, numbered after the ones already retained.
observe_late_receipt(p, t) ==
    /\ Idle(p)
    /\ _load_transfers
    /\ Transferred(t)
    /\ TransferOf(t) <= Len(Late)
    /\ LateOf(t) < Late[TransferOf(t)]
    /\ Job(p, [kind |-> "LATE", ticket |-> t,
               sequence |-> transfers[TransferOf(t)].sequence + LateOf(t) + 1])
    /\ UNCHANGED <<custody, marker, transfers, receipts, tail, status, epoch>>

LateHolds(t, sequence) == sequence = transfers[TransferOf(t)].sequence + LateOf(t) + 1

persist_late_receipt(p) ==
    /\ holder[p] # None
    /\ holder[p].job # None
    /\ holder[p].job.kind = "LATE"
    /\ LET job == holder[p].job IN
       IF _load_transfers /\ LateHolds(job.ticket, job.sequence)
       THEN /\ AppendLine(p, "receipts", receipts,
                          [ticket |-> job.ticket, sequence |-> job.sequence])
            /\ UNCHANGED transfers
       ELSE Refused(p)
    /\ UNCHANGED <<custody, marker, status, epoch>>

-----------------------------------------------------------------------------
(* Faults. *)

\* A process stops between any two of its steps.
Stop(p) ==
    /\ holder[p] # None
    /\ holder' = [holder EXCEPT ![p] = None]
    /\ UNCHANGED <<custody, marker, transfers, receipts, tail, status, epoch>>

\* Somebody removes the marker file.
RemoveMarker ==
    /\ marker
    /\ marker' = FALSE
    /\ UNCHANGED <<custody, transfers, receipts, tail, holder, status, epoch>>

Init ==
    /\ custody = None
    /\ marker = FALSE
    /\ transfers = <<>>
    /\ receipts = <<>>
    /\ tail = [journal \in {"transfers", "receipts"} |-> "ended"]
    /\ holder = [p \in Processes |-> None]
    /\ status = [p \in Processes |-> None]
    /\ epoch = 0

Next ==
    \/ \E p \in Processes :
         \/ \E config \in Configurations : create(p, config) \/ load(p, config)
         \/ write_custody(p)
         \/ observe(p)
         \/ revoke(p)
         \/ write_marker(p)
         \/ \E t \in Transmissions : emit_issued(p, t) \/ observe_late_receipt(p, t)
         \/ persist_transfer(p)
         \/ persist_late_receipt(p)
         \/ Stop(p)
    \/ RemoveMarker

Spec == Init /\ [][Next]_vars

-----------------------------------------------------------------------------
(* Properties. *)

\* However the processes that share the two journals interleave and stop,
\* what they hold stays in the order the loader demands, so the next load
\* succeeds unless a short write cut a line; and no transmission is emitted
\* twice, a cut line or not (_persist_transfer, _persist_late_receipt).
JournalsStayInOrder ==
    /\ (\A journal \in DOMAIN tail : tail[journal] # "cut") => _load_transfers
    /\ \A t \in Transmissions :
         Cardinality({n \in DOMAIN transfers : transfers[n].ticket = t}) <= 1

\* A holder that has observed the revocation of the grant never again
\* observes it active, also when the marker another process wrote disappears.
RevocationIsRemembered ==
    \A p \in Processes :
      status[p] = "REVOKED" /\ holder[p] # None => status'[p] # "ACTIVE"
=============================================================================
