---------------------------- MODULE RetainedSource ----------------------------
(***************************************************************************)
(* Pre-authentication custody of source bytes                               *)
(* (adapters/driven/ingress_retained_source.py): a directory of immutable    *)
(* slots, each a raw file and a signed metadata file, and an append-only     *)
(* log of the transfers made to the broker.                                 *)
(*                                                                         *)
(* Every operation holds the directory's file lock, except that read asks    *)
(* the broker's token validator between two verifications, without the      *)
(* lock.  A process may stop between any two file writes; an inventory that  *)
(* does not close is refused by every later operation.  A line is appended   *)
(* by one write, which may be short: a line that lacks only its newline      *)
(* still decodes, and the next append then continues it.                    *)
(***************************************************************************)
EXTENDS Naturals, Sequences, FiniteSets, FiniteSetsExt, SequencesExt

CONSTANTS
    Processes,   \* adapters over the directory, each a source or a broker
    Slots,       \* slot identities
    Tokens,      \* intake tokens the broker may present
    Sizes,       \* byte counts of bodies
    MaxItems, MaxTotal, MaxItem,  \* the configured limits
    MaxReads,    \* bound on transfers attempted
    None

VARIABLES
    raw,         \* slot -> size of its raw file, or None
    metadata,    \* slot -> size named by its signed metadata, or None
    changed,     \* slots whose raw file was replaced behind the adapter
    transfers,   \* the lines of the transfer log that were written to their end
    tail,        \* the end of the log: "ended" by a newline, "unended" after a
                 \* whole line, or "cut": a last line that does not decode
    materialized,\* token -> slot the broker's intake token was issued for
    proc,        \* process -> locals of provision or read
    delivered    \* bodies handed to the broker

vars == <<raw, metadata, changed, transfers, tail, materialized, proc, delivered>>

Idle == [pc |-> "idle", slot |-> None, token |-> None, size |-> 0]

Init ==
    /\ raw = [s \in Slots |-> None]
    /\ metadata = [s \in Slots |-> None]
    /\ changed = {}
    /\ transfers = <<>>
    /\ tail = "ended"
    /\ materialized = [t \in Tokens |-> None]
    /\ proc = [p \in Processes |-> Idle]
    /\ delivered = {}

(***************************************************************************)
(* _inventory: every raw file has its metadata and the reverse, identities   *)
(* agree, and the configured limits hold.                                   *)
(***************************************************************************)
Provisioned == {s \in Slots : metadata[s] # None}

Total == MapThenSumSet(LAMBDA s : metadata[s], Provisioned)

(* _read_file: the file behind the slot is the one its metadata names.        *)
RawIntact(s) == s \notin changed

(* _transfers: every line of the log decodes and follows the previous one;    *)
(* the last one may lack its newline.                                         *)
TransfersReadable == tail # "cut"

WriteNew(files, s, n) == [files EXCEPT ![s] = n]

InventoryCloses ==
    /\ \A s \in Slots : raw[s] = metadata[s]
    /\ \A s \in Provisioned : RawIntact(s)
    /\ Cardinality(Provisioned) <= MaxItems
    /\ Total <= MaxTotal

Unlocked == \A p \in Processes : proc[p].pc # "raw_written"

Still == UNCHANGED <<changed, transfers, tail, materialized, delivered>>

(***************************************************************************)
(* provision, holding the lock: limits, the raw file, then its metadata.     *)
(***************************************************************************)
provision(p, s, n) ==
    /\ proc[p].pc = "idle"
    /\ Unlocked
    /\ n <= MaxItem
    /\ InventoryCloses
    /\ metadata[s] = None
    /\ Cardinality(Provisioned) < MaxItems
    /\ Total + n <= MaxTotal
    /\ raw' = WriteNew(raw, s, n)
    /\ proc' = [proc EXCEPT ![p] = [Idle EXCEPT !.pc = "raw_written", !.slot = s, !.size = n]]
    /\ UNCHANGED metadata /\ Still

SignMetadata(p) ==
    /\ proc[p].pc = "raw_written"
    /\ metadata' = WriteNew(metadata, proc[p].slot, proc[p].size)
    /\ proc' = [proc EXCEPT ![p] = Idle]
    /\ UNCHANGED raw /\ Still

(* A process stops: the lock is released with whatever was written.          *)
Stop(p) ==
    /\ proc[p].pc # "idle"
    /\ proc' = [proc EXCEPT ![p] = Idle]
    /\ UNCHANGED <<raw, metadata>> /\ Still

(* The raw file of a slot is replaced by something outside the adapter.      *)
ReplaceRaw(s) ==
    /\ raw[s] # None
    /\ changed' = changed \cup {s}
    /\ UNCHANGED <<raw, metadata, transfers, tail, materialized, proc, delivered>>

(***************************************************************************)
(* The broker materializes an intake token for an observed slot.             *)
(***************************************************************************)
Materialize(t, s) ==
    /\ Unlocked /\ InventoryCloses /\ metadata[s] # None
    /\ materialized[t] = None
    /\ materialized' = [materialized EXCEPT ![t] = s]
    /\ UNCHANGED <<raw, metadata, changed, transfers, tail, proc, delivered>>

(***************************************************************************)
(* observe and the first verification of read, then the validator, called    *)
(* without the lock.                                                        *)
(***************************************************************************)
StartRead(p, s, t) ==
    /\ proc[p].pc = "idle"
    /\ Unlocked /\ InventoryCloses /\ metadata[s] # None
    /\ Len(transfers) < MaxReads
    /\ proc' = [proc EXCEPT ![p] = [Idle EXCEPT !.pc = "validate", !.slot = s, !.token = t]]
    /\ UNCHANGED <<raw, metadata>> /\ Still

ValidateToken(p) ==
    /\ proc[p].pc = "validate"
    /\ proc' = [proc EXCEPT ![p] =
         IF materialized[proc[p].token] = proc[p].slot
         THEN [@ EXCEPT !.pc = "transfer"] ELSE Idle]
    /\ UNCHANGED <<raw, metadata>> /\ Still

(***************************************************************************)
(* The second verification, the transfer log and the body, under the lock.   *)
(***************************************************************************)
(* Mutant: only the token is looked for among the prior transfers.           *)
TokenUnused(p) ==
    \A i \in DOMAIN transfers :
        transfers[i].token = proc[p].token => transfers[i].slot = proc[p].slot

IdentityKept(p) ==
    \A i \in DOMAIN transfers :
        (transfers[i].token = proc[p].token) = (transfers[i].slot = proc[p].slot)

(* What a write leaves at the end of the log: one that follows an unended     *)
(* line makes one line of the two, which does not decode.                     *)
TailAfter(written) == IF tail = "ended" THEN written ELSE "cut"

(* One write of the line, then fsync, then the body is returned: the write    *)
(* may lack the newline or more, and the call may fail before it returns.     *)
AppendTransfer(line) ==
    \/ /\ transfers' = Append(transfers, line)
       /\ tail' = TailAfter("ended")
       /\ delivered' \in {delivered, delivered \cup {line}}
    \/ /\ transfers' = Append(transfers, line)
       /\ tail' = TailAfter("unended")
       /\ UNCHANGED delivered
    \/ /\ tail' = "cut"
       /\ UNCHANGED <<transfers, delivered>>

read(p) ==
    /\ proc[p].pc = "transfer"
    /\ Unlocked
    /\ proc' = [proc EXCEPT ![p] = Idle]
    /\ \/ /\ InventoryCloses /\ TransfersReadable /\ IdentityKept(p)
          /\ Len(transfers) < MaxReads
          /\ AppendTransfer([token |-> proc[p].token, slot |-> proc[p].slot,
                             size |-> metadata[proc[p].slot]])
       \/ /\ InventoryCloses => ~TransfersReadable \/ ~IdentityKept(p)
          /\ UNCHANGED <<transfers, tail, delivered>>
    /\ UNCHANGED <<raw, metadata, changed, materialized>>

Next ==
    \/ \E p \in Processes :
         \/ \E s \in Slots, n \in Sizes : provision(p, s, n)
         \/ SignMetadata(p) \/ Stop(p)
         \/ \E s \in Slots, t \in Tokens : StartRead(p, s, t)
         \/ ValidateToken(p) \/ read(p)
    \/ \E s \in Slots : ReplaceRaw(s)
    \/ \E t \in Tokens, s \in Slots : Materialize(t, s)

Spec == Init /\ [][Next]_vars

-------------------------------------------------------------------------------
(***************************************************************************)
(* Properties                                                              *)
(***************************************************************************)

(* Every body handed to the broker (RetainedSourceAdapter.read) was written   *)
(* to the transfer log, and over all lines ever written tokens and slots      *)
(* correspond one to one, although the token is validated outside the lock,   *)
(* several tokens may be materialized for one slot, and a line may have been  *)
(* written whose body was never returned or whose newline is missing.         *)
OneTransferIdentity ==
    /\ \A b \in delivered : Contains(transfers, b)
    /\ \A i, j \in DOMAIN transfers :
         (transfers[i].token = transfers[j].token) = (transfers[i].slot = transfers[j].slot)
===============================================================================
