-------------------------- MODULE CheckpointStore --------------------------
(***************************************************************************)
(* AuthorityCheckpointStore (platform/authority_checkpoint.py): authority  *)
(* post-images kept as immutable files named by their digest, in one       *)
(* directory per digest prefix.  A file is installed by writing a          *)
(* temporary one, giving it the digest's name with link(2), and removing   *)
(* the temporary name; a reader accepts only a file with a single name.    *)
(*                                                                         *)
(* Threads of one process stage concurrently.  An fsync may fail, the      *)
(* process may be killed between any two system calls, and a loss of power *)
(* may undo every change to a directory since its last fsync.  A digest is *)
(* the preimage it is the digest of.                                       *)
(***************************************************************************)
EXTENDS Naturals, FiniteSets

CONSTANTS Threads,
          Preimages,   \* canonical authority preimages
          Invalid,     \* bytes _decode_preimage refuses
          Foreign,     \* bytes somebody else left under a digest's name
          Prefixes,    \* the first two digits of digests
          Prefix,      \* [Preimages -> Prefixes]
          None,
          MaxStages,   \* bound: calls
          MaxFaults    \* bound: failed fsyncs, kills and losses of power

\* What the constants have to satisfy.
PrefixIsAFunction == Prefix \in [Preimages -> Prefixes]

VARIABLES directories,  \* [Prefixes -> {"missing", "made", "synced"}]
          objects,      \* [Preimages -> the file under that digest's name, or None]
          threads,      \* [Threads -> the step of stage_verified it is at]
          returned,     \* preimages whose reference a call has returned
          doubtful,     \* history: an fsync of the entry failed, or its directory
                        \* was lost before its own entry was synchronised
          stages, faults

vars == <<directories, objects, threads, returned, doubtful, stages, faults>>

Orphan == "orphan"  \* a temporary name whose thread was killed
Idle == [at |-> "idle", preimage |-> None, raised |-> FALSE]

\* disk: what the last fsync of the directory wrote of the file, which is
\* "absent", "linked" (with a temporary name) or "single".
File(bytes, names, disk) == [bytes |-> bytes, temporaries |-> names, disk |-> disk]

\* The store starts empty, except that a file may already have a digest's name.
Init ==
  /\ directories \in [Prefixes -> {"missing", "synced"}]
  /\ objects \in [Preimages -> {None, File(Foreign, {}, "single")}]
  /\ \A p \in Preimages : objects[p] # None => directories[Prefix[p]] = "synced"
  /\ threads = [t \in Threads |-> Idle]
  /\ returned = {} /\ doubtful = {} /\ stages = 0 /\ faults = 0

-----------------------------------------------------------------------------
\* _read_regular: the file exists and has no second name.
Readable(p) == objects[p] # None /\ objects[p].temporaries = {}

\* resolve_verified: readable, and its bytes are the ones the digest names.
Resolves(p) == Readable(p) /\ objects[p].bytes = p

\* existing == preimage
Matches(p) == objects[p].bytes = p

At(t, step) == threads[t].at = step
Goto(t, step) == threads' = [threads EXCEPT ![t].at = step]
Raise(t) == threads' = [threads EXCEPT ![t].at = "idle", ![t].raised = TRUE]

Return(t, p) ==
  /\ threads' = [threads EXCEPT ![t] = Idle]
  /\ returned' = returned \cup {p}

\* fsync of a directory writes its entries as they are.
Settled(file) ==
  IF file = None THEN None
  ELSE [file EXCEPT !.disk = IF file.temporaries = {} THEN "single" ELSE "linked"]

Synced(prefix) ==
  [p \in Preimages |-> IF Prefix[p] = prefix THEN Settled(objects[p]) ELSE objects[p]]

Fault == faults < MaxFaults /\ faults' = faults + 1

stage_verified(t, bytes) ==
  /\ threads[t].at = "idle" /\ stages < MaxStages /\ stages' = stages + 1
  /\ threads' = [threads EXCEPT ![t] =
       IF bytes \in Preimages THEN [at |-> "directory", preimage |-> bytes, raised |-> FALSE]
                              ELSE [Idle EXCEPT !.raised = TRUE]]
  /\ UNCHANGED <<directories, objects, returned, doubtful, faults>>

\* _ensure_directory: an existing directory is taken as it is; a missing one
\* is made (by whichever thread comes first) and synchronised by all that
\* found it missing.
FindDirectory(t, p) ==
  /\ At(t, "directory")
  /\ Goto(t, IF directories[Prefix[p]] = "missing" THEN "mkdir" ELSE "look")
  /\ UNCHANGED <<directories, objects, returned, doubtful, stages, faults>>

MakeDirectory(t, p) ==
  /\ At(t, "mkdir") /\ Goto(t, "sync directory")
  /\ directories' = [directories EXCEPT ![Prefix[p]] = IF @ = "missing" THEN "made" ELSE @]
  /\ UNCHANGED <<objects, returned, doubtful, stages, faults>>

SyncDirectory(t, p) ==
  /\ At(t, "sync directory") /\ Goto(t, "look")
  /\ directories' = [directories EXCEPT ![Prefix[p]] = "synced"]
  /\ objects' = Synced(Prefix[p])
  /\ UNCHANGED <<returned, doubtful, stages, faults>>

\* A file under the digest's name is compared, one that cannot be read (yet)
\* is left to link(2).
Look(t, p) ==
  /\ At(t, "look")
  /\ IF ~Readable(p) THEN Goto(t, "write") /\ UNCHANGED returned
     ELSE IF Matches(p) THEN Return(t, p)
     ELSE Raise(t) /\ UNCHANGED returned
  /\ UNCHANGED <<directories, objects, doubtful, stages, faults>>

\* The temporary file is written and synchronised before it gets its name.
WriteTemporary(t, p) ==
  /\ At(t, "write") /\ Goto(t, "link")
  /\ UNCHANGED <<directories, objects, returned, doubtful, stages, faults>>

\* Mutant: the directory is not synchronised after the link.
LinkUnsynced(t, p) ==
  /\ At(t, "link")
  /\ IF objects[p] = None
     THEN /\ objects' = [objects EXCEPT ![p] = File(p, {t}, "absent")]
          /\ Goto(t, "unlink")
     ELSE Goto(t, "compare") /\ UNCHANGED objects
  /\ UNCHANGED <<directories, returned, doubtful, stages, faults>>

Link(t, p) ==
  /\ At(t, "link")
  /\ IF objects[p] = None
     THEN /\ objects' = [objects EXCEPT ![p] = File(p, {t}, "absent")]
          /\ Goto(t, "sync entry")
     ELSE Goto(t, "compare") /\ UNCHANGED objects
  /\ UNCHANGED <<directories, returned, doubtful, stages, faults>>

\* FileExistsError: another call installed the file.
Compare(t, p) ==
  /\ At(t, "compare")
  /\ IF Readable(p) /\ Matches(p) THEN Goto(t, "unlink") ELSE Raise(t)
  /\ UNCHANGED <<directories, objects, returned, doubtful, stages, faults>>

SyncEntry(t, p) ==
  /\ At(t, "sync entry") /\ Goto(t, "unlink")
  /\ objects' = Synced(Prefix[p])
  /\ UNCHANGED <<directories, returned, doubtful, stages, faults>>

Unlinked(t, p) == [objects EXCEPT ![p].temporaries = @ \ {t}]

UnlinkTemporary(t, p) ==
  /\ At(t, "unlink") /\ Goto(t, "resolve") /\ objects' = Unlinked(t, p)
  /\ UNCHANGED <<directories, returned, doubtful, stages, faults>>

ResolveInstalled(t, p) ==
  /\ At(t, "resolve")
  /\ IF Resolves(p) THEN Return(t, p) ELSE Raise(t) /\ UNCHANGED returned
  /\ UNCHANGED <<directories, objects, doubtful, stages, faults>>

\* fsync raises; the finally clause removes the temporary name.
SyncFails(t, p) ==
  /\ Fault /\ Raise(t)
  /\ \/ At(t, "sync directory") /\ UNCHANGED <<objects, doubtful>>
     \/ At(t, "write") /\ UNCHANGED <<objects, doubtful>>
     \/ /\ At(t, "sync entry")
        /\ objects' = Unlinked(t, p) /\ doubtful' = doubtful \cup {p}
  /\ UNCHANGED <<directories, returned, stages>>

-----------------------------------------------------------------------------
Orphaned(file) ==
  IF file = None \/ file.temporaries = {} THEN file ELSE [file EXCEPT !.temporaries = {Orphan}]

\* The process is killed: no finally clause runs.
Kill ==
  /\ Fault /\ \E t \in Threads : ~At(t, "idle")
  /\ threads' = [t \in Threads |-> Idle]
  /\ objects' = [p \in Preimages |-> Orphaned(objects[p])]
  /\ UNCHANGED <<directories, returned, doubtful, stages>>

\* What a loss of power may leave of an entry: what was written last, with or
\* without each later change.
Recovered(file) ==
  IF file = None THEN {None}
  ELSE LET single == File(file.bytes, {}, "single")
           two == File(file.bytes, {Orphan}, "linked")
       IN CASE file.disk = "absent" -> {None, single, two}
            [] file.disk = "linked" -> {two} \cup {f \in {single} : file.temporaries = {}}
            [] OTHER -> {single}

\* The machine loses power; a directory whose own entry was not synchronised
\* may be lost with everything in it.
LosePower ==
  /\ Fault
  /\ threads' = [t \in Threads |-> Idle]
  /\ \E lost \in SUBSET {d \in Prefixes : directories[d] = "made"} :
       /\ directories' = [d \in Prefixes |->
            IF d \in lost THEN "missing" ELSE IF directories[d] = "made" THEN "synced"
            ELSE directories[d]]
       /\ objects' \in {f \in [Preimages -> UNION {Recovered(objects[p]) : p \in Preimages}] :
            \A p \in Preimages :
              f[p] \in IF Prefix[p] \in lost THEN {None} ELSE Recovered(objects[p])}
       /\ doubtful' = doubtful \cup {p \in Preimages : Prefix[p] \in lost}
  /\ UNCHANGED <<returned, stages>>

Step(t, p) ==
  \/ FindDirectory(t, p) \/ MakeDirectory(t, p) \/ SyncDirectory(t, p)
  \/ Look(t, p) \/ WriteTemporary(t, p) \/ Link(t, p) \/ Compare(t, p)
  \/ SyncEntry(t, p) \/ UnlinkTemporary(t, p) \/ ResolveInstalled(t, p)

Call == \E t \in Threads, bytes \in Preimages \cup Invalid : stage_verified(t, bytes)
Run == \E t \in Threads : threads[t].preimage # None /\ Step(t, threads[t].preimage)
Fail == \E t \in Threads : threads[t].preimage # None /\ SyncFails(t, threads[t].preimage)

Next == Call \/ Run \/ Fail \/ Kill \/ LosePower

Spec == Init /\ [][Next]_vars

-----------------------------------------------------------------------------
(* The bytes of a reference that stage_verified has returned survive losses *)
(* of power under the digest's name, also when another call installed them  *)
(* and this one only found them, unless an fsync of that directory failed   *)
(* or the directory itself was lost.  (The temporary name may come back     *)
(* beside it: the code does not synchronise its removal.)                   *)
ReturnedBytesSurvive ==
  \A p \in returned \ doubtful : objects[p] # None /\ objects[p].bytes = p

(* Concurrent calls that stage a canonical preimage all return its         *)
(* reference, unless somebody else's file has its name.                    *)
ConcurrentStagesReturn ==
  \A t \in Threads : LET p == threads[t].preimage IN
    threads[t].raised /\ p # None => objects[p] # None /\ objects[p].bytes = Foreign
=============================================================================
