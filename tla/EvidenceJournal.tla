---------------------------- MODULE EvidenceJournal ----------------------------
(***************************************************************************)
(* The evidence journal: facts a principal reports, corrects or retracts,  *)
(* directly when the utterance proves the fact, otherwise by confirming a  *)
(* candidate that was displayed first.                                     *)
(*                                                                         *)
(* A command reads one snapshot of the tenant, builds a record and waits   *)
(* for the appender, which publishes at the snapshot's head if the guard   *)
(* still holds.  Other commands, revocations, policy changes and commits   *)
(* of other owners happen while it waits.                                  *)
(*                                                                         *)
(* A record is identified by the number of its command; claims sort after  *)
(* candidates, as their identities do.  A claim is its subject and the     *)
(* ingress item it cites; the label of an item is the set of endpoints it  *)
(* may be released to.                                                     *)
(***************************************************************************)
EXTENDS Naturals, Sequences, FiniteSets, SequencesExt, FiniteSetsExt, TLC

CONSTANTS Principals, Subjects,
          Items,           \* ingress items a claim may cite
          SourceOf(_),     \* "principal", "model" or "provider"
          EndpointsOf(_),  \* the label of an item
          Endpoint,        \* the endpoint every peer reads at
          MaxCommands,     \* commands are numbered 1..MaxCommands
          MaxHead, MaxPolicy, MaxRows,
          None

\* What the constants have to satisfy.
EvidenceJournalAssumption ==
    {MaxCommands, MaxHead, MaxPolicy, MaxRows} \subseteq Nat

VARIABLES head,           \* tenant commit sequence, all owners
          records,        \* journal records in commit order, each at its sequence
          policy,         \* current policy, contour and deletion heads
          revoked,        \* principals whose peer was revoked
          pending         \* the command that waits for the appender

vars == <<head, records, policy, revoked, pending>>

Heads == [journal |-> head, policy |-> policy]

Claim(s, i) == [subject |-> s, item |-> i, policy |-> policy, label |-> EndpointsOf(i)]

\* The closed grammar accepts one form of utterance of the principal itself.
positive_proof(claim) == SourceOf(claim.item) = "principal"

_disclosed(claim) ==
    /\ claim.policy = policy
    /\ claim.label = EndpointsOf(claim.item)
    /\ Endpoint \in claim.label

_identity(p) == p \notin revoked

_guard(c) ==
    /\ _identity(c.principal)
    /\ c.heads = Heads
    /\ _disclosed(c.claim)

-----------------------------------------------------------------------------
Journal == Range(records)
Candidate(r) == r.kind = "CandidateEvidence"

_replay(c) == {r \in Journal : r.command = c.id}

Disposed(id) == \E r \in Journal : r.kind = "ClaimDisposition" /\ r.predecessor = id

_target(c) ==
    {r \in Journal : /\ r.id = c.predecessor /\ ~Candidate(r)
                     /\ r.principal = c.principal /\ ~Disposed(r.id)}

Eligible(c) ==
    {r.id : r \in {x \in Journal : /\ Candidate(x) /\ x.principal = c.principal
                                   /\ x.claim.subject = c.claim.subject
                                   /\ x.predecessor = c.predecessor}}

_valid_supersession(c) == c.supersedes \subseteq Eligible(c)

\* Candidates confirmed by a later record, or superseded in its display.
Consumed(p) ==
    UNION {{r.display.candidate} \cup r.display.supersedes
             : r \in {x \in Journal : x.principal = p /\ ~Candidate(x) /\ x.display # None}}

OperationOf(c) ==
    CASE c.action = "correct_claim" -> "CORRECT"
      [] c.action = "retract_claim" -> "RETRACT"
      [] OTHER -> "RECORD"

Family(c, own) ==
    IF _target(c) = {} THEN own ELSE (CHOOSE t \in _target(c) : TRUE).family

JournalRecord(c, id, kind, operation, display) ==
    [id |-> id, principal |-> c.principal, kind |-> kind, family |-> Family(c, id),
     predecessor |-> c.predecessor, operation |-> operation, claim |-> c.claim,
     display |-> display, command |-> c.id]

\* What both operations check before anything else.
Admitted(c) ==
    /\ _disclosed(c.claim)
    /\ _replay(c) = {}
    /\ _guard(c)
    /\ c.heads.journal = head
    /\ _valid_supersession(c)

-----------------------------------------------------------------------------
CandidateId(c) == c.id
ClaimId(c) == MaxCommands + c.id

\* The display names the head the candidate's own publication will produce.
Display(c) ==
    [candidate |-> CandidateId(c), claim |-> c.claim, operation |-> OperationOf(c),
     heads |-> [c.heads EXCEPT !.journal = @ + 1], predecessor |-> c.predecessor,
     supersedes |-> c.supersedes]

SameSubject(c) == \A t \in _target(c) : t.claim.subject = c.claim.subject

prepare(c) ==
    IF /\ Admitted(c)
       /\ c.display = None /\ c.action # "confirm_candidate"
       /\ c.action # "record_fact" => _target(c) # {}
       /\ SameSubject(c)
    THEN {JournalRecord(c, CandidateId(c), "CandidateEvidence", "CANDIDATE", Display(c))}
    ELSE {}

\* As if the display were only compared with the stored candidate.
DisplayedOnce(c) ==
    /\ c.display.claim = c.claim
    /\ c.display.predecessor = c.predecessor

DisplayedNow(c) ==
    /\ c.display.claim = c.claim
    /\ c.display.heads = c.heads
    /\ c.display.predecessor = c.predecessor

\* Every other candidate still open for the same change is superseded.
RivalsResolved(c) ==
    c.supersedes = c.display.supersedes
        /\ c.display.supersedes = (Eligible(c) \ Consumed(c.principal)) \ {c.display.candidate}

Confirms(c) ==
    /\ c.display # None
    /\ \E r \in Journal : /\ r.id = c.display.candidate /\ Candidate(r)
                          /\ r.principal = c.principal /\ r.display = c.display
    /\ DisplayedNow(c)
    /\ RivalsResolved(c)

Settles(c, operation) ==
    JournalRecord(c, ClaimId(c), IF operation = "RECORD" THEN "FactClaim" ELSE "ClaimDisposition",
                  operation, c.display)

execute(c) ==
    LET direct == c.action = "record_fact" /\ c.display = None /\ c.predecessor = None
        operation == IF direct THEN "RECORD" ELSE c.display.operation
    IN  IF /\ Admitted(c)
           /\ IF direct THEN positive_proof(c.claim)
              ELSE c.action = "confirm_candidate" /\ Confirms(c)
           /\ IF operation = "RECORD" THEN c.predecessor = None
              ELSE _target(c) # {} /\ SameSubject(c)
        THEN {Settles(c, operation)}
        ELSE {}

-----------------------------------------------------------------------------
Command(id, p, action, claim, predecessor, display, supersedes, heads) ==
    [id |-> id, principal |-> p, action |-> action, claim |-> claim, heads |-> heads,
     predecessor |-> predecessor, display |-> display, supersedes |-> supersedes]

Claims(p) == {r.id : r \in {x \in Journal : x.principal = p /\ ~Candidate(x)}}
Candidates(p) == {r.id : r \in {x \in Journal : x.principal = p /\ Candidate(x)}}

\* Identities are taken in order: two that race may take the same one.
Fresh ==
    LET unused == (1..MaxCommands) \ {r.command : r \in Journal}
    IN  IF unused = {} THEN {} ELSE {Min(unused)}

\* A change names a claim of anyone; the candidates to supersede are none or
\* all those that are open.
Submitted ==
    {Command(id, p, action, Claim(s, i), pre, None, sup, Heads)
        : id \in Fresh, p \in Principals, action \in {"correct_claim", "retract_claim"},
          s \in Subjects, i \in Items, pre \in UNION {Claims(q) : q \in Principals},
          sup \in {{}, UNION {Candidates(q) \ Consumed(q) : q \in Principals}}}
        \cup
    {Command(id, p, "record_fact", Claim(s, i), None, None, sup, Heads)
        : id \in Fresh, p \in Principals, s \in Subjects, i \in Items,
          sup \in {{}, UNION {Candidates(q) \ Consumed(q) : q \in Principals}}}

\* The confirm commands the transport receives from the principal: they quote
\* the display, with its heads or with fresh ones.
ConfirmCommands ==
    {Command(id, r.principal, "confirm_candidate", r.claim, r.predecessor, r.display,
             r.display.supersedes, heads)
        : id \in Fresh, r \in {x \in Journal : Candidate(x)}, heads \in {Heads}}
        \cup
    {Command(id, r.principal, "confirm_candidate", r.claim, r.predecessor, r.display,
             r.display.supersedes, r.display.heads)
        : id \in Fresh, r \in {x \in Journal : Candidate(x)}}

Executed ==
    {c \in Submitted : c.action = "record_fact"} \cup ConfirmCommands

Commit(r) ==
    /\ head < MaxHead
    /\ head' = head + 1
    /\ records' = Append(records, r @@ [sequence |-> head + 1])

\* The command reads its snapshot and waits for the appender.
Waits(c, answers) ==
    /\ pending = {}
    /\ head < MaxHead
    /\ \E r \in answers : pending' = {[command |-> c, record |-> r, expected |-> head]}
    /\ UNCHANGED <<head, records, policy, revoked>>

\* Nothing comes between its snapshot and its publication.
Immediate(c, answers) ==
    /\ \E r \in answers : Commit(r)
    /\ UNCHANGED <<policy, revoked, pending>>

Prepare == \E c \in Submitted : Waits(c, prepare(c)) \/ Immediate(c, prepare(c))

Execute == \E c \in Executed : Waits(c, execute(c)) \/ Immediate(c, execute(c))

\* The appender publishes at the expected head, under the command's guard.
publish ==
    /\ \E w \in pending :
          /\ head = w.expected /\ _guard(w.command)
          /\ Commit(w.record)
    /\ pending' = {}
    /\ UNCHANGED <<policy, revoked>>

\* The head moved or the guard no longer holds: nothing is written.
Refuse ==
    /\ \E w \in pending : ~(head = w.expected /\ _guard(w.command))
    /\ pending' = {}
    /\ UNCHANGED <<head, records, policy, revoked>>

revoke ==
    /\ \E p \in Principals \ revoked : revoked' = revoked \cup {p}
    /\ UNCHANGED <<head, records, policy, pending>>

ChangePolicy ==
    /\ policy < MaxPolicy
    /\ policy' = policy + 1
    /\ UNCHANGED <<head, records, revoked, pending>>

OtherOwner ==
    /\ head < MaxHead
    /\ head' = head + 1
    /\ UNCHANGED <<records, policy, revoked, pending>>

Init ==
    /\ head = 0 /\ policy = 1
    /\ records = <<>>
    /\ revoked = {} /\ pending = {}

Next ==
    \/ Prepare \/ Execute
    \/ publish \/ Refuse \/ revoke \/ ChangePolicy \/ OtherOwner

Spec == Init /\ [][Next]_vars

-----------------------------------------------------------------------------
(* The projection of one principal's current records. *)

Superseded(p) ==
    {r.predecessor : r \in {x \in Journal : x.principal = p /\ x.kind = "ClaimDisposition"}}

Selected(p) ==
    {r \in Journal : /\ r.principal = p
                     /\ r.id \notin Superseded(p) \cup Consumed(p)
                     /\ Candidate(r) => r.predecessor \notin Superseded(p)}

Current(p, after) == Selected(p)

_closure(family) ==
    LET own == {r \in Journal : r.family = family}
        named == UNION {IF r.display = None THEN {}
                        ELSE {r.display.candidate} \cup r.display.supersedes : r \in own}
        next == own \cup {r \in Journal : r.id \in named}
        more == UNION {IF r.display = None THEN {}
                       ELSE {r.display.candidate} \cup r.display.supersedes : r \in next}
    IN  next \cup {r \in Journal : r.id \in more}

Rivals(p, r, after) ==
    {x \in Current(p, after) : x.claim.subject = r.claim.subject /\ (Candidate(x) <=> Candidate(r))}

Positive(p, r, after) ==
    ~Candidate(r) /\ r.operation # "RETRACT" /\ Cardinality(Rivals(p, r, after)) = 1

\* The rows of a page, or None for one that is refused.
project(p, max, after) ==
    LET rest == SetToSortSeq({r \in Selected(p) : r.id > after}, LAMBDA x, y : x.id < y.id)
        rows == SubSeq(rest, 1, IF Len(rest) < max THEN Len(rest) ELSE max)
        size == FoldSet(LAMBDA k, n : n + Cardinality(_closure(rows[k].family)), 0, DOMAIN rows)
        whole == \A k \in DOMAIN rows : \A r \in _closure(rows[k].family) :
                     r.principal = p /\ _disclosed(r.claim)
    IN  IF \/ ~_identity(p) \/ size > max \/ ~whole
           \/ after # 0 /\ after \notin {r.id : r \in Selected(p)}
        THEN None
        ELSE [k \in DOMAIN rows |->
                [record |-> rows[k], positive |-> Positive(p, rows[k], after),
                 lineage |-> _closure(rows[k].family)]]

\* The workspace frames each row with the joined label of its lineage.
read(p, max, after) ==
    LET page == project(p, max, after)
    IN  IF page = None THEN {}
        ELSE {[row |-> page[k],
               label |-> {e \in page[k].record.claim.label :
                             \A x \in page[k].lineage : e \in x.claim.label}]
                : k \in DOMAIN page}

-----------------------------------------------------------------------------
(***************************************************************************)
(* A fact enters the journal only as it was displayed: the confirming      *)
(* record comes immediately after its candidate, no commit of any owner in *)
(* between, every rival candidate of the principal was named in the        *)
(* display, and no claim is corrected or retracted twice and no command    *)
(* leaves two records, whatever waits at the appender (Journal.execute).   *)
(***************************************************************************)
ConfirmedAsDisplayed ==
    /\ \A k \in DOMAIN records :
          records[k].kind # "CandidateEvidence" /\ records[k].display # None =>
              /\ k > 1 /\ records[k - 1].id = records[k].display.candidate
              /\ records[k].sequence = records[k - 1].sequence + 1
              /\ \A j \in 1..(k - 1) :
                    LET x == records[j] IN
                    x.kind = "CandidateEvidence" /\ x.principal = records[k].principal
                        /\ x.claim.subject = records[k].claim.subject
                        /\ x.predecessor = records[k].predecessor /\ x.id # records[k].display.candidate
                    => \E m \in 1..k : /\ records[m].kind # "CandidateEvidence"
                                       /\ records[m].display # None
                                       /\ x.id \in {records[m].display.candidate} \cup records[m].display.supersedes
    /\ \A j, k \in DOMAIN records : j # k =>
          /\ records[j].command # records[k].command
          /\ records[j].kind = "ClaimDisposition" /\ records[k].kind = "ClaimDisposition" =>
                records[j].predecessor # records[k].predecessor

(***************************************************************************)
(* On every page the workspace reads, whatever its size and cursor, a row  *)
(* shown as currently positive is the principal's only claim about its     *)
(* subject that was not corrected away, and was not retracted: a rival on  *)
(* another page disputes it too (Journal.project).  The label joined from  *)
(* the row's lineage still admits the endpoint (JournalWorkspaceQueries).  *)
(***************************************************************************)
PositiveIsUndisputed ==
    pending = {} => \A p \in Principals, max \in 1..MaxRows, after \in 0..(2 * MaxCommands) :
        \A released \in read(p, max, after) :
            LET r == released.row.record
                claims == {x \in Journal : /\ x.principal = p /\ x.kind # "CandidateEvidence"
                                           /\ x.claim.subject = r.claim.subject}
            IN  /\ Endpoint \in released.label
                /\ released.row.positive =>
                      /\ \A x \in claims : x = r \/ \E y \in claims : y.predecessor = x.id
                      /\ r.operation # "RETRACT"
=============================================================================
