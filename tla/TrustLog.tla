------------------------------ MODULE TrustLog ------------------------------
(***************************************************************************)
(* The deployment-trust log: the tenant decision journal (a body file, a   *)
(* separately replaced head file), its SQLite materialization, and the     *)
(* decisions appended to it: INITIALIZE and BOOTSTRAP, H1 and native       *)
(* output scopes, and self-delivery policies the operator signs.           *)
(*                                                                         *)
(* A writer observes the log under the authority gate, has its proposal    *)
(* evaluated by the isolated owner process, and takes the gate again to    *)
(* append.  An append is four durable steps; between any two of them the   *)
(* process may crash, or the next step may raise while the process runs    *)
(* on, and the line of the body may be written short.  Nothing repairs a   *)
(* torn append: the log is then refused for good.  The operator may        *)
(* replace the protected key pin at any time.  A decision's identity is    *)
(* its position: the journal is a hash chain, so equal positions are equal *)
(* prefixes.                                                               *)
(***************************************************************************)
EXTENDS Naturals, Sequences, FiniteSets, FiniteSetsExt

CONSTANTS Writers, Keys, Terms, Commands,
          None,
          MaxEntries,       \* bound: journal length
          MaxFaults         \* bound: crashes, failed steps, replaced pins, lost databases

VARIABLES body,      \* the decisions of the journal body
          anchored,  \* how many of them the head file anchors
          headNew,   \* is an interrupted head publication on disk?
          rows,      \* the materialized decisions, in row order
          pin,       \* the protected operator key pin
          binding,   \* the pin the owner process started with
          up,        \* is the broker running?
          holder,    \* the writer inside its append, under the gate
          step,      \* the next durable step of that append
          work,      \* what each writer is doing
          faults

files == <<body, anchored, headNew, rows>>
vars == <<files, pin, binding, up, holder, step, work, faults>>

Idle == [state |-> "idle"]
Scopes == {"HERMETIC_OUTPUT_SCOPE_V1", "NATIVE_ONE_CALL_CONTEXT_SCOPE_V1"}
Policy == "PREPARED_SELF_DELIVERY_POLICY_V1"

\* What a short write leaves of a line.
Cut == [kind |-> "CUT"]

Init ==
  /\ body = <<>> /\ anchored = 0 /\ headNew = FALSE /\ rows = <<>>
  /\ pin \in [key: Keys, status: {"ACTIVE"}] /\ binding = None
  /\ up = FALSE /\ holder = None /\ step = None
  /\ work = [w \in Writers |-> Idle] /\ faults = 0

-----------------------------------------------------------------------------
(* Reading the log.                                                        *)

\* entries(): the body decodes and its last decision is the anchored one.
EntriesRead ==
  /\ anchored = Len(body) /\ ~headNew
  /\ \A i \in 1..Len(body) : body[i] # Cut

\* compare_trust_prefix: whole decisions may lag, nothing else.
MaterializedPrefix == rows = [i \in 1..Len(rows) |-> i] /\ Len(rows) <= Len(body)

Verified == EntriesRead /\ MaterializedPrefix /\ Len(rows) = Len(body)

\* The newest entry of one lineage among the first n, 0 when there is none.
Latest(kind, n) == Max({i \in 1..n : body[i].kind = kind} \cup {0})

ScopeFollows(i) ==
  LET prior == Latest(body[i].kind, i - 1)
  IN /\ body[i].predecessor = prior
     /\ body[i].revision = IF prior = 0 THEN 0 ELSE body[prior].revision + 1

DerivedPolicy(i) ==
  LET prior == Latest(Policy, i - 1)
  IN /\ ScopeFollows(i)
     /\ body[i].status = "REVOKED" =>
          prior # 0 /\ body[i].terms = body[prior].terms

Replayed(i) == \E j \in 1..(i - 1) :
  body[j].kind = Policy /\ body[j].command = body[i].command

\* The lineage scan of one kind over the authenticated journal succeeds.
LineageReads(kind) ==
  \A i \in 1..Len(body) : body[i].kind = kind =>
    CASE kind = Policy -> DerivedPolicy(i) /\ ~Replayed(i)
      [] kind \in Scopes -> ScopeFollows(i)
      [] OTHER -> TRUE

-----------------------------------------------------------------------------
(* Startup.                                                                *)

\* The startup inspection classifies the cut read-only; recovery then replays
\* whole missing decisions and verifies.  Any other cut refuses to start.
Start ==
  /\ ~up /\ EntriesRead /\ MaterializedPrefix
  /\ up' = TRUE /\ rows' = [i \in 1..Len(body) |-> i] /\ binding' = pin
  /\ UNCHANGED <<body, anchored, headNew, pin, holder, step, work, faults>>

-----------------------------------------------------------------------------
(* Writers.                                                                *)

\* The phase the owner process reduces from the decisions it is shown.
Phase == CASE body = <<>> -> "UNAVAILABLE"
           [] Latest("BOOTSTRAP", Len(body)) = 0 -> "BOOTSTRAP_REQUIRED"
           [] OTHER -> "ACTIVE"

Observed(kind) == [length |-> Len(body), latest |-> Latest(kind, Len(body))]

Successor(kind) ==
  LET prior == Latest(kind, Len(body))
  IN [predecessor |-> prior,
      revision |-> IF prior = 0 THEN 0 ELSE body[prior].revision + 1]

\* The owner admits one bootstrap; its decisions complete what the journal has.
ProposeBootstrap(w) ==
  /\ up /\ holder = None /\ work[w] = Idle /\ Verified /\ Phase # "ACTIVE"
  /\ work' = [work EXCEPT ![w] = [state |-> "proposed", seen |-> Observed("BOOTSTRAP"),
       entry |-> [kind |-> "BOOTSTRAP"]]]
  /\ UNCHANGED <<files, pin, binding, up, holder, step, faults>>

\* A scope proposal is prepared against the lineage its caller observed.
ProposeScope(w, kind) ==
  /\ up /\ holder = None /\ work[w] = Idle /\ Verified /\ LineageReads(kind)
  /\ Phase = "ACTIVE"
  /\ work' = [work EXCEPT ![w] = [state |-> "proposed", seen |-> Observed(kind),
       entry |-> [kind |-> kind, predecessor |-> Successor(kind).predecessor,
                  revision |-> Successor(kind).revision]]]
  /\ UNCHANGED <<files, pin, binding, up, holder, step, faults>>

\* The operator signs a request that pins the observation they read.  Neither
\* the owner nor the append asks whether its command was used before; only the
\* reader of the lineage does.
Sign(w, operation, terms, command, key) ==
  /\ up /\ holder = None /\ work[w] = Idle /\ Verified /\ LineageReads(Policy)
  /\ Phase = "ACTIVE"
  /\ work' = [work EXCEPT ![w] = [state |-> "signed", seen |-> Observed(Policy),
       request |-> [operation |-> operation, terms |-> terms,
                    command |-> command, key |-> key]]]
  /\ UNCHANGED <<files, pin, binding, up, holder, step, faults>>

VerifyCommand(request, key) ==
  key # None /\ key.status = "ACTIVE" /\ key.key = request.key

\* The policy the signed request and its pinned predecessor determine.
DerivePolicy(request, prior) ==
  [kind |-> Policy, predecessor |-> prior,
   revision |-> IF prior = 0 THEN 0 ELSE body[prior].revision + 1,
   status |-> IF request.operation = "ISSUE" THEN "ACTIVE" ELSE "REVOKED",
   terms |-> IF request.operation = "ISSUE" THEN request.terms ELSE body[prior].terms,
   command |-> request.command, key |-> request.key]

\* The isolated owner: its binding was frozen at startup; it proposes or
\* refuses (a refusal ends the writer's attempt).
Evaluate(w) ==
  /\ up /\ work[w].state = "signed"
  /\ LET request == work[w].request  prior == work[w].seen.latest
         admits == /\ request.operation = "REVOKE" => prior # 0
                   /\ VerifyCommand(request, binding)
     IN work' = [work EXCEPT ![w] =
          IF ~admits THEN Idle
          ELSE [state |-> "proposed", seen |-> @.seen, request |-> request,
                entry |-> DerivePolicy(request, prior)]]
  /\ UNCHANGED <<files, pin, binding, up, holder, step, faults>>

\* The broker repeats every check under the gate before it appends: the
\* durable state verifies, the proposal still follows the newest entry of its
\* lineage, a policy's call pinned this very observation, and the pin file
\* (not the owner's binding) authorizes its command.
FollowsAnything(w) == work[w].entry.kind # Policy
FollowsLineage(w) ==
  work[w].seen.latest = Latest(work[w].entry.kind, Len(body))

PolicyAdmitted(w) ==
  /\ work[w].seen.length = Len(body)
  /\ VerifyCommand(work[w].request, pin)

Admits(w) ==
  /\ Verified /\ LineageReads(work[w].entry.kind) /\ FollowsLineage(w)
  /\ work[w].entry.kind = Policy => PolicyAdmitted(w)
  /\ work[w].entry.kind = "BOOTSTRAP" => work[w].seen.length = Len(body)

\* apply_authorized wants the whole batch of an empty journal, or its bootstrap.
Batch(entry) ==
  IF entry.kind = "BOOTSTRAP" /\ body = <<>>
  THEN <<[kind |-> "INITIALIZE"], entry>> ELSE <<entry>>

Admit(w) ==
  /\ up /\ holder = None /\ work[w].state = "proposed"
  /\ Len(body) + Len(Batch(work[w].entry)) <= MaxEntries
  /\ IF Admits(w)
     THEN /\ holder' = w /\ step' = "body"
          /\ work' = [work EXCEPT ![w] = [state |-> "append", batch |-> Batch(@.entry)]]
     ELSE work' = [work EXCEPT ![w] = Idle] /\ UNCHANGED <<holder, step>>
  /\ UNCHANGED <<files, pin, binding, up, faults>>

-----------------------------------------------------------------------------
(* The durable steps of one append.                                        *)

\* The writer's append ends without a result.
Abandoned ==
  step' = None /\ holder' = None /\ work' = [work EXCEPT ![holder] = Idle]

\* os.write's count is not looked at.
WriteBody ==
  /\ step = "body" /\ step' = "head.new"
  /\ \/ body' = Append(body, Head(work[holder].batch)) /\ UNCHANGED faults
     \/ body' = Append(body, Cut) /\ faults < MaxFaults /\ faults' = faults + 1
  /\ UNCHANGED <<anchored, headNew, rows, pin, binding, up, holder, work>>

WriteHead ==
  /\ step = "head.new"
  /\ headNew' = TRUE /\ step' = "replace"
  /\ UNCHANGED <<body, anchored, rows, pin, binding, up, holder, work, faults>>

\* The append reads the entries once more before it returns.
ReplaceHead ==
  /\ step = "replace"
  /\ anchored' = Len(body) /\ headNew' = FALSE
  /\ IF body[Len(body)] # Cut
     THEN step' = "materialize" /\ UNCHANGED <<holder, work>>
     ELSE Abandoned
  /\ UNCHANGED <<body, rows, pin, binding, up, faults>>

Materialize ==
  /\ step = "materialize"
  /\ rows' = Append(rows, Len(body))
  /\ LET rest == Tail(work[holder].batch)
     IN IF rest = <<>>
        THEN /\ work' = [work EXCEPT ![holder] = Idle]
             /\ holder' = None /\ step' = None
        ELSE /\ work' = [work EXCEPT ![holder].batch = rest]
             /\ step' = "body" /\ UNCHANGED holder
  /\ UNCHANGED <<body, anchored, headNew, pin, binding, up, faults>>

\* The next step raises and the broker runs on.
StepRaises ==
  /\ holder # None /\ faults < MaxFaults /\ faults' = faults + 1
  /\ Abandoned
  /\ UNCHANGED <<files, pin, binding, up>>

-----------------------------------------------------------------------------
(* The environment.                                                        *)

Crash ==
  /\ up /\ faults < MaxFaults /\ faults' = faults + 1
  /\ up' = FALSE /\ holder' = None /\ step' = None /\ binding' = None
  /\ work' = [w \in Writers |-> Idle]
  /\ UNCHANGED <<files, pin>>

\* The trust database is absent: the journal alone is restored.
LoseMaterialization ==
  /\ ~up /\ rows # <<>> /\ faults < MaxFaults /\ faults' = faults + 1
  /\ rows' = <<>>
  /\ UNCHANGED <<body, anchored, headNew, pin, binding, up, holder, step, work>>

ReplacePin(key, status) ==
  /\ faults < MaxFaults /\ faults' = faults + 1
  /\ pin' = [key |-> key, status |-> status] /\ pin' # pin
  /\ UNCHANGED <<files, binding, up, holder, step, work>>

Next ==
  \/ Start \/ WriteBody \/ WriteHead \/ ReplaceHead \/ Materialize \/ StepRaises
  \/ Crash \/ LoseMaterialization
  \/ \E key \in Keys, status \in {"ACTIVE", "REVOKED"} : ReplacePin(key, status)
  \/ \E w \in Writers :
       \/ ProposeBootstrap(w) \/ Evaluate(w) \/ Admit(w)
       \/ \E kind \in Scopes : ProposeScope(w, kind)
       \/ \E op \in {"ISSUE", "REVOKE"}, t \in Terms, c \in Commands, k \in Keys :
            Sign(w, op, t, c, k)

Spec == Init /\ [][Next]_vars

-----------------------------------------------------------------------------
\* Wherever an append stopped, at most its last line is unanchored or cut, and
\* no row was materialized, so no answer given, for a decision the head does not
\* anchor.  Whatever two writers proposed from one observation, the scope
\* lineages read as chains of consecutive revisions, each naming the one before,
\* and so do the policies, a revocation keeping the terms it revokes; INITIALIZE
\* is the first decision and no other.  A command the operator uses twice is
\* appended all the same, and is then the last policy: the reader refuses the
\* lineage from there on.
TrustLogStaysReadable ==
  /\ MaterializedPrefix /\ Len(rows) <= anchored
  /\ anchored \in {Len(body) - 1, Len(body)}
  /\ \A i \in 1..Len(body) :
       /\ body[i] = Cut => i = Len(body)
       /\ IF i = 1 THEN body[i].kind \in {"INITIALIZE", "CUT"}
                  ELSE body[i].kind # "INITIALIZE"
       /\ body[i].kind \in Scopes => ScopeFollows(i)
       /\ body[i].kind = Policy =>
            DerivedPolicy(i) /\ (Replayed(i) => i = Latest(Policy, Len(body)))

\* A policy enters the journal only under the key the protected pin held when
\* its append was admitted, so a proposal the owner evaluated with the pin of
\* its startup is not appended after the operator replaced or revoked the key.
PolicyUnderCurrentPin ==
  \A w \in Writers :
    work'[w].state = "append" /\ work[w].state = "proposed"
    /\ work'[w].batch[1].kind = Policy
      => pin.status = "ACTIVE" /\ pin.key = work'[w].batch[1].key

=============================================================================
