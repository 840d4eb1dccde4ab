------------------------------- MODULE ReadOnly -------------------------------
(***************************************************************************)
(* Read-only calls of a sealed Turn: composition/postgres_readonly.py and  *)
(* postgres_readonly_successor.py over capabilities/agent_loop/            *)
(* readonly_runtime.py, with the call branches and the continuation of     *)
(* composition/postgres_execution.py.                                      *)
(*                                                                         *)
(* A call reads the user's history at a frontier selected once.  An        *)
(* attempt is accepted durably, then the history is read, then the outcome *)
(* is published: three steps, between which the process may die, be fenced *)
(* by a newer runtime, or see its Run suspended or aborted on the side.    *)
(* A retryable failure is retried in the same Run or in a successor Run    *)
(* that supersedes it and inherits its Turns.                              *)
(*                                                                         *)
(* A frontier is counted in conversation entries: the history at frontier  *)
(* f is the entries 1..f.  A publication that loses its head comparison    *)
(* raises, which is the action fails.                                      *)
(***************************************************************************)
EXTENDS Naturals, Sequences, FiniteSets

CONSTANTS
    Runtimes,     \* runtime processes; each is opened at most once
    Calls,        \* the READ_ONLY calls initialized by one response seal
    FirstRun,     \* the Run whose Turn was sealed
    Successors,   \* Run identities a caller may choose for a successor
    MaxAttempts,  \* ReadOnlyLineageV2.max_attempts
    MaxEntries    \* bound on conversation entries, for TLC only

RunIds == {FirstRun} \cup Successors

\* What the constants have to satisfy.
ReadOnlyAssumption ==
    /\ FirstRun \notin Successors
    /\ MaxAttempts \in Nat \ {0} /\ MaxEntries \in Nat

VARIABLES
    worker,     \* the runtime whose token is current
    opened,     \* runtimes opened so far
    entries,    \* number of published conversation entries
    run,        \* the state of the selected record of every Run
    continued,  \* Runs that started the Turn after the sealed one
    branch,     \* NativeCallStateV1.state of every call
    lineage,    \* the selected ReadOnlyLineageV2 of every call
    edges,      \* published ReadOnlySuccessorV2 records
    openWork,   \* the Run carries an effect obligation that is still open
    job,        \* the operation that holds the lane of a runtime
    reads       \* history reads executed so far, per call

vars == <<worker, opened, entries, run, continued, branch, lineage, edges,
          openWork, job, reads>>
database == <<run, continued, branch, lineage, edges>>
-----------------------------------------------------------------------------
Outcomes == {"NONE", "SUCCEEDED", "FAILED_DEFINITE_RETRYABLE"}
NoLineage == [frontier |-> 0, attempts |-> <<>>]
Idle == [pc |-> "idle"]

LastOf(s) == s[Len(s)]

\* ReadOnlyLineageV2.state: the counter is the number of recorded attempts.
StateOf(l) ==
    IF l.attempts = <<>> THEN "INITIALIZED"
    ELSE CASE LastOf(l.attempts).outcome = "NONE" -> "ACCEPTED"
           [] LastOf(l.attempts).outcome = "SUCCEEDED" -> "SUCCEEDED"
           [] OTHER -> IF Len(l.attempts) = MaxAttempts
                       THEN "FAILED_DEFINITE_FINAL" ELSE "RETRY_PENDING"

terminal(l) == StateOf(l) \in {"SUCCEEDED", "FAILED_DEFINITE_FINAL"}

accept_readonly_attempt(l, r) ==
    [l EXCEPT !.attempts =
        Append(@, [run |-> r, outcome |-> "NONE", value |-> 0])]

record_readonly_outcome(l, kind, v) ==
    [l EXCEPT !.attempts[Len(l.attempts)] = [@ EXCEPT !.outcome = kind, !.value = v]]

\* _edge and require_successor_authority: a successor executes only the call
\* it was admitted for, and only while it holds that call's last attempt.
require_successor_authority(c, r) ==
    /\ \E e \in edges : e.successor = r /\ e.call = c
    /\ lineage[c].attempts # <<>> /\ LastOf(lineage[c].attempts).run = r

\* _call: the branch is still open and the executing Run may act.
CallAdmits(c, r, states) ==
    /\ branch[c] = "INITIALIZED"
    /\ r # FirstRun => require_successor_authority(c, r)
    /\ run[r] \in states

\* The Run that executes the next attempt of a call.
ExecutingRun(c) ==
    IF lineage[c].attempts = <<>> THEN FirstRun ELSE LastOf(lineage[c].attempts).run

\* _closed_call_results for one member of the seal.
Closed(c) == branch[c] = "CANCELLED" \/ terminal(lineage[c])
-----------------------------------------------------------------------------
Init ==
    /\ \E p \in Runtimes : worker = p /\ opened = {p}
    /\ entries = 1
    /\ run = [r \in RunIds |-> IF r = FirstRun THEN "ACTIVE" ELSE "ABSENT"]
    /\ continued = {}
    /\ branch = [c \in Calls |-> "INITIALIZED"]
    /\ lineage = [c \in Calls |-> NoLineage]
    /\ edges = {}
    /\ openWork \in BOOLEAN
    /\ job = [p \in Runtimes |-> Idle]
    /\ reads = [c \in Calls |-> 0]

\* A newer runtime takes the database; older ones fail their next transaction.
Open(p) ==
    /\ p \notin opened
    /\ opened' = opened \cup {p} /\ worker' = p
    /\ UNCHANGED <<entries, openWork, job, reads>> /\ UNCHANGED database

\* Another operation publishes a conversation entry.
PublishEntry ==
    /\ entries < MaxEntries
    /\ entries' = entries + 1
    /\ UNCHANGED <<worker, opened, openWork, job, reads>> /\ UNCHANGED database

\* The effect resolver closes the obligation the Run carries.
CloseObligation ==
    /\ openWork /\ openWork' = FALSE
    /\ UNCHANGED <<worker, opened, entries, job, reads>> /\ UNCHANGED database

\* The operation raises or its process dies: the lane is free again.
fails(p) ==
    /\ job[p] # Idle
    /\ job' = [job EXCEPT ![p] = Idle]
    /\ UNCHANGED <<worker, opened, entries, openWork, reads>> /\ UNCHANGED database

\* initialize_readonly_lineage with select_history_snapshot on a first attempt.
SelectionOf(c) ==
    IF lineage[c] = NoLineage THEN [NoLineage EXCEPT !.frontier = entries] ELSE lineage[c]

\* Mutant: an accepted attempt without an outcome is read again on reopening.
ExecuteResumesAccepted(p, c) ==
    LET r == ExecutingRun(c) IN
    /\ worker = p /\ job[p] = Idle
    /\ CallAdmits(c, r, {"ACTIVE"}) /\ ~terminal(lineage[c])
    /\ job' = [job EXCEPT ![p] =
           IF StateOf(lineage[c]) = "ACCEPTED"
           THEN [pc |-> "accepted", call |-> c, run |-> r, prior |-> lineage[c]]
           ELSE [pc |-> "accepting", call |-> c, run |-> r, prior |-> lineage[c],
                 next |-> accept_readonly_attempt(SelectionOf(c), r)]]
    /\ UNCHANGED <<worker, opened, entries, openWork, reads>> /\ UNCHANGED database

\* execute_readonly_call up to the publication of the accepted attempt.
execute_readonly_call(p, c) ==
    LET r == ExecutingRun(c) IN
    /\ worker = p /\ job[p] = Idle
    /\ StateOf(lineage[c]) \in {"INITIALIZED", "RETRY_PENDING"}
    /\ CallAdmits(c, r, {"ACTIVE"})
    /\ job' = [job EXCEPT ![p] =
           [pc |-> "accepting", call |-> c, run |-> r, prior |-> lineage[c],
            next |-> accept_readonly_attempt(SelectionOf(c), r)]]
    /\ UNCHANGED <<worker, opened, entries, openWork, reads>> /\ UNCHANGED database

\* The guard of _publish, evaluated on the snapshot of its own transaction.
PublishAdmits(j) ==
    /\ CallAdmits(j.call, j.run, {"ACTIVE"})
    /\ j.pc = "accepting" => ~openWork
    /\ lineage[j.call] = j.prior

\* The accepted attempt becomes durable before the history is read.
publish_accept(p) ==
    LET j == job[p] IN
    /\ j.pc = "accepting" /\ worker = p
    /\ PublishAdmits(j)
    /\ lineage' = [lineage EXCEPT ![j.call] = j.next]
    /\ job' = [job EXCEPT ![p] =
           [pc |-> "accepted", call |-> j.call, run |-> j.run, prior |-> j.next]]
    /\ UNCHANGED <<worker, opened, entries, run, continued, branch, edges, openWork, reads>>

\* read_history_snapshot at the accepted selection; a transient failure is a
\* retryable outcome.
read_history_snapshot(p) ==
    LET j == job[p] IN
    /\ j.pc = "accepted" /\ worker = p
    /\ reads' = [reads EXCEPT ![j.call] = @ + 1]
    /\ \E kind \in Outcomes \ {"NONE"} :
          job' = [job EXCEPT ![p] =
              [pc |-> "finishing", call |-> j.call, run |-> j.run, prior |-> j.prior,
               next |-> record_readonly_outcome(j.prior, kind,
                            IF kind = "SUCCEEDED" THEN j.prior.frontier ELSE 0)]]
    /\ UNCHANGED <<worker, opened, entries, openWork>> /\ UNCHANGED database

publish_outcome(p) ==
    LET j == job[p] IN
    /\ j.pc = "finishing" /\ worker = p
    /\ PublishAdmits(j)
    /\ lineage' = [lineage EXCEPT ![j.call] = j.next]
    /\ job' = [job EXCEPT ![p] = Idle]
    /\ UNCHANGED <<worker, opened, entries, run, continued, branch, edges, openWork, reads>>
-----------------------------------------------------------------------------
\* admission(): evaluated on the snapshot and again in the transaction.
admission(c, s) ==
    LET r == ExecutingRun(c) IN
    /\ StateOf(lineage[c]) = "RETRY_PENDING"
    /\ CallAdmits(c, r, {"ACTIVE", "SUSPENDED"})
    /\ ~openWork /\ run[s] = "ABSENT"
    /\ \A d \in Calls \ {c} : Closed(d)

\* One batch supersedes the source Run, activates the successor, records the
\* edge and accepts the next attempt; then the history is read as above.
retry_readonly_in_successor(p, c, s) ==
    LET r == ExecutingRun(c)
        accepted == accept_readonly_attempt(lineage[c], s) IN
    /\ worker = p /\ job[p] = Idle
    /\ admission(c, s)
    /\ run' = [run EXCEPT ![r] = "SUPERSEDED", ![s] = "ACTIVE"]
    /\ edges' = edges \cup {[source |-> r, successor |-> s, call |-> c]}
    /\ lineage' = [lineage EXCEPT ![c] = accepted]
    /\ job' = [job EXCEPT ![p] =
           [pc |-> "accepted", call |-> c, run |-> s, prior |-> accepted]]
    /\ UNCHANGED <<worker, opened, entries, continued, branch, openWork, reads>>

\* _choose_call_branch: an attempted read-only call has chosen its branch.
CancelAdmits(c) == branch[c] = "INITIALIZED" /\ lineage[c].attempts = <<>>

cancel_execution_call(p, c) ==
    /\ worker = p /\ job[p] = Idle
    /\ CancelAdmits(c)
    /\ branch' = [branch EXCEPT ![c] = "CANCELLED"]
    /\ UNCHANGED <<worker, opened, entries, run, continued, lineage, edges, openWork,
                   job, reads>>

\* assert_all_selected_seals_closed, then continue_turn.
continue_execution(p, r) ==
    /\ worker = p /\ job[p] = Idle
    /\ run[r] = "ACTIVE" /\ r \notin continued
    /\ \A c \in Calls : Closed(c)
    /\ continued' = continued \cup {r}
    /\ UNCHANGED <<worker, opened, entries, run, branch, lineage, edges, openWork,
                   job, reads>>

\* suspend, resume and abort do not take the lane.
Transition(p, r, state) ==
    /\ worker = p
    /\ run' = [run EXCEPT ![r] = state]
    /\ UNCHANGED <<worker, opened, entries, continued, branch, lineage, edges, openWork,
                   job, reads>>

suspend_execution(p, r) ==
    run[r] = "ACTIVE" /\ r \notin continued /\ Transition(p, r, "SUSPENDED")
resume_execution(p, r) ==
    run[r] = "SUSPENDED" /\ ~openWork /\ Transition(p, r, "ACTIVE")
abort_execution(p, r) ==
    run[r] \in {"ACTIVE", "SUSPENDED"} /\ Transition(p, r, "ABORTED")
-----------------------------------------------------------------------------
Next ==
    \/ PublishEntry \/ CloseObligation
    \/ \E p \in Runtimes :
          \/ Open(p) \/ fails(p)
          \/ publish_accept(p) \/ read_history_snapshot(p) \/ publish_outcome(p)
          \/ \E c \in Calls :
                \/ execute_readonly_call(p, c) \/ cancel_execution_call(p, c)
                \/ \E s \in Successors : retry_readonly_in_successor(p, c, s)
          \/ \E r \in RunIds :
                \/ continue_execution(p, r)
                \/ suspend_execution(p, r) \/ resume_execution(p, r)
                \/ abort_execution(p, r)

Spec == Init /\ [][Next]_vars
-----------------------------------------------------------------------------
\* The shared budget is never reset and never bypassed: every history read was
\* charged to a durably accepted attempt first, over all Runs, restarts and
\* successors, and no lineage exceeds max_attempts (accept before read in
\* execute_readonly_call and retry_readonly_in_successor).
ReadsAreCharged ==
    \A c \in Calls :
        /\ reads[c] <= Len(lineage[c].attempts)
        /\ Len(lineage[c].attempts) <= MaxAttempts

\* A call that may still be attempted belongs to the Run that is still live:
\* succession never strands a sibling in a superseded Run, and one Run at most
\* of the succession is ACTIVE or SUSPENDED.
LineageFollowsTheRun ==
    /\ \A r, s \in RunIds :
          {run[r], run[s]} \subseteq {"ACTIVE", "SUSPENDED"} => r = s
    /\ \A c \in Calls : ~Closed(c) => run[ExecutingRun(c)] # "SUPERSEDED"

\* The selection of a lineage is fixed by its first attempt, recorded attempts
\* and outcomes are never rewritten, a successful read shows exactly the history
\* at that selection, and a closed call keeps its result for every later Turn.
LineageIsStable ==
    \A c \in Calls :
       LET l == lineage[c]  m == lineage'[c] IN
       /\ l.attempts # <<>> => m.frontier = l.frontier
       /\ \A i \in DOMAIN l.attempts :
             /\ i \in DOMAIN m.attempts
             /\ l.attempts[i].outcome # "NONE" => m.attempts[i] = l.attempts[i]
             /\ m.attempts[i].outcome = "SUCCEEDED" =>
                   m.attempts[i].value = l.frontier
       /\ Closed(c) => m = l /\ branch'[c] = branch[c]
       /\ branch'[c] = "CANCELLED" => m.attempts = <<>>
=============================================================================
