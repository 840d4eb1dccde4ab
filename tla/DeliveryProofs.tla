---------------------------- MODULE DeliveryProofs ----------------------------
(***************************************************************************)
(* Proofs about Delivery for any sets of runtimes, Runs and entitlements.  *)
(* The inductive invariant IInv adds to the checked properties what a job  *)
(* may rely on: at most one job of a Run may call the provider and it has  *)
(* not yet, and a job that carries a receipt has seen the file synced,     *)
(* which no loss of power takes away (JobsInv).                            *)
(***************************************************************************)
EXTENDS Delivery, TLAPS

TypeInv ==
    /\ now \in 0..MaxTime /\ current \in Entitlements \cup {NoEntitlement}
    /\ worker \in opened \cup {NoWorker} /\ crashed \subseteq opened /\ opened \subseteq Runtimes
    /\ run \in [Runs -> {"PREPARED", "SUCCEEDED", "ABORTED"}] /\ cut \in [Runs -> 0..MaxCut]
    /\ DOMAIN cited = Runs /\ DOMAIN accepted = Runs /\ DOMAIN send = Runs
    /\ claim \in [Runs -> opened \cup {None}] /\ receipt \in [Runs -> {"CONFIRMED", None}]
    /\ inbox \in [Runs -> {"absent", "linked", "synced"}] /\ calls \in [Runs -> {0, 1}]

\* The acceptance of a Run, and how far its delivery has come.
AcceptInv(r) ==
    /\ run[r] = "SUCCEEDED" <=> accepted[r] # None
    /\ accepted[r] # None => /\ accepted[r] \in Nat /\ accepted[r] <= cut[r]
                             /\ cited[r] # None => accepted[r] = cited[r]

SendInv(r) ==
    /\ calls[r] = 1 => claim[r] # None
    /\ inbox[r] # "absent" => calls[r] = 1
    /\ receipt[r] = "CONFIRMED" => inbox[r] = "synced" /\ send[r] # None

EmitOps == {"claimed", "checked"}

\* What a job between two of its steps may rely on.
JobInv(j) ==
    /\ j.by \in opened \ crashed /\ j.run \in Runs
    /\ j = Job(j.by, j.op, j.run)
    /\ j.op \in {"claimed", "checked", "linked", "received"}
    /\ j.op \in EmitOps => claim[j.run] # None /\ calls[j.run] = 0
    /\ j.op = "linked" => calls[j.run] = 1 /\ inbox[j.run] # "absent"
    /\ j.op = "received" => inbox[j.run] = "synced"

JobsInv ==
    /\ \A j \in jobs : JobInv(j)
    /\ \A j, k \in jobs : j.op \in EmitOps /\ k.op \in EmitOps /\ j.run = k.run => j = k

\* The conversation holds the text of every SUCCEEDED Run once.
HistoryInv ==
    /\ history \in Seq(Runs)
    /\ ToSet(history) = {r \in Runs : run[r] = "SUCCEEDED"}
    /\ IsInjective(history)

Sent == {r \in Runs : send[r] # None}
GateInv == handoffs = {[request |-> send[r], payload |-> r] : r \in Sent}

IInv ==
    /\ TypeInv /\ JobsInv /\ HistoryInv /\ GateInv
    /\ \A r \in Runs : AcceptInv(r) /\ SendInv(r)
-----------------------------------------------------------------------------
(* What a step leaves alone.                                                 *)

LEMMA AcceptKept ==
    ASSUME IInv, UNCHANGED <<run, cited, cut, accepted, history>>
    PROVE  HistoryInv' /\ \A r \in Runs : AcceptInv(r)'
BY DEF IInv, HistoryInv, AcceptInv

LEMMA SendKept ==
    ASSUME IInv, UNCHANGED <<send, claim, receipt, inbox, calls>>
    PROVE  \A r \in Runs : SendInv(r)'
BY DEF IInv, SendInv

LEMMA GateKept ==
    ASSUME IInv, UNCHANGED <<send, handoffs>>
    PROVE  GateInv'
BY DEF IInv, GateInv, Sent

\* Fewer jobs, whose processes live, and no record changed.
LEMMA JobsKept ==
    ASSUME IInv, jobs' \subseteq jobs, opened \subseteq opened',
           \A j \in jobs' : j.by \notin crashed', UNCHANGED <<claim, inbox, calls>>
    PROVE  JobsInv'
<1>1. ASSUME NEW j \in jobs' PROVE j \in jobs /\ JobInv(j)
    BY DEF IInv, JobsInv
<1>2. ASSUME NEW j \in jobs' PROVE JobInv(j)'
    BY <1>1 DEF JobInv
<1>3. QED
    BY <1>1, <1>2 DEF IInv, JobsInv

\* The jobs that stand are between steps of processes that live.
LEMMA JobsLive ==
    ASSUME IInv
    PROVE  \A j \in jobs : j.by \in opened \ crashed /\ j.run \in Runs /\ j = Job(j.by, j.op, j.run)
BY DEF IInv, JobsInv, JobInv

\* A step that changes only jobs: fewer, or the one job k more.
LEMMA JobReplaced ==
    ASSUME IInv, NEW j \in jobs, NEW k, JobInv(k), k.op \in EmitOps => j.op \in EmitOps /\ k.run = j.run,
           jobs' \subseteq Drop(j) \cup {k},
           UNCHANGED <<opened, crashed, claim, inbox, calls>>
    PROVE  JobsInv'
<1>1. ASSUME NEW i \in jobs' PROVE JobInv(i)'
    <2>1. JobInv(i)
        BY DEF IInv, JobsInv, Drop
    <2>2. QED
        BY <2>1 DEF JobInv
<1>2. \A i \in Drop(j) : i \in jobs /\ (k.op \in EmitOps /\ i.op \in EmitOps => i.run # k.run)
    BY DEF IInv, JobsInv, Drop
<1>3. QED
    BY <1>1, <1>2 DEF IInv, JobsInv

LEMMA InitIInv == DeliveryAssumption /\ Init => IInv
<1> SUFFICES ASSUME DeliveryAssumption, Init PROVE IInv OBVIOUS
<1>1. TypeInv
    BY DEF Init, TypeInv, DeliveryAssumption
<1>2. JobsInv /\ GateInv
    BY DEF Init, JobsInv, GateInv, Sent
<1>3. HistoryInv
    BY DEF Init, HistoryInv, ToSet, IsInjective
<1>4. \A r \in Runs : AcceptInv(r) /\ SendInv(r)
    BY DEF Init, AcceptInv, SendInv, DeliveryAssumption
<1>5. QED
    BY <1>1, <1>2, <1>3, <1>4 DEF IInv

\* The current runtime is an open one.
LEMMA CurrentIsOpen ==
    ASSUME DeliveryAssumption, IInv, NEW p \in Runtimes, Current(p)
    PROVE  p \in opened \ crashed
BY DEF Current, IInv, TypeInv, DeliveryAssumption

\* One more text: the conversation stays free of repetitions.
LEMMA OneMoreEntry ==
    ASSUME NEW S, NEW h \in Seq(S), IsInjective(h), NEW r \in S, r \notin ToSet(h)
    PROVE  /\ Append(h, r) \in Seq(S) /\ IsInjective(Append(h, r))
           /\ ToSet(Append(h, r)) = ToSet(h) \cup {r}
<1>1. /\ DOMAIN Append(h, r) = 1..(Len(h) + 1) /\ DOMAIN h = 1..Len(h) /\ Len(h) \in Nat
      /\ Append(h, r)[Len(h) + 1] = r /\ Append(h, r) \in Seq(S)
      /\ \A i \in 1..Len(h) : Append(h, r)[i] = h[i]
    OBVIOUS
<1>2. ASSUME NEW x PROVE x \in ToSet(Append(h, r)) <=> x \in ToSet(h) \cup {r}
    <2>1. x \in ToSet(Append(h, r)) => x \in ToSet(h) \cup {r}
        BY <1>1 DEF ToSet
    <2>2. x \in ToSet(h) => x \in ToSet(Append(h, r))
        BY <1>1 DEF ToSet
    <2>3. r \in ToSet(Append(h, r))
        BY <1>1 DEF ToSet
    <2>4. QED
        BY <2>1, <2>2, <2>3
<1>3. \A i \in 1..Len(h) : h[i] # r
    BY <1>1 DEF ToSet
<1>4. ASSUME NEW i \in DOMAIN Append(h, r), NEW k \in DOMAIN Append(h, r),
             Append(h, r)[i] = Append(h, r)[k]
      PROVE  i = k
    <2>1. /\ i \in 1..Len(h) \/ i = Len(h) + 1
          /\ k \in 1..Len(h) \/ k = Len(h) + 1
        BY <1>1
    <2>2. QED
        BY <1>1, <1>3, <1>4, <2>1 DEF IsInjective
<1>5. QED
    BY <1>1, <1>2, <1>4 DEF IsInjective
-----------------------------------------------------------------------------
(* The steps.                                                                *)

LEMMA AcceptStep ==
    ASSUME DeliveryAssumption, IInv, NEW p \in Runtimes, NEW r \in Runs, accept_completion(p, r)
    PROVE  IInv'
<1>1. \A x \in Runs : /\ accepted'[x] = IF x = r THEN cut[r] ELSE accepted[x]
                      /\ run'[x] = IF x = r THEN "SUCCEEDED" ELSE run[x]
    BY DEF accept_completion, observation, IInv, TypeInv
<1>2. TypeInv'
    BY DEF IInv, TypeInv, accept_completion, gate, processes, effects, records
<1>3. JobsInv'
    BY JobsKept, JobsLive DEF accept_completion, processes, records
<1>4. GateInv' /\ \A x \in Runs : SendInv(x)'
    BY GateKept, SendKept DEF accept_completion, gate, records
<1>5. HistoryInv'
    <2>1. r \notin ToSet(history) /\ history \in Seq(Runs) /\ IsInjective(history)
        BY DEF accept_completion, IInv, HistoryInv
    <2>2. /\ history' \in Seq(Runs) /\ IsInjective(history')
          /\ ToSet(history') = ToSet(history) \cup {r}
        BY <2>1, OneMoreEntry DEF accept_completion, HistoryWith
    <2>3. {x \in Runs : run'[x] = "SUCCEEDED"} = {x \in Runs : run[x] = "SUCCEEDED"} \cup {r}
        BY <1>1
    <2>4. QED
        BY <2>2, <2>3 DEF IInv, HistoryInv
<1>6. ASSUME NEW x \in Runs PROVE AcceptInv(x)'
    <2>1. AcceptInv(x) /\ cut[x] \in 0..MaxCut /\ cut' = cut /\ cited' = cited
        BY DEF IInv, TypeInv, accept_completion, effects
    <2>2. x = r => cut[r] \in Nat /\ cut[r] # None /\ (cited[r] # None => cited[r] = cut[r])
        BY <2>1 DEF accept_completion, prepare_completion, DeliveryAssumption
    <2>3. QED
        BY <1>1, <2>1, <2>2 DEF AcceptInv
<1>7. QED
    BY <1>2, <1>3, <1>4, <1>5, <1>6 DEF IInv

LEMMA AbortStep ==
    ASSUME DeliveryAssumption, IInv, NEW p \in Runtimes, NEW r \in Runs, abort_execution(p, r)
    PROVE  IInv'
<1>1. /\ \A x \in Runs : run'[x] = IF x = r THEN "ABORTED" ELSE run[x]
      /\ run[r] = "PREPARED"
    BY DEF abort_execution, IInv, TypeInv
<1>2. TypeInv'
    BY DEF IInv, TypeInv, abort_execution, gate, processes, effects, records
<1>3. JobsInv'
    BY JobsKept, JobsLive DEF abort_execution, processes, records
<1>4. GateInv' /\ \A x \in Runs : SendInv(x)'
    BY GateKept, SendKept DEF abort_execution, gate, records
<1>5. HistoryInv'
    <2>1. {x \in Runs : run'[x] = "SUCCEEDED"} = {x \in Runs : run[x] = "SUCCEEDED"}
        BY <1>1
    <2>2. QED
        BY <2>1 DEF IInv, HistoryInv, abort_execution
<1>6. ASSUME NEW x \in Runs PROVE AcceptInv(x)'
    <2>1. AcceptInv(x) /\ UNCHANGED <<accepted, cut, cited>>
        BY DEF IInv, abort_execution, effects
    <2>2. QED
        BY <1>1, <2>1 DEF AcceptInv
<1>7. QED
    BY <1>2, <1>3, <1>4, <1>5, <1>6 DEF IInv

\* The send and its handoff are recorded together.
LEMMA CommitSendStep ==
    ASSUME DeliveryAssumption, IInv, NEW p \in Runtimes, NEW r \in Runs,
           NEW request \in DeliveryRequests(r), commit_delivery_send(p, r, request)
    PROVE  IInv'
<1>1. /\ \A x \in Runs : send'[x] = IF x = r THEN request ELSE send[x]
      /\ handoffs' = handoffs \cup {[request |-> request, payload |-> r]} /\ send[r] = None
    BY DEF commit_delivery_send, Crossed, crossed, IInv, TypeInv
<1>2. request # None
    BY DEF DeliveryAssumption
<1>3. TypeInv'
    BY DEF IInv, TypeInv, commit_delivery_send, processes, effects
<1>4. JobsInv'
    BY JobsKept, JobsLive DEF commit_delivery_send, processes
<1>5. HistoryInv' /\ \A x \in Runs : AcceptInv(x)'
    BY AcceptKept DEF commit_delivery_send, effects
<1>6. GateInv'
    <2>1. Sent' = Sent \cup {r} /\ \A x \in Sent : x \in Runs /\ send'[x] = send[x]
        BY <1>1, <1>2 DEF Sent
    <2>2. handoffs = {[request |-> send[x], payload |-> x] : x \in Sent}
        BY DEF IInv, GateInv
    <2>3. handoffs' = {[request |-> send'[x], payload |-> x] : x \in Sent'}
        BY <1>1, <2>1, <2>2
    <2>4. QED
        BY <2>3 DEF GateInv
<1>7. ASSUME NEW x \in Runs PROVE SendInv(x)'
    BY <1>1, <1>2 DEF IInv, SendInv, commit_delivery_send
<1>8. QED
    BY <1>3, <1>4, <1>5, <1>6, <1>7 DEF IInv

\* The claim: from here on exactly one job may call the provider for the Run.
LEMMA EmitDeliveryStep ==
    ASSUME DeliveryAssumption, IInv, NEW p \in Runtimes, NEW r \in Runs, emit_delivery(p, r)
    PROVE  IInv'
<1>0. PICK k : k = Job(p, "claimed", r)
    OBVIOUS
<1>p. p # None /\ p \in opened \ crashed
    BY CurrentIsOpen DEF emit_delivery, DeliveryAssumption
<1>a. claim[r] = None /\ calls[r] = 0
    BY DEF emit_delivery, Unclaimed, IInv, TypeInv, SendInv
<1>c. \A x \in Runs : claim'[x] = IF x = r THEN p ELSE claim[x]
    BY DEF emit_delivery, IInv, TypeInv
<1>1. TypeInv'
    BY <1>p DEF IInv, TypeInv, emit_delivery, gate, processes, effects
<1>2. HistoryInv' /\ (\A x \in Runs : AcceptInv(x)') /\ GateInv'
    BY AcceptKept, GateKept DEF emit_delivery, effects, gate
<1>3. ASSUME NEW x \in Runs PROVE SendInv(x)'
    <2>1. SendInv(x) /\ UNCHANGED <<send, receipt, inbox, calls>>
        BY DEF IInv, emit_delivery
    <2>2. QED
        BY <1>c, <1>p, <2>1 DEF SendInv
<1>4. JobsInv'
    <2>1. jobs' = jobs \cup {k} /\ UNCHANGED <<inbox, calls, opened, crashed>>
        BY <1>0 DEF emit_delivery, processes
    <2>2. ASSUME NEW i \in jobs
          PROVE  JobInv(i)' /\ (i.op \in EmitOps => i.run # r)
        <3>1. JobInv(i) /\ i.run \in Runs
            BY DEF IInv, JobsInv, JobInv
        <3>2. i.op \in EmitOps => i.run # r
            BY <1>a, <3>1 DEF JobInv
        <3>3. claim[i.run] # None => claim'[i.run] # None
            BY <1>c, <1>p, <3>1
        <3>4. QED
            BY <2>1, <3>1, <3>2, <3>3 DEF JobInv
    <2>3. JobInv(k)' /\ k.run = r
        BY <1>0, <1>a, <1>c, <1>p, <2>1 DEF JobInv, Job, EmitOps
    <2>4. QED
        BY <2>1, <2>2, <2>3 DEF IInv, JobsInv
<1>5. QED
    BY <1>1, <1>2, <1>3, <1>4 DEF IInv

LEMMA CheckWorkerStep ==
    ASSUME DeliveryAssumption, IInv, NEW j \in jobs, CheckWorker(j)
    PROVE  IInv'
<1>0. PICK k : k = [j EXCEPT !.op = "checked"]
    OBVIOUS
<1>1. JobInv(j) /\ j.op = "claimed"
    BY DEF IInv, JobsInv, CheckWorker
<1>2. JobInv(k) /\ k.op = "checked" /\ k.run = j.run
    BY <1>0, <1>1 DEF JobInv, Job, EmitOps
<1>3. jobs' \subseteq Drop(j) \cup {k}
    BY <1>0 DEF CheckWorker, Becomes
<1>4. JobsInv'
    BY <1>1, <1>2, <1>3, JobReplaced DEF CheckWorker, processes, records, EmitOps
<1>5. TypeInv'
    BY DEF IInv, TypeInv, CheckWorker, gate, processes, effects, records
<1>6. QED
    BY <1>4, <1>5, AcceptKept, SendKept, GateKept DEF IInv, CheckWorker, gate, effects, records

\* The provider call: the one job of the Run that could make it has made it.
LEMMA EmitStep ==
    ASSUME DeliveryAssumption, IInv, NEW j \in jobs, _emit(j)
    PROVE  IInv'
<1>0. PICK k : k = [j EXCEPT !.op = "linked"]
    OBVIOUS
<1>1. /\ JobInv(j) /\ j.op = "checked" /\ j.run \in Runs
      /\ claim[j.run] # None /\ calls[j.run] = 0 /\ inbox[j.run] = "absent"
    BY DEF IInv, JobsInv, JobInv, SendInv, EmitOps, _emit
<1>2. k.by = j.by /\ k.op = "linked" /\ k.run = j.run /\ k = Job(k.by, k.op, k.run)
    BY <1>0, <1>1 DEF JobInv, Job
<1>3. \A x \in Runs : /\ calls'[x] = IF x = j.run THEN 1 ELSE calls[x]
                      /\ inbox'[x] = IF x = j.run THEN "linked" ELSE inbox[x]
    <2>1. /\ calls' = [calls EXCEPT ![j.run] = calls[j.run] + 1] /\ DOMAIN calls = Runs
          /\ inbox' = [inbox EXCEPT ![j.run] = Linked(inbox[j.run])] /\ DOMAIN inbox = Runs
        BY DEF _emit, IInv, TypeInv
    <2>2. QED
        BY <1>1, <2>1 DEF Linked
<1>4. TypeInv'
    <2>1. calls' \in [Runs -> {0, 1}] /\ inbox' \in [Runs -> {"absent", "linked", "synced"}]
        <3>1. DOMAIN calls' = Runs /\ DOMAIN inbox' = Runs /\ calls' = [x \in Runs |-> calls'[x]]
              /\ inbox' = [x \in Runs |-> inbox'[x]]
            BY DEF _emit, IInv, TypeInv
        <3>2. QED
            BY <1>3, <3>1 DEF IInv, TypeInv
    <2>2. QED
        BY <2>1 DEF IInv, TypeInv, _emit, gate, processes, effects, records
<1>5. HistoryInv' /\ (\A x \in Runs : AcceptInv(x)') /\ GateInv'
    BY AcceptKept, GateKept DEF _emit, effects, gate, records
<1>6. ASSUME NEW x \in Runs PROVE SendInv(x)'
    <2>1. SendInv(x) /\ UNCHANGED <<send, receipt, claim>>
        BY DEF IInv, _emit, records
    <2>2. x = j.run => receipt[x] # "CONFIRMED"
        BY <1>1, <2>1 DEF SendInv
    <2>3. QED
        BY <1>1, <1>3, <2>1, <2>2 DEF SendInv
<1>7. JobsInv'
    <2>1. jobs' = Drop(j) \cup {k} /\ UNCHANGED <<claim, opened, crashed>>
        BY <1>0 DEF _emit, Becomes, processes, records
    <2>2. ASSUME NEW i \in Drop(j)
          PROVE  i \in jobs /\ JobInv(i)' /\ (i.op \in EmitOps => i.run # j.run)
        <3>1. JobInv(i) /\ i \in jobs /\ (i.op \in EmitOps => i.run # j.run)
            BY <1>1 DEF IInv, JobsInv, Drop, EmitOps
        <3>2. i.op \in {"linked", "received"} => i.run # j.run
            BY <1>1, <3>1 DEF JobInv
        <3>3. i.run # j.run /\ calls'[i.run] = calls[i.run] /\ inbox'[i.run] = inbox[i.run]
            BY <1>3, <3>1, <3>2 DEF JobInv, EmitOps
        <3>4. QED
            BY <2>1, <3>1, <3>3 DEF JobInv
    <2>3. JobInv(k)' /\ k.op \notin EmitOps
        BY <1>1, <1>2, <1>3, <2>1 DEF JobInv, EmitOps
    <2>4. QED
        BY <2>1, <2>2, <2>3 DEF IInv, JobsInv
<1>8. QED
    BY <1>4, <1>5, <1>6, <1>7 DEF IInv

\* Files become durable, and the jobs that stand keep what they rely on.
LEMMA SyncedKeeps ==
    ASSUME IInv, inbox' \in [Runs -> {"absent", "linked", "synced"}],
           \A x \in Runs : inbox'[x] = inbox[x] \/ (inbox[x] # "absent" /\ inbox'[x] = "synced"),
           UNCHANGED <<opened, crashed, claim, calls, receipt, send>>
    PROVE  /\ \A x \in Runs : SendInv(x)'
           /\ \A i \in jobs : JobInv(i)'
<1>1. ASSUME NEW x \in Runs PROVE SendInv(x)'
    <2>1. SendInv(x) /\ (inbox'[x] = inbox[x] \/ (inbox[x] # "absent" /\ inbox'[x] = "synced"))
        BY DEF IInv
    <2>2. QED
        BY <2>1 DEF SendInv
<1>2. ASSUME NEW i \in jobs PROVE JobInv(i)'
    <2>1. JobInv(i) /\ i.run \in Runs
        BY DEF IInv, JobsInv, JobInv
    <2>2. inbox'[i.run] = inbox[i.run] \/ (inbox[i.run] # "absent" /\ inbox'[i.run] = "synced")
        BY <2>1
    <2>3. QED
        BY <2>1, <2>2 DEF JobInv
<1>3. QED
    BY <1>1, <1>2

LEMMA SyncStep ==
    ASSUME DeliveryAssumption, IInv, NEW j \in jobs, _sync_directory(j)
    PROVE  IInv'
<1>0. PICK k : k = [j EXCEPT !.op = "received"]
    OBVIOUS
<1>1. JobInv(j) /\ j.op = "linked" /\ j.run \in Runs /\ inbox[j.run] # "absent"
    BY DEF IInv, JobsInv, JobInv, _sync_directory
<1>2. k.by = j.by /\ k.op = "received" /\ k.run = j.run /\ k = Job(k.by, k.op, k.run)
    BY <1>0, <1>1 DEF JobInv, Job
<1>3. /\ \A x \in Runs : inbox'[x] = IF x = j.run THEN "synced" ELSE inbox[x]
      /\ inbox' \in [Runs -> {"absent", "linked", "synced"}]
    BY DEF _sync_directory, IInv, TypeInv
<1>4. TypeInv'
    BY <1>3 DEF IInv, TypeInv, _sync_directory, gate, processes, effects, records
<1>5. HistoryInv' /\ (\A x \in Runs : AcceptInv(x)') /\ GateInv'
    BY AcceptKept, GateKept DEF _sync_directory, effects, gate, records
<1>6. (\A x \in Runs : SendInv(x)') /\ \A i \in jobs : JobInv(i)'
    BY <1>1, <1>3, SyncedKeeps DEF _sync_directory, processes, records
<1>7. JobsInv'
    <2>1. jobs' = Drop(j) \cup {k} /\ UNCHANGED <<claim, opened, crashed, calls>>
        BY <1>0 DEF _sync_directory, Becomes, processes, records
    <2>2. JobInv(k)' /\ k.op \notin EmitOps
        BY <1>1, <1>2, <1>3, <2>1 DEF JobInv, EmitOps
    <2>3. QED
        BY <1>6, <2>1, <2>2 DEF IInv, JobsInv, Drop
<1>8. QED
    BY <1>4, <1>5, <1>6, <1>7 DEF IInv

LEMMA ReconcileStep ==
    ASSUME DeliveryAssumption, IInv, NEW p \in Runtimes, NEW r \in Runs, reconcile_delivery(p, r)
    PROVE  IInv'
<1>0. PICK k : k = Job(p, "received", r)
    OBVIOUS
<1>3. /\ \A x \in Runs : inbox'[x] = IF inbox[x] = "absent" THEN "absent" ELSE "synced"
      /\ inbox' \in [Runs -> {"absent", "linked", "synced"}] /\ inbox'[r] = "synced"
    BY DEF reconcile_delivery, SelectedSynced
<1>4. TypeInv'
    BY <1>3 DEF IInv, TypeInv, reconcile_delivery, gate, processes, effects, records
<1>5. HistoryInv' /\ (\A x \in Runs : AcceptInv(x)') /\ GateInv'
    BY AcceptKept, GateKept DEF reconcile_delivery, effects, gate, records
<1>6. (\A x \in Runs : SendInv(x)') /\ \A i \in jobs : JobInv(i)'
    BY <1>3, SyncedKeeps DEF reconcile_delivery, processes, records
<1>7. JobsInv'
    <2>1. jobs' = jobs \cup {k} /\ UNCHANGED <<claim, opened, crashed, calls>>
        BY <1>0 DEF reconcile_delivery, processes, records
    <2>2. p \in opened \ crashed
        BY CurrentIsOpen DEF reconcile_delivery
    <2>3. JobInv(k)' /\ k.op \notin EmitOps
        BY <1>0, <1>3, <2>1, <2>2 DEF JobInv, Job, EmitOps
    <2>4. QED
        BY <1>6, <2>1, <2>3 DEF IInv, JobsInv
<1>8. QED
    BY <1>4, <1>5, <1>6, <1>7 DEF IInv

LEMMA RetainStep ==
    ASSUME DeliveryAssumption, IInv, NEW j \in jobs, retain_delivery_receipt(j)
    PROVE  IInv'
<1>1. JobInv(j) /\ j.run \in Runs /\ inbox[j.run] = "synced" /\ send[j.run] # None
    BY DEF IInv, JobsInv, JobInv, retain_delivery_receipt
<1>2. \A x \in Runs : receipt'[x] = IF x = j.run THEN "CONFIRMED" ELSE receipt[x]
    BY DEF retain_delivery_receipt, IInv, TypeInv
<1>3. TypeInv'
    BY DEF IInv, TypeInv, retain_delivery_receipt, gate, processes, effects
<1>4. HistoryInv' /\ (\A x \in Runs : AcceptInv(x)') /\ GateInv'
    BY AcceptKept, GateKept DEF retain_delivery_receipt, effects, gate
<1>5. JobsInv'
    BY JobsKept, JobsLive DEF retain_delivery_receipt, Drop, processes
<1>6. ASSUME NEW x \in Runs PROVE SendInv(x)'
    <2>1. SendInv(x) /\ UNCHANGED <<send, inbox, claim, calls>>
        BY DEF IInv, retain_delivery_receipt
    <2>2. QED
        BY <1>1, <1>2, <2>1 DEF SendInv
<1>7. QED
    BY <1>3, <1>4, <1>5, <1>6 DEF IInv

LEMMA RefuseStep ==
    ASSUME DeliveryAssumption, IInv, NEW j \in jobs, Refuse(j)
    PROVE  IInv'
<1>1. TypeInv'
    BY DEF IInv, TypeInv, Refuse, gate, processes, effects, records
<1>2. JobsInv'
    BY JobsKept, JobsLive DEF Refuse, Drop, processes, records
<1>3. QED
    BY <1>1, <1>2, AcceptKept, SendKept, GateKept DEF IInv, Refuse, gate, effects, records

\* Evidence moves: an acceptance stays below it.
LEMMA ReceiptStep ==
    ASSUME DeliveryAssumption, IInv, NEW p \in Runtimes, NEW r \in Runs, append_effect_receipt(p, r)
    PROVE  IInv'
<1>1. \A x \in Runs : cut[x] \in 0..MaxCut /\ cut'[x] = IF x = r THEN cut[x] + 1 ELSE cut[x]
    BY DEF append_effect_receipt, IInv, TypeInv
<1>2. TypeInv'
    <2>1. cut' \in [Runs -> 0..MaxCut]
        <3>1. cut' = [x \in Runs |-> cut'[x]] /\ cut[r] < MaxCut
            BY DEF append_effect_receipt, IInv, TypeInv
        <3>2. \A x \in Runs : cut'[x] \in 0..MaxCut
            BY <1>1, <3>1 DEF DeliveryAssumption
        <3>3. QED
            BY <3>1, <3>2
    <2>2. QED
        BY <2>1 DEF IInv, TypeInv, append_effect_receipt, gate, processes, records
<1>3. JobsInv'
    BY JobsKept, JobsLive DEF append_effect_receipt, processes, records
<1>4. GateInv' /\ \A x \in Runs : SendInv(x)'
    BY GateKept, SendKept DEF append_effect_receipt, gate, records
<1>5. HistoryInv'
    BY DEF IInv, HistoryInv, append_effect_receipt
<1>6. ASSUME NEW x \in Runs PROVE AcceptInv(x)'
    <2>1. AcceptInv(x) /\ UNCHANGED <<run, accepted, cited>>
        BY DEF IInv, append_effect_receipt
    <2>2. accepted[x] \in Nat /\ accepted[x] <= cut[x] => accepted[x] <= cut'[x]
        BY <1>1 DEF DeliveryAssumption
    <2>3. QED
        BY <2>1, <2>2 DEF AcceptInv
<1>7. QED
    BY <1>2, <1>3, <1>4, <1>5, <1>6 DEF IInv

\* A process opens, and takes over, or ends with its jobs.
LEMMA ProcessStep ==
    ASSUME DeliveryAssumption, IInv, NEW p \in Runtimes, open(p) \/ Crash(p)
    PROVE  IInv'
<1>1. TypeInv'
    BY DEF IInv, TypeInv, open, Crash, gate, effects, records
<1>2. jobs' \subseteq jobs /\ opened \subseteq opened' /\ \A j \in jobs' : j.by \notin crashed'
    BY JobsLive DEF open, Crash
<1>3. JobsInv'
    BY <1>2, JobsKept DEF open, Crash, records
<1>4. QED
    BY <1>1, <1>3, AcceptKept, SendKept, GateKept DEF IInv, open, Crash, gate, effects, records

\* Power fails: no process is left, and what was synced stays.
LEMMA PowerLossStep ==
    ASSUME DeliveryAssumption, IInv, PowerLoss
    PROVE  IInv'
<1>1. PICK lost \in SUBSET {r \in Runs : inbox[r] = "linked"} :
         inbox' = [r \in Runs |-> IF r \in lost THEN "absent" ELSE inbox[r]]
    BY DEF PowerLoss
<1>2. TypeInv'
    BY <1>1 DEF IInv, TypeInv, PowerLoss, gate, effects, records
<1>3. JobsInv'
    BY DEF JobsInv, PowerLoss
<1>4. HistoryInv' /\ (\A x \in Runs : AcceptInv(x)') /\ GateInv'
    BY AcceptKept, GateKept DEF PowerLoss, effects, gate, records
<1>5. ASSUME NEW x \in Runs PROVE SendInv(x)'
    <2>1. SendInv(x) /\ UNCHANGED <<send, receipt, claim, calls>>
        BY DEF IInv, PowerLoss, records
    <2>2. inbox'[x] = inbox[x] \/ (inbox[x] = "linked" /\ inbox'[x] = "absent")
        BY <1>1
    <2>3. QED
        BY <2>1, <2>2 DEF SendInv
<1>6. QED
    BY <1>2, <1>3, <1>4, <1>5 DEF IInv

\* Time passes, or an operator imports an entitlement.
LEMMA OutsideStep ==
    ASSUME DeliveryAssumption, IInv, Tick \/ \E e \in Entitlements : import_entitlement(e)
    PROVE  IInv'
<1>1. now' \in 0..MaxTime /\ current' \in Entitlements \cup {NoEntitlement}
    <2>1. now \in 0..MaxTime /\ current \in Entitlements \cup {NoEntitlement} /\ MaxTime \in Nat
        BY DEF IInv, TypeInv, DeliveryAssumption
    <2>2. CASE Tick
        BY <2>1, <2>2 DEF Tick
    <2>3. CASE \E e \in Entitlements : import_entitlement(e)
        BY <2>1, <2>3 DEF import_entitlement
    <2>4. QED
        BY <2>2, <2>3
<1>2. UNCHANGED <<handoffs, processes, run, effects, accepted, history, records, inbox, calls, jobs>>
    BY DEF Tick, import_entitlement
<1>3. TypeInv'
    BY <1>1, <1>2 DEF IInv, TypeInv, processes, effects, records
<1>4. JobsInv'
    BY <1>2, JobsKept, JobsLive DEF processes, records
<1>5. QED
    BY <1>2, <1>3, <1>4, AcceptKept, SendKept, GateKept DEF IInv, effects, records

LEMMA NextIInv == DeliveryAssumption /\ IInv /\ [Next]_vars => IInv'
<1> SUFFICES ASSUME DeliveryAssumption, IInv, [Next]_vars PROVE IInv' OBVIOUS
<1>1. CASE UNCHANGED vars
    <2>1. TypeInv'
        BY <1>1 DEF IInv, TypeInv, vars, gate, processes, effects, records
    <2>2. JobsInv'
        BY <1>1, JobsKept, JobsLive DEF vars, processes, records
    <2>3. QED
        BY <1>1, <2>1, <2>2, AcceptKept, SendKept, GateKept DEF IInv, vars, gate, effects, records
<1>2. ASSUME NEW p \in Runtimes, NEW r \in Runs, Client(p, r) PROVE IInv'
    BY <1>2, AcceptStep, AbortStep, CommitSendStep, EmitDeliveryStep, ReconcileStep, ReceiptStep
       DEF Client
<1>3. ASSUME NEW j \in jobs, JobStep(j) PROVE IInv'
    BY <1>3, CheckWorkerStep, EmitStep, SyncStep, RetainStep, RefuseStep DEF JobStep
<1>4. QED
    BY <1>1, <1>2, <1>3, ProcessStep, PowerLossStep, OutsideStep DEF Next
-----------------------------------------------------------------------------
\* The invariant implies the invariants that the runs check.
LEMMA IInvImplies ==
    ASSUME DeliveryAssumption, IInv
    PROVE  DeliveredOnce
<1>1. TypeOK
    <2>1. \A r \in Runs : accepted[r] # None => accepted[r] <= cut[r]
        BY DEF IInv, AcceptInv
    <2>2. QED
        BY <2>1, JobsLive DEF IInv, TypeInv, TypeOK
<1>2. SucceededIffAccepted /\ AcceptedAsCited
    BY DEF IInv, HistoryInv, AcceptInv, SucceededIffAccepted, AcceptedAsCited
<1>3. ConfirmedIsDurable
    BY DEF IInv, SendInv, ConfirmedIsDurable
<1>4. EmittedAtMostOnce
    <2>1. ASSUME NEW r \in Runs
          PROVE  calls[r] <= 1 /\ (inbox[r] # "absent" => calls[r] = 1 /\ claim[r] # None)
        <3>1. /\ calls[r] = 0 \/ calls[r] = 1
              /\ inbox[r] # "absent" => calls[r] = 1 /\ claim[r] # None
            BY DEF IInv, TypeInv, SendInv
        <3>2. QED
            BY <3>1
    <2>2. QED
        BY <2>1 DEF EmittedAtMostOnce
<1>5. HandoffIffSend
    BY DEF IInv, GateInv, Sent, HandoffIffSend
<1>6. QED
    BY <1>1, <1>2, <1>3, <1>4, <1>5 DEF DeliveredOnce

\* Only emit_delivery claims, and it revalidates first.
LEMMA ClaimsRevalidate ==
    ASSUME IInv, [Next]_vars PROVE StaleTextIsNeverDelivered
<1> SUFFICES ASSUME NEW x \in Runs, claim[x] = None, claim'[x] # None PROVE accepted[x] = cut[x]
    BY DEF StaleTextIsNeverDelivered
<1>1. ASSUME NEW p \in Runtimes, NEW r \in Runs, Client(p, r) PROVE accepted[x] = cut[x]
    <2>1. emit_delivery(p, r)
        BY <1>1 DEF Client, accept_completion, abort_execution, commit_delivery_send,
           reconcile_delivery, append_effect_receipt, records
    <2>2. r = x
        BY <2>1 DEF emit_delivery, IInv, TypeInv
    <2>3. QED
        BY <2>1, <2>2 DEF emit_delivery, revalidate
<1>2. ASSUME NEW j \in jobs, JobStep(j) PROVE FALSE
    BY <1>2 DEF JobStep, CheckWorker, _emit, _sync_directory, retain_delivery_receipt, Refuse, records
<1>3. QED
    BY <1>1, <1>2 DEF Next, open, Crash, PowerLoss, Tick, import_entitlement, vars, records

\* For any number of runtimes and Runs: a completed Run is accepted once, from the
\* evidence its text cites, and delivered at most once, its confirmation survives
\* a loss of power, every send has its handoff and a text whose evidence has moved
\* is never claimed (accept_completion, commit_delivery_send, emit_delivery,
\* reconcile_delivery, retain_delivery_receipt).
THEOREM DeliveryStaysExact == DeliveryAssumption /\ Spec => DeliveryIsExact
<1> SUFFICES ASSUME DeliveryAssumption PROVE Spec => DeliveryIsExact OBVIOUS
<1>1. Init => IInv BY InitIInv
<1>2. IInv /\ [Next]_vars => IInv' BY NextIInv
<1>3. IInv => DeliveredOnce BY IInvImplies
<1>4. IInv /\ [Next]_vars => StaleTextIsNeverDelivered BY ClaimsRevalidate
<1>5. QED BY <1>1, <1>2, <1>3, <1>4, PTL DEF Spec, DeliveryIsExact
=============================================================================
