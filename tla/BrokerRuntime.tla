---------------------------- MODULE BrokerRuntime ----------------------------
(***************************************************************************)
(* The R7 broker runtime: threads that call an isolated owner process over *)
(* one authenticated connection per generation, the authority gate some of *)
(* them hold while they do, and the supervisor that replaces generations.  *)
(*                                                                         *)
(* platform/r7_runtime (AuthorityBrokerRuntime), platform/authority_gate   *)
(* and composition/r7_supervisor.  One owner stands for all of them: each  *)
(* has its own connection, lock and process.  A frame is the identity of   *)
(* the call that sent it; the owner answers in order.                      *)
(***************************************************************************)
EXTENDS Naturals, Sequences, FiniteSets, FiniteSetTheorems, TLAPS

CONSTANTS Threads, Supervisor, None,
          MaxCalls,        \* bound: calls per thread
          MaxGenerations,  \* bound: generations the supervisor starts
          MaxFaults        \* bound: failed starts, owner deaths, foreign epochs, drain timeouts

Actors == Threads \cup {Supervisor}
Generations == 1..MaxGenerations

\* plain: no gate.  terminal: the gate covers the guard and the send.  writer:
\* a call made while the thread holds the gate.  nested: both.
Kinds == {"plain", "terminal", "writer", "nested"}
Outer(kind) == kind \in {"writer", "nested"}
Inner(kind) == kind \in {"terminal", "nested"}

VARIABLES gate,        \* [owner, depth] of the authority gate
          call,        \* each actor's call: [pc, kind, gen, id]
          calls,       \* calls each actor has begun
          rt,          \* per generation: the AuthorityBrokerRuntime
          sup,         \* the supervisor: [pc, gen, transition, reply]
          current,     \* the admitted generation, or 0
          quarantine,  \* the generation open to the trust owner only, or 0
          retiring,    \* generations detached and not yet closed
          epoch,       \* the ledger's epoch, and the generation that owns it
          transition,
          faults

vars == <<gate, call, calls, rt, sup, current, quarantine, retiring, epoch,
          transition, faults>>
lifecycle == <<sup, current, quarantine, retiring, epoch, transition>>

Idle == [pc |-> "idle", kind |-> None, gen |-> 0, id |-> None, reply |-> None]
Unstarted == [state |-> "none", draining |-> FALSE, inflight |-> 0, lock |-> None,
              requests |-> <<>>, replies |-> <<>>, alive |-> FALSE, epoch |-> 0]

Init ==
  /\ gate = [owner |-> None, depth |-> 0]
  /\ call = [a \in Actors |-> Idle] /\ calls = [a \in Actors |-> 0]
  /\ rt = [g \in Generations |-> Unstarted]
  /\ sup = [pc |-> "idle", gen |-> 0, transition |-> 0]
  /\ current = 0 /\ quarantine = 0 /\ retiring = {} /\ epoch = 0
  /\ transition = 0 /\ faults = 0

-----------------------------------------------------------------------------
(* The authority gate: a re-entrant lock of one thread across processes.   *)

CanHold(a) == gate.owner \in {None, a}
Held(a) == [owner |-> a, depth |-> gate.depth + 1]
Released == IF gate.depth = 1 THEN [owner |-> None, depth |-> 0]
            ELSE [gate EXCEPT !.depth = @ - 1]

-----------------------------------------------------------------------------
(* One call.                                                               *)

At(a, pc) == call[a].pc = pc
Goto(a, pc) == call' = [call EXCEPT ![a].pc = pc]
Gen(a) == call[a].gen

IsCurrent(g) == g # 0 /\ rt[g].epoch = epoch

Take(t, kind, g) ==
  /\ At(t, "idle") /\ calls[t] < MaxCalls /\ CanHold(t) /\ IsCurrent(g)
  /\ calls' = [calls EXCEPT ![t] = @ + 1]
  /\ call' = [call EXCEPT ![t] = [pc |-> IF Outer(kind) THEN "outer" ELSE "enter",
                kind |-> kind, gen |-> g, id |-> <<t, calls[t]>>, reply |-> None]]
  /\ UNCHANGED <<gate, rt, lifecycle, faults>>

\* runtime(): under the gate, the admitted generation of the current epoch.
TakeRuntime(t) == \E kind \in Kinds : Take(t, kind, current)
\* call_quarantined_trust: the same for the quarantined one, called plainly.
TakeQuarantined(t) == Take(t, "plain", quarantine)

HoldOuter(t) ==
  /\ At(t, "outer") /\ CanHold(t)
  /\ gate' = Held(t) /\ Goto(t, "enter")
  /\ UNCHANGED <<calls, rt, lifecycle, faults>>

\* A draining generation admits nothing.  Of the calls it admits, one that is
\* stale, late or not manifested is rejected before it takes the connection, and
\* is then no longer counted.
Enter(a) ==
  /\ At(a, "enter")
  /\ \/ Goto(a, "done") /\ UNCHANGED rt
     \/ /\ ~rt[Gen(a)].draining
        /\ Goto(a, IF Inner(call[a].kind) THEN "inner" ELSE "lock")
        /\ rt' = [rt EXCEPT ![Gen(a)].inflight = @ + 1]
  /\ UNCHANGED <<gate, calls, lifecycle, faults>>

\* Mutant: a terminal call takes the connection and then the gate.
HoldInnerLast(a) ==
  /\ At(a, "inner")
  /\ \/ rt[Gen(a)].lock = None /\ rt' = [rt EXCEPT ![Gen(a)].lock = a] /\ UNCHANGED <<gate, call>>
     \/ rt[Gen(a)].lock = a /\ CanHold(a) /\ gate' = Held(a) /\ Goto(a, "send") /\ UNCHANGED rt
  /\ UNCHANGED <<calls, lifecycle, faults>>
\* The terminal path acquires the gate and then the connection lock.
HoldInner(a) ==
  /\ At(a, "inner") /\ CanHold(a)
  /\ gate' = Held(a) /\ Goto(a, "lock")
  /\ UNCHANGED <<calls, rt, lifecycle, faults>>

Lock(a) ==
  /\ At(a, "lock") /\ rt[Gen(a)].lock = None
  /\ rt' = [rt EXCEPT ![Gen(a)].lock = a] /\ Goto(a, "send")
  /\ UNCHANGED <<gate, calls, lifecycle, faults>>

\* Mutant: the connection is free again once the frame is on it.
SentUnlocked(a) == [rt EXCEPT ![Gen(a)].requests = Append(@, call[a].id),
                              ![Gen(a)].lock = None]
Sent(a) == [rt EXCEPT ![Gen(a)].requests = Append(@, call[a].id)]

\* The frame is sent, or the deadline passed or the guard refused and nothing
\* is; either way the inner gate scope ends here.
Send(a) ==
  /\ At(a, "send")
  /\ gate' = IF Inner(call[a].kind) THEN Released ELSE gate
  /\ \/ rt' = Sent(a) /\ Goto(a, "receive")
     \/ a \in Threads /\ Goto(a, "unlock") /\ UNCHANGED rt
  /\ UNCHANGED <<calls, lifecycle, faults>>

Receive(a) ==
  /\ At(a, "receive")
  /\ LET replies == rt[Gen(a)].replies
     IN \/ /\ replies # <<>>
           /\ rt' = [rt EXCEPT ![Gen(a)].replies = Tail(@)]
           /\ call' = [call EXCEPT ![a].pc = "unlock", ![a].reply = Head(replies)]
        \/ replies = <<>> /\ ~rt[Gen(a)].alive /\ Goto(a, "unlock") /\ UNCHANGED rt
  /\ UNCHANGED <<gate, calls, lifecycle, faults>>

Unlock(a) ==
  /\ At(a, "unlock")
  /\ rt' = [rt EXCEPT ![Gen(a)].lock = None, ![Gen(a)].inflight = @ - 1]
  /\ Goto(a, "done")
  /\ UNCHANGED <<gate, calls, lifecycle, faults>>

Done(a) ==
  /\ At(a, "done") /\ a \in Threads
  /\ gate' = IF Outer(call[a].kind) THEN Released ELSE gate
  /\ call' = [call EXCEPT ![a] = Idle]
  /\ UNCHANGED <<calls, rt, lifecycle, faults>>

Call(a) == HoldOuter(a) \/ Enter(a) \/ HoldInner(a) \/ Lock(a) \/ Send(a)
           \/ Receive(a) \/ Unlock(a) \/ Done(a)

\* The owner process serves its connection one frame at a time.
Owner(g) ==
  /\ rt[g].alive /\ rt[g].requests # <<>>
  /\ rt' = [rt EXCEPT ![g].replies = Append(@, Head(rt[g].requests)),
                      ![g].requests = Tail(@)]
  /\ UNCHANGED <<gate, call, calls, lifecycle, faults>>

-----------------------------------------------------------------------------
(* The supervisor, under its lifecycle lock.                               *)

Detached == retiring \cup ({current, quarantine} \ {0})
Detach == retiring' = Detached /\ current' = 0 /\ quarantine' = 0

\* Under the gate: a new transition, the old generation detached, a new epoch.
BeginStart ==
  /\ sup.pc = "idle" /\ sup.gen < MaxGenerations /\ CanHold(Supervisor)
  /\ transition' = transition + 1 /\ epoch' = epoch + 1
  /\ Detach
  /\ sup' = [pc |-> "retire", gen |-> sup.gen + 1, transition |-> transition + 1]
  /\ rt' = [rt EXCEPT ![sup.gen + 1].epoch = epoch + 1]
  /\ UNCHANGED <<gate, call, calls, faults>>

\* close(): first nothing new is admitted ...
Drain(g) ==
  /\ sup.pc \in {"retire", "closing"} /\ g \in retiring /\ ~rt[g].draining
  /\ rt' = [rt EXCEPT ![g].draining = TRUE]
  /\ UNCHANGED <<gate, call, calls, lifecycle, faults>>

Quiet(g) == rt[g].draining /\ rt[g].inflight = 0

\* ... then, once every admitted call has returned, the owner is shut down.
Retire(g) ==
  /\ sup.pc \in {"retire", "closing"} /\ g \in retiring /\ Quiet(g)
  /\ rt' = [rt EXCEPT ![g].state = "closed", ![g].alive = FALSE]
  /\ retiring' = retiring \ {g}
  /\ UNCHANGED <<gate, call, calls, sup, current, quarantine, epoch, transition, faults>>

\* The drain bound expires: the generation stays reachable, and a failed start
\* tries the cleanup once more before it raises.
DrainTimesOut ==
  /\ sup.pc \in {"retire", "closing"} /\ faults < MaxFaults /\ faults' = faults + 1
  /\ \E g \in retiring : rt[g].draining /\ rt[g].inflight > 0
  /\ sup' = [sup EXCEPT !.pc = IF sup.pc = "retire" THEN "closing" ELSE "idle"]
  /\ UNCHANGED <<gate, call, calls, rt, current, quarantine, retiring, epoch, transition>>

\* start(): the owner process accepts its one connection and is attested.  An
\* admission asks it to authenticate the runtime; a quarantine does not.
Spawn(next) ==
  /\ sup.pc = "retire" /\ retiring = {}
  /\ rt' = [rt EXCEPT ![sup.gen].state = "started", ![sup.gen].alive = TRUE]
  /\ sup' = [sup EXCEPT !.pc = next]
  /\ call' = IF next = "quarantine" THEN call ELSE [call EXCEPT ![Supervisor] =
       [pc |-> "enter", kind |-> "plain", gen |-> sup.gen,
        id |-> <<Supervisor, sup.gen>>, reply |-> None]]
  /\ UNCHANGED <<gate, calls, current, quarantine, retiring, epoch, transition, faults>>

NotSuperseded == transition = sup.transition /\ rt[sup.gen].epoch = epoch

Rejected == sup' = [sup EXCEPT !.pc = "closing"] /\ retiring' = retiring \cup {sup.gen}
Published == sup' = [sup EXCEPT !.pc = "idle"] /\ UNCHANGED retiring

\* The owner process does not become ready or is not the attested one: what was
\* started of the generation is retired.
SpawnFails ==
  /\ sup.pc = "retire" /\ retiring = {} /\ faults < MaxFaults /\ faults' = faults + 1
  /\ rt' = [rt EXCEPT ![sup.gen].state = "started"]
  /\ Rejected
  /\ UNCHANGED <<gate, call, calls, current, quarantine, epoch, transition>>

\* The trust owner has answered: admit under the gate if nothing superseded
\* this start, otherwise retire the new generation.
Admit ==
  /\ sup.pc = "admission" /\ At(Supervisor, "done") /\ CanHold(Supervisor)
  /\ call' = [call EXCEPT ![Supervisor] = Idle]
  /\ IF NotSuperseded /\ call[Supervisor].reply # None
     THEN current' = sup.gen /\ Published
     ELSE UNCHANGED current /\ Rejected
  /\ UNCHANGED <<gate, calls, rt, quarantine, epoch, transition, faults>>

Quarantine ==
  /\ sup.pc = "quarantine" /\ CanHold(Supervisor)
  /\ IF NotSuperseded THEN quarantine' = sup.gen /\ Published
     ELSE UNCHANGED quarantine /\ Rejected
  /\ UNCHANGED <<gate, call, calls, rt, current, epoch, transition, faults>>

Close ==
  /\ sup.pc = "idle" /\ sup.gen > 0 /\ CanHold(Supervisor) /\ Detached # {}
  /\ transition' = transition + 1 /\ Detach
  /\ sup' = [sup EXCEPT !.pc = "closing"]
  /\ UNCHANGED <<gate, call, calls, rt, epoch, faults>>

FinishClose ==
  /\ sup.pc = "closing" /\ retiring = {}
  /\ sup' = [sup EXCEPT !.pc = "idle"]
  /\ UNCHANGED <<gate, call, calls, rt, current, quarantine, retiring, epoch, transition, faults>>

-----------------------------------------------------------------------------
\* What it had written may still be read, or be lost with the connection.
OwnerDies(g) ==
  /\ rt[g].alive /\ faults < MaxFaults /\ faults' = faults + 1
  /\ \E kept \in {<<>>, rt[g].replies} :
       rt' = [rt EXCEPT ![g].alive = FALSE, ![g].requests = <<>>, ![g].replies = kept]
  /\ UNCHANGED <<gate, call, calls, lifecycle>>

\* Another broker process allocates the next epoch, under the gate.
ForeignEpoch ==
  /\ gate.owner = None /\ faults < MaxFaults /\ faults' = faults + 1
  /\ epoch' = epoch + 1
  /\ UNCHANGED <<gate, call, calls, rt, sup, current, quarantine, retiring, transition>>

\* The gate's lock file is replaced while a terminal call is sending: leaving
\* the scope raises after the frame is on the connection.
GateScopeFails(t) ==
  /\ At(t, "send") /\ Inner(call[t].kind) /\ faults < MaxFaults /\ faults' = faults + 1
  /\ gate' = Released
  /\ rt' = Sent(t) /\ Goto(t, "unlock")
  /\ UNCHANGED <<calls, lifecycle>>

Supervise == BeginStart \/ Spawn("admission") \/ Spawn("quarantine") \/ Admit \/ Quarantine \/ Close \/ FinishClose
             \/ \E g \in Generations : Drain(g) \/ Retire(g)

Next ==
  \/ Supervise \/ SpawnFails \/ DrainTimesOut \/ ForeignEpoch
  \/ \E t \in Threads : TakeRuntime(t) \/ TakeQuarantined(t)
  \/ \E a \in Actors : Call(a)
  \/ \E g \in Generations : Owner(g) \/ OwnerDies(g)

\* Threads are scheduled, a lock that stays free is granted,
\* and the owner process answers or dies.
Spec == Init /\ [][Next]_vars
FairSpec ==
  /\ Spec
  /\ \A a \in Actors : WF_vars(Call(a))
  /\ \A g \in Generations : WF_vars(Owner(g))
  /\ WF_vars(Supervise)
SpecWithReplacement ==
  Init /\ [][Next \/ \E t \in Threads : GateScopeFails(t)]_vars

-----------------------------------------------------------------------------
\* A caller is answered with the reply to its own request: replies carry no
\* request identity, so the connection lock alone pairs them, whichever of the
\* four paths a call takes and whatever the supervisor retires meanwhile.
ReplyIsForTheRequest ==
  \A a \in Actors : call[a].reply # None => call[a].reply = call[a].id

\* The connection of a generation is closed only after the last call it admitted
\* has returned, and it is never used again.
RetiredIsQuiet ==
  \A g \in Generations : rt[g].state = "closed" =>
    \A a \in Actors : Gen(a) = g => call[a].pc \in {"idle", "outer", "enter", "done"}

RepliesArePaired == ReplyIsForTheRequest /\ RetiredIsQuiet

\* Every call returns and the gate it holds is given back: gate before
\* connection, on every path, leaves no two threads waiting on each other.
CallsReturn == \A t \in Threads : call[t].pc # "idle" ~> call[t].pc = "idle"

-----------------------------------------------------------------------------
(* What the constants have to be: finitely many threads, and a supervisor  *)
(* and an absent value that are none of them.                              *)
RuntimeAssumption ==
  /\ IsFiniteSet(Threads) /\ Supervisor \notin Threads
  /\ None \notin Actors /\ None \notin Actors \X Nat
  /\ MaxCalls \in Nat /\ MaxGenerations \in Nat /\ MaxFaults \in Nat

Ids == Actors \X Nat
\* A call that its generation has admitted, and one that has the connection.
Admitted == {"inner", "lock", "send", "receive", "unlock"}
Connected == {"send", "receive", "unlock"}
Pcs == {"idle", "outer", "enter", "done"} \cup Admitted

CallRecord == [pc : Pcs, kind : Kinds \cup {None}, gen : 0..MaxGenerations,
               id : Ids \cup {None}, reply : Ids \cup {None}]
RtRecord == [state : {"none", "started", "closed"}, draining : BOOLEAN, inflight : Nat,
             lock : Actors \cup {None}, requests : Seq(Ids), replies : Seq(Ids),
             alive : BOOLEAN, epoch : Nat]
SupRecord == [pc : {"idle", "retire", "admission", "quarantine", "closing"},
              gen : 0..MaxGenerations, transition : Nat]

TypeInv ==
  /\ call \in [Actors -> CallRecord] /\ calls \in [Actors -> Nat]
  /\ rt \in [Generations -> RtRecord] /\ sup \in SupRecord
  /\ current \in 0..MaxGenerations /\ quarantine \in 0..MaxGenerations
  /\ retiring \subseteq Generations /\ epoch \in Nat /\ transition \in Nat

\* The calls a generation has admitted and that have not returned.
Calling(g) == {a \in Actors : call[a].gen = g /\ call[a].pc \in Admitted}

\* What is on a connection whose lock is with a call at pc that sent id: while
\* the owner lives, that one frame or its answer and nothing else.
Paired(conn, pc, id) ==
  /\ conn.alive /\ pc # "receive" => conn.requests = <<>> /\ conn.replies = <<>>
  /\ conn.alive /\ pc = "receive" => \/ conn.requests = <<id>> /\ conn.replies = <<>>
                                     \/ conn.requests = <<>> /\ conn.replies = <<id>>
  /\ ~conn.alive => conn.replies = <<>> \/ (pc = "receive" /\ conn.replies = <<id>>)

ActorInv(a) ==
  /\ call[a].pc # "idle" => /\ call[a].gen \in Generations /\ call[a].id \in Ids
                            /\ rt[call[a].gen].state # "none"
  /\ call[a].reply # None => call[a].reply = call[a].id
  /\ call[a].pc \in Connected => rt[call[a].gen].lock = a

ConnInv(g, conn) ==
  /\ \A a \in Actors : conn.lock = a => /\ call[a].gen = g /\ call[a].pc \in Connected
                                        /\ Paired(conn, call[a].pc, call[a].id)
  /\ conn.lock = None => Paired(conn, "idle", None)
  /\ conn.inflight = Cardinality(Calling(g))
  /\ conn.state = "closed" => conn.draining /\ Calling(g) = {}
  /\ conn.state = "none" => /\ conn.lock = None
                            /\ conn.requests = <<>> /\ conn.replies = <<>>
  /\ conn.alive => conn.state = "started"

LifeInv ==
  /\ current # 0 => rt[current].state # "none"
  /\ quarantine # 0 => rt[quarantine].state # "none"
  /\ \A g \in retiring : rt[g].state # "none"
  /\ \A g \in Generations : g > sup.gen => rt[g].state = "none"
  /\ sup.pc = "retire" => sup.gen \in Generations /\ rt[sup.gen].state = "none"
  /\ sup.pc \in {"admission", "quarantine"} =>
       sup.gen \in Generations /\ rt[sup.gen].state # "none"
  /\ call[Supervisor].pc # "idle" => sup.pc = "admission"

\* The inductive invariant.
IInv ==
  /\ TypeInv /\ LifeInv
  /\ \A a \in Actors : ActorInv(a)
  /\ \A g \in Generations : ConnInv(g, rt[g])

-----------------------------------------------------------------------------
(* A step that changes one call, and one that changes one connection.      *)

SetsCall(a, new) ==
  /\ call' \in [Actors -> CallRecord] /\ call'[a] = new
  /\ \A b \in Actors : b # a => call'[b] = call[b]
SetsRt(g, conn) ==
  /\ rt' \in [Generations -> RtRecord] /\ rt'[g] = conn
  /\ \A h \in Generations : h # g => rt'[h] = rt[h]

\* Goto changes where a call is and nothing else of it.
LEMMA GotoSets ==
  ASSUME TypeInv, NEW a \in Actors, NEW pc \in Pcs, Goto(a, pc)
  PROVE  \E new \in CallRecord :
           /\ SetsCall(a, new) /\ new.gen = call[a].gen /\ new.id = call[a].id
           /\ new.reply = call[a].reply /\ new.pc = pc
<1>1. SetsCall(a, call'[a])
  BY DEF Goto, SetsCall, TypeInv, CallRecord
<1>2. call'[a] \in CallRecord
  BY <1>1 DEF SetsCall
<1> QED BY <1>1, <1>2 DEF Goto, TypeInv, CallRecord

-----------------------------------------------------------------------------
(* The calls a generation has admitted.                                    *)

\* The actors are finitely many, so the calls a generation admitted are too.
LEMMA CallingIsFinite ==
  ASSUME RuntimeAssumption, NEW g
  PROVE  IsFiniteSet(Calling(g)) /\ Cardinality(Calling(g)) \in Nat
<1>1. IsFiniteSet(Actors)
  BY FS_AddElement DEF RuntimeAssumption, Actors
<1>2. Calling(g) \subseteq Actors
  BY DEF Calling
<1> QED BY <1>1, <1>2, FS_Subset, FS_CardinalityType

\* A step that leaves every actor inside or outside its generation leaves the
\* calls of every generation as they were.
LEMMA CallingKept ==
  ASSUME TypeInv, NEW a \in Actors, NEW new \in CallRecord,
         SetsCall(a, new),
         \/ new.gen = call[a].gen /\ (new.pc \in Admitted <=> call[a].pc \in Admitted)
         \/ new.pc \notin Admitted /\ call[a].pc \notin Admitted
  PROVE  \A g : Calling(g)' = Calling(g)
<1>1. call'[a] = new /\ \A b \in Actors : b # a => call'[b] = call[b]
  BY DEF TypeInv, SetsCall
<1> SUFFICES ASSUME NEW g PROVE Calling(g)' = Calling(g)
  OBVIOUS
<1>2. ASSUME NEW b \in Actors
      PROVE  (call'[b].gen = g /\ call'[b].pc \in Admitted)
               <=> (call[b].gen = g /\ call[b].pc \in Admitted)
  BY <1>1
<1> QED BY <1>2 DEF Calling

-----------------------------------------------------------------------------
(* Steps that move one call.                                               *)

\* What a step of one call owes for the other actors and for the lifecycle: it
\* changes one call and one connection and leaves the connection's state alone.
LEMMA OthersKept ==
  ASSUME RuntimeAssumption, IInv, NEW a \in Actors, NEW g \in Generations,
         NEW new \in CallRecord, NEW conn \in RtRecord,
         SetsCall(a, new), SetsRt(g, conn),
         UNCHANGED lifecycle, calls' \in [Actors -> Nat],
         conn.state = rt[g].state,
         conn.lock = rt[g].lock \/ rt[g].lock \in {None, a},
         a # Supervisor \/ new.pc = "idle" \/ call[a].pc # "idle"
  PROVE  /\ TypeInv' /\ LifeInv'
         /\ call'[a] = new /\ rt'[g] = conn
         /\ \A b \in Actors : b # a => call'[b] = call[b] /\ ActorInv(b)'
         /\ \A h \in Generations : h # g => rt'[h] = rt[h]
         /\ \A h \in Generations : rt'[h].state = rt[h].state
<1>1. TypeInv /\ LifeInv
  BY DEF IInv
<1>2. call'[a] = new /\ \A b \in Actors : b # a => call'[b] = call[b]
  BY <1>1 DEF TypeInv, SetsCall
<1>3. rt'[g] = conn /\ \A h \in Generations : h # g => rt'[h] = rt[h]
  BY <1>1 DEF TypeInv, SetsRt
<1>4. TypeInv'
  BY <1>1 DEF TypeInv, lifecycle, SetsCall, SetsRt
<1>5. \A h \in Generations : rt'[h].state = rt[h].state
  BY <1>3
<1>6. LifeInv'
  <2>1. call'[Supervisor].pc # "idle" => call[Supervisor].pc # "idle"
    BY <1>2 DEF Actors
  <2>2. /\ current # 0 => current \in Generations
        /\ quarantine # 0 => quarantine \in Generations
    BY <1>1 DEF TypeInv, Generations, RuntimeAssumption
  <2> QED BY <1>1, <1>5, <2>1, <2>2 DEF LifeInv, lifecycle, TypeInv
<1>7. ASSUME NEW b \in Actors, b # a PROVE ActorInv(b)'
  <2>1. call'[b] = call[b] /\ ActorInv(b) /\ None \notin Actors
    BY <1>2, <1>7 DEF IInv, RuntimeAssumption
  <2>2. CASE call[b].pc = "idle"
    BY <2>1, <2>2 DEF ActorInv, Connected
  <2>3. CASE call[b].pc # "idle"
    <3>1. call[b].gen \in Generations
      BY <2>1, <2>3 DEF ActorInv
    <3>2. call[b].pc \in Connected => rt'[call[b].gen].lock = b
      BY <1>3, <2>1, <3>1, <1>7 DEF ActorInv
    <3> QED BY <1>5, <2>1, <3>1, <3>2 DEF ActorInv
  <2> QED BY <2>2, <2>3
<1> QED BY <1>2, <1>3, <1>4, <1>5, <1>6, <1>7

\* A call that is not on the connection moves to another such place.
LEMMA MoveStep ==
  ASSUME RuntimeAssumption, IInv, NEW a \in Actors, NEW pc \in Pcs,
         Goto(a, pc), UNCHANGED <<rt, calls, lifecycle>>,
         call[a].pc # "idle", call[a].pc \notin Connected, pc \notin Connected,
         call[a].pc \in Admitted <=> pc \in Admitted
  PROVE  IInv'
<1>1. TypeInv /\ ActorInv(a) /\ call[a].gen \in Generations
  BY DEF IInv, ActorInv
<1>g. PICK g \in Generations : g = call[a].gen
  BY <1>1
<1>2. PICK new \in CallRecord :
        /\ SetsCall(a, new) /\ new.gen = g /\ new.id = call[a].id
        /\ new.reply = call[a].reply /\ new.pc = pc
  BY <1>1, <1>g, GotoSets
<1>3. SetsRt(g, rt[g]) /\ UNCHANGED lifecycle
  BY <1>1 DEF TypeInv, SetsRt
<1>4. rt[g] \in RtRecord /\ calls' \in [Actors -> Nat]
  BY <1>1 DEF TypeInv
<1>5. /\ TypeInv' /\ LifeInv' /\ call'[a] = new
      /\ \A b \in Actors : b # a => call'[b] = call[b] /\ ActorInv(b)'
  BY <1>1, <1>2, <1>3, <1>4, OthersKept
<1>6. \A h : Calling(h)' = Calling(h)
  BY <1>1, <1>g, <1>2, CallingKept
<1>7. ActorInv(a)'
  BY <1>1, <1>g, <1>2, <1>5 DEF ActorInv
<1>8. ASSUME NEW h \in Generations PROVE ConnInv(h, rt[h])'
  <2>1. ConnInv(h, rt[h]) /\ rt[h].lock # a
    BY DEF IInv, ConnInv
  <2> QED BY <1>5, <1>6, <2>1 DEF ConnInv
<1> QED BY <1>5, <1>7, <1>8 DEF IInv

\* A call takes the free connection, or moves while it has it: the frames stay
\* paired with it.
LEMMA ConnectedStep ==
  ASSUME RuntimeAssumption, IInv, NEW a \in Actors,
         NEW new \in CallRecord, NEW conn \in RtRecord,
         SetsCall(a, new),
         SetsRt(call[a].gen, conn), UNCHANGED <<calls, lifecycle>>,
         call[a].pc \in Admitted, rt[call[a].gen].lock \in {None, a},
         new.gen = call[a].gen, new.id = call[a].id, new.pc \in Connected,
         new.reply # None => new.reply = new.id,
         conn.lock = a, Paired(conn, new.pc, new.id),
         conn.state = rt[call[a].gen].state, conn.draining = rt[call[a].gen].draining,
         conn.inflight = rt[call[a].gen].inflight, conn.alive = rt[call[a].gen].alive
  PROVE  IInv'
<1>1. TypeInv /\ ActorInv(a) /\ call[a].gen \in Generations
  BY DEF IInv, ActorInv, Admitted
<1>g. PICK g \in Generations : g = call[a].gen
  BY <1>1
<1>2. /\ SetsRt(g, conn) /\ rt[g] \in RtRecord
      /\ calls' \in [Actors -> Nat] /\ UNCHANGED lifecycle /\ call[a].pc # "idle"
  BY <1>1, <1>g DEF TypeInv, Admitted, SetsRt
<1>3. new.pc \in Admitted
  BY DEF Connected, Admitted
<1>a. conn.state = rt[g].state /\ rt[g].lock \in {None, a}
  BY <1>g
<1>4. /\ TypeInv' /\ LifeInv' /\ call'[a] = new /\ rt'[g] = conn
      /\ \A b \in Actors : b # a => call'[b] = call[b] /\ ActorInv(b)'
      /\ \A h \in Generations : h # g => rt'[h] = rt[h]
  BY <1>1, <1>2, <1>a, OthersKept
<1>5. \A h : Calling(h)' = Calling(h)
  BY <1>1, <1>3, CallingKept
<1>6. ActorInv(a)'
  BY <1>1, <1>2, <1>4, <1>g DEF ActorInv
<1>7. ConnInv(g, rt[g])'
  <2>1. ConnInv(g, rt[g])
    BY <1>1 DEF IInv
  <2>2. conn.state # "none" /\ None # a
    BY <1>1, <1>2, <1>a, <1>g DEF ActorInv, RuntimeAssumption
  <2>3. conn.state = "closed" => conn.draining /\ Calling(g) = {}
    BY <2>1, <1>a, <1>g DEF ConnInv
  <2>4. conn.inflight = Cardinality(Calling(g)) /\ (conn.alive => conn.state = "started")
    BY <2>1, <1>a, <1>g DEF ConnInv
  <2> QED BY <1>4, <1>5, <2>2, <2>3, <2>4, <1>g DEF ConnInv
<1>8. ASSUME NEW h \in Generations, h # g PROVE ConnInv(h, rt[h])'
  <2>1. ConnInv(h, rt[h]) /\ rt[h].lock # a
    BY <1>8, <1>g DEF IInv, ConnInv
  <2> QED BY <1>4, <1>5, <1>8, <2>1 DEF ConnInv
<1>9. \A h \in Generations : ConnInv(h, rt[h])'
  BY <1>7, <1>8
<1>10. \A b \in Actors : ActorInv(b)'
  BY <1>4, <1>6
<1> QED BY <1>4, <1>9, <1>10 DEF IInv

-----------------------------------------------------------------------------
(* Steps that change one connection and no call.                           *)

\* If what the connection becomes is itself consistent with the calls, and it
\* keeps its lock, every other connection and every call stays consistent.
LEMMA RtStep ==
  ASSUME RuntimeAssumption, IInv, NEW g \in Generations, NEW conn \in RtRecord,
         SetsRt(g, conn), UNCHANGED call, conn.lock = rt[g].lock,
         rt[g].state # "none" => conn.state # "none", ConnInv(g, conn)
  PROVE  /\ rt' \in [Generations -> RtRecord] /\ rt'[g] = conn
         /\ \A h \in Generations : h # g => rt'[h] = rt[h]
         /\ \A a \in Actors : ActorInv(a)'
         /\ \A h \in Generations : ConnInv(h, rt[h])'
<1>1. TypeInv
  BY DEF IInv
<1>2. /\ rt' \in [Generations -> RtRecord] /\ rt'[g] = conn
      /\ \A h \in Generations : h # g => rt'[h] = rt[h]
  BY <1>1 DEF TypeInv, SetsRt
<1>3. \A h : Calling(h)' = Calling(h)
  BY DEF Calling
<1>4. ASSUME NEW a \in Actors PROVE ActorInv(a)'
  <2>1. ActorInv(a)
    BY DEF IInv
  <2>2. CASE call[a].pc = "idle"
    BY <2>1, <2>2 DEF ActorInv, Connected
  <2>3. CASE call[a].pc # "idle"
    BY <1>2, <2>1, <2>3 DEF ActorInv
  <2> QED BY <2>2, <2>3
<1>5. ASSUME NEW h \in Generations PROVE ConnInv(h, rt[h])'
  <2>1. ConnInv(h, rt'[h])
    BY <1>2 DEF IInv
  <2> QED BY <1>3, <2>1 DEF ConnInv
<1> QED BY <1>2, <1>4, <1>5

\* What a lifecycle change leaves: the states are where they were.
LEMMA LifeKept ==
  ASSUME RuntimeAssumption, IInv, UNCHANGED <<call, calls, lifecycle>>,
         rt' \in [Generations -> RtRecord],
         \A g \in Generations : rt'[g].state = "none" <=> rt[g].state = "none"
  PROVE  TypeInv' /\ LifeInv'
<1>1. TypeInv /\ LifeInv
  BY DEF IInv
<1>2. /\ current # 0 => current \in Generations
      /\ quarantine # 0 => quarantine \in Generations
  BY <1>1 DEF TypeInv, Generations, RuntimeAssumption
<1>3. TypeInv'
  BY <1>1 DEF TypeInv, lifecycle
<1>4. LifeInv'
  BY <1>1, <1>2 DEF LifeInv, TypeInv, lifecycle
<1> QED BY <1>3, <1>4

\* The owner moves the one request to the replies.
LEMMA OwnerStep ==
  ASSUME RuntimeAssumption, IInv, NEW g \in Generations, Owner(g)
  PROVE  IInv'
<1>1. TypeInv /\ ConnInv(g, rt[g]) /\ rt[g] \in RtRecord
  BY DEF IInv, TypeInv
<1>2. rt[g].alive /\ rt[g].requests # <<>> /\ UNCHANGED <<call, calls, lifecycle>>
  BY DEF Owner
<1>3. PICK a \in Actors : /\ rt[g].lock = a /\ call[a].gen = g /\ call[a].pc = "receive"
                          /\ rt[g].requests = <<call[a].id>> /\ rt[g].replies = <<>>
  BY <1>1, <1>2 DEF ConnInv, Paired, RtRecord
<1>4. call[a].id \in Ids
  BY <1>3 DEF IInv, ActorInv
<1>5. PICK conn \in RtRecord :
        /\ SetsRt(g, conn) /\ conn.lock = a /\ conn.inflight = rt[g].inflight
        /\ conn.state = rt[g].state /\ conn.draining = rt[g].draining
        /\ conn.alive = rt[g].alive
        /\ conn.requests = <<>> /\ conn.replies = <<call[a].id>>
  <2>1. rt' = [rt EXCEPT ![g].replies = <<call[a].id>>, ![g].requests = <<>>]
    <3>1. Append(rt[g].replies, Head(rt[g].requests)) = <<call[a].id>>
      BY <1>3, <1>4
    <3>2. Tail(rt[g].requests) = <<>>
      BY <1>3, <1>4
    <3> QED BY <3>1, <3>2, ZenonT(30) DEF Owner
  <2>a. PICK one \in Seq(Ids) : one = <<call[a].id>>
    <3>1. <<call[a].id>> \in Seq(Ids)
      BY <1>4
    <3> QED BY <3>1, Zenon
  <2>b. PICK none \in Seq(Ids) : none = <<>>
    <3>1. <<>> \in Seq(Ids)
      OBVIOUS
    <3> QED BY <3>1, Zenon
  <2>c. rt' = [rt EXCEPT ![g].replies = one, ![g].requests = none]
    BY <2>1, <2>a, <2>b
  <2>2. SetsRt(g, rt'[g])
    BY <1>1, <2>c, ZenonT(30) DEF SetsRt, TypeInv, RtRecord
  <2>3. rt'[g] \in RtRecord
    BY <2>2 DEF SetsRt
  <2> QED BY <1>1, <1>3, <2>1, <2>2, <2>3, ZenonT(30) DEF RtRecord, TypeInv
<1>6. ConnInv(g, conn)
  BY <1>1, <1>2, <1>3, <1>5 DEF ConnInv, Paired, RuntimeAssumption
<1>7. /\ rt' \in [Generations -> RtRecord] /\ rt'[g] = conn
      /\ \A h \in Generations : h # g => rt'[h] = rt[h]
      /\ \A b \in Actors : ActorInv(b)'
      /\ \A h \in Generations : ConnInv(h, rt[h])'
  BY <1>2, <1>3, <1>5, <1>6, RtStep
<1>8. TypeInv' /\ LifeInv'
  BY <1>2, <1>5, <1>7, LifeKept
<1> QED BY <1>7, <1>8 DEF IInv

\* A dead owner answers nothing more; what it answered is for the call that waits.
LEMMA OwnerDiesStep ==
  ASSUME RuntimeAssumption, IInv, NEW g \in Generations, OwnerDies(g)
  PROVE  IInv'
<1>1. TypeInv /\ ConnInv(g, rt[g]) /\ rt[g] \in RtRecord
  BY DEF IInv, TypeInv
<1>2. rt[g].alive /\ UNCHANGED <<call, calls, lifecycle>>
  BY DEF OwnerDies
<1>3. PICK kept \in {<<>>, rt[g].replies} :
        rt' = [rt EXCEPT ![g].alive = FALSE, ![g].requests = <<>>, ![g].replies = kept]
  BY ZenonT(30) DEF OwnerDies
<1>4. PICK conn \in RtRecord :
        /\ SetsRt(g, conn) /\ conn.lock = rt[g].lock /\ conn.inflight = rt[g].inflight
        /\ conn.state = rt[g].state /\ conn.draining = rt[g].draining
        /\ ~conn.alive /\ conn.requests = <<>> /\ conn.replies \in {<<>>, rt[g].replies}
  <2>a. kept \in Seq(Ids)
    <3>1. <<>> \in Seq(Ids) /\ rt[g].replies \in Seq(Ids)
      BY <1>1 DEF RtRecord
    <3> QED BY <3>1, <1>3, Zenon
  <2>b. PICK none \in Seq(Ids) : none = <<>>
    <3>1. <<>> \in Seq(Ids)
      OBVIOUS
    <3> QED BY <3>1, Zenon
  <2>c. rt' = [rt EXCEPT ![g].alive = FALSE, ![g].requests = none, ![g].replies = kept]
    BY <1>3, <2>b
  <2>1. SetsRt(g, rt'[g])
    BY <1>1, <2>a, <2>c, ZenonT(30) DEF SetsRt, TypeInv, RtRecord
  <2>2. rt'[g] \in RtRecord
    BY <2>1 DEF SetsRt
  <2> QED BY <1>1, <1>3, <2>1, <2>2, ZenonT(30) DEF RtRecord, TypeInv
<1>5. ConnInv(g, conn)
  <2>1. rt[g].state = "started" /\ None \notin Actors
    BY <1>1, <1>2 DEF ConnInv, RuntimeAssumption
  <2>2. ASSUME NEW a \in Actors, conn.lock = a
        PROVE  /\ call[a].gen = g /\ call[a].pc \in Connected
               /\ Paired(conn, call[a].pc, call[a].id)
    BY <1>1, <1>2, <1>4, <2>2 DEF ConnInv, Paired
  <2>3. conn.lock = None => Paired(conn, "idle", None)
    BY <1>1, <1>2, <1>4 DEF ConnInv, Paired
  <2> QED BY <1>1, <1>4, <2>1, <2>2, <2>3 DEF ConnInv
<1>6. /\ rt' \in [Generations -> RtRecord] /\ rt'[g] = conn
      /\ \A h \in Generations : h # g => rt'[h] = rt[h]
      /\ \A b \in Actors : ActorInv(b)'
      /\ \A h \in Generations : ConnInv(h, rt[h])'
  BY <1>2, <1>4, <1>5, RtStep
<1>7. TypeInv' /\ LifeInv'
  BY <1>2, <1>4, <1>6, LifeKept
<1> QED BY <1>6, <1>7 DEF IInv

-----------------------------------------------------------------------------
(* The actions of a call.                                                  *)

\* A call that no generation has admitted begins, moves or ends.
LEMMA OutsideStep ==
  ASSUME RuntimeAssumption, IInv, NEW a \in Actors, NEW new \in CallRecord,
         SetsCall(a, new), UNCHANGED rt,
         call[a].pc \notin Admitted, new.pc \notin Admitted,
         new.pc # "idle" => /\ new.gen \in Generations /\ new.id \in Ids
                            /\ rt[new.gen].state # "none",
         new.reply # None => new.reply = new.id
  PROVE  /\ \A b \in Actors : ActorInv(b)'
         /\ \A h \in Generations : ConnInv(h, rt[h])'
<1>1. TypeInv /\ call'[a] = new /\ \A b \in Actors : b # a => call'[b] = call[b]
  BY DEF IInv, SetsCall
<1>2. \A h : Calling(h)' = Calling(h)
  BY <1>1, CallingKept
<1>3. call[a].pc \notin Connected /\ new.pc \notin Connected
  BY DEF Connected, Admitted
<1>4. ASSUME NEW b \in Actors PROVE ActorInv(b)'
  <2>1. ActorInv(b)
    BY DEF IInv
  <2> QED BY <1>1, <1>3, <2>1 DEF ActorInv
<1>5. ASSUME NEW h \in Generations PROVE ConnInv(h, rt[h])'
  <2>1. ConnInv(h, rt[h])
    BY DEF IInv
  <2>2. rt[h].lock # a
    BY <1>3, <2>1 DEF ConnInv
  <2> QED BY <1>1, <1>2, <2>1, <2>2 DEF ConnInv
<1> QED BY <1>4, <1>5

\* A thread's call leaves the supervisor's alone.
LEMMA ThreadKeepsLife ==
  ASSUME RuntimeAssumption, IInv, NEW t \in Threads, NEW new, SetsCall(t, new),
         UNCHANGED <<rt, lifecycle>>, calls' \in [Actors -> Nat]
  PROVE  TypeInv' /\ LifeInv'
<1>1. TypeInv /\ LifeInv /\ Supervisor \in Actors /\ Supervisor # t
  BY DEF IInv, Actors, RuntimeAssumption
<1>2. call'[Supervisor] = call[Supervisor] /\ call' \in [Actors -> CallRecord]
  BY <1>1 DEF SetsCall
<1>3. TypeInv'
  BY <1>1, <1>2 DEF TypeInv, lifecycle
<1>4. LifeInv'
  BY <1>1, <1>2 DEF LifeInv, lifecycle
<1> QED BY <1>3, <1>4

LEMMA TakeStep ==
  ASSUME RuntimeAssumption, IInv, NEW t \in Threads, NEW kind \in Kinds,
         NEW g \in Generations, rt[g].state # "none", Take(t, kind, g)
  PROVE  IInv'
<1>1. TypeInv /\ t \in Actors /\ call[t].pc = "idle" /\ calls[t] \in Nat
  BY DEF IInv, TypeInv, Actors, Take, At
<1>2. <<t, calls[t]>> \in Ids
  BY <1>1 DEF Ids
<1>3. g \in 0..MaxGenerations
  BY DEF Generations, RuntimeAssumption
<1>4. PICK pc \in {"outer", "enter"} : pc = IF Outer(kind) THEN "outer" ELSE "enter"
  OBVIOUS
<1>5. PICK new \in CallRecord :
        /\ new = [pc |-> pc, kind |-> kind, gen |-> g, id |-> <<t, calls[t]>>, reply |-> None]
        /\ new.pc = pc /\ new.gen = g /\ new.id = <<t, calls[t]>> /\ new.reply = None
  <2> DEFINE rec == [pc |-> pc, kind |-> kind, gen |-> g, id |-> <<t, calls[t]>>,
                     reply |-> None]
  <2>1. rec \in CallRecord
    BY <1>2, <1>3 DEF CallRecord, Pcs
  <2> QED BY <2>1, Zenon
<1>6. SetsCall(t, new)
  BY <1>1, <1>4, <1>5 DEF Take, SetsCall, TypeInv
<1>7. calls' \in [Actors -> Nat] /\ UNCHANGED <<rt, lifecycle>>
  BY <1>1 DEF Take, TypeInv
<1>8. call[t].pc \notin Admitted /\ new.pc \notin Admitted
  BY <1>1, <1>5 DEF Admitted
<1>9. (\A b \in Actors : ActorInv(b)') /\ (\A h \in Generations : ConnInv(h, rt[h])')
  BY <1>1, <1>2, <1>5, <1>6, <1>7, <1>8, OutsideStep
<1>10. TypeInv' /\ LifeInv'
  BY <1>6, <1>7, ThreadKeepsLife
<1> QED BY <1>9, <1>10 DEF IInv

LEMMA DoneStep ==
  ASSUME RuntimeAssumption, IInv, NEW a \in Actors, Done(a)
  PROVE  IInv'
<1>1. TypeInv /\ a \in Threads /\ call[a].pc = "done"
  BY DEF IInv, Done, At
<1>2. Idle \in CallRecord /\ Idle.pc = "idle" /\ Idle.reply = None
  BY DEF Idle, CallRecord, Pcs, RuntimeAssumption
<1>3. SetsCall(a, Idle)
  BY <1>1, <1>2 DEF Done, SetsCall, TypeInv
<1>4. calls' \in [Actors -> Nat] /\ UNCHANGED <<rt, lifecycle>>
  BY <1>1 DEF Done, TypeInv
<1>5. call[a].pc \notin Admitted /\ Idle.pc \notin Admitted
  BY <1>1, <1>2 DEF Admitted
<1>6. (\A b \in Actors : ActorInv(b)') /\ (\A h \in Generations : ConnInv(h, rt[h])')
  BY <1>2, <1>3, <1>4, <1>5, OutsideStep
<1>7. TypeInv' /\ LifeInv'
  BY <1>1, <1>3, <1>4, ThreadKeepsLife
<1> QED BY <1>6, <1>7 DEF IInv

LEMMA LockStep ==
  ASSUME RuntimeAssumption, IInv, NEW a \in Actors, Lock(a)
  PROVE  IInv'
<1>1. /\ TypeInv /\ ActorInv(a) /\ call[a].pc = "lock" /\ call[a].gen \in Generations
      /\ rt[call[a].gen].lock = None
  BY DEF IInv, ActorInv, Lock, At, Gen
<1>g. PICK g \in Generations : g = call[a].gen
  BY <1>1
<1>2. PICK new \in CallRecord :
        /\ SetsCall(a, new) /\ new.gen = call[a].gen /\ new.id = call[a].id
        /\ new.reply = call[a].reply /\ new.pc = "send"
  BY <1>1, GotoSets DEF Lock, Pcs, Admitted
<1>3. PICK conn \in RtRecord :
        /\ SetsRt(g, conn) /\ conn.lock = a /\ conn.inflight = rt[g].inflight
        /\ conn.state = rt[g].state /\ conn.draining = rt[g].draining
        /\ conn.alive = rt[g].alive /\ conn.requests = rt[g].requests
        /\ conn.replies = rt[g].replies
  <2>1. SetsRt(g, rt'[g])
    BY <1>1, <1>g, ZenonT(30) DEF Lock, Gen, SetsRt, TypeInv, RtRecord
  <2>2. rt'[g] \in RtRecord
    BY <2>1 DEF SetsRt
  <2> QED BY <1>1, <1>g, <2>1, <2>2, ZenonT(30) DEF Lock, Gen, TypeInv, RtRecord
<1>4. Paired(conn, new.pc, new.id)
  <2>1. ConnInv(g, rt[g])
    BY DEF IInv
  <2> QED BY <1>1, <1>g, <1>2, <1>3, <2>1, ZenonT(30) DEF ConnInv, Paired
<1>5. UNCHANGED <<calls, lifecycle>> /\ call[a].pc \in Admitted /\ new.pc \in Connected
  BY <1>1, <1>2 DEF Lock, Admitted, Connected
<1>6. new.reply # None => new.reply = new.id
  BY <1>1, <1>2 DEF ActorInv
<1> QED BY <1>1, <1>g, <1>2, <1>3, <1>4, <1>5, <1>6, ConnectedStep

LEMMA SendStep ==
  ASSUME RuntimeAssumption, IInv, NEW a \in Actors, Send(a)
  PROVE  IInv'
<1>1. /\ TypeInv /\ ActorInv(a) /\ call[a].pc = "send" /\ call[a].gen \in Generations
      /\ rt[call[a].gen].lock = a /\ call[a].id \in Ids
  BY DEF IInv, ActorInv, Send, At, Connected
<1>g. PICK g \in Generations : g = call[a].gen
  BY <1>1
<1>p. ConnInv(g, rt[g]) /\ Paired(rt[g], "send", call[a].id)
  BY <1>1, <1>g DEF IInv, ConnInv
<1>3. UNCHANGED <<calls, lifecycle>> /\ call[a].pc \in Admitted
  BY <1>1 DEF Send, Admitted
<1>4. CASE rt' = Sent(a) /\ Goto(a, "receive")
  <2>1. PICK new \in CallRecord :
          /\ SetsCall(a, new) /\ new.gen = call[a].gen /\ new.id = call[a].id
          /\ new.reply = call[a].reply /\ new.pc = "receive"
    BY <1>1, <1>4, GotoSets DEF Pcs, Admitted
  <2>2. PICK conn \in RtRecord :
          /\ SetsRt(g, conn) /\ conn.lock = a /\ conn.inflight = rt[g].inflight
          /\ conn.state = rt[g].state /\ conn.draining = rt[g].draining
          /\ conn.alive = rt[g].alive /\ conn.replies = rt[g].replies
          /\ conn.requests = Append(rt[g].requests, call[a].id)
    <3>a. PICK more \in Seq(Ids) : more = Append(rt[g].requests, call[a].id)
      <4>1. rt[g].requests \in Seq(Ids)
        BY <1>1 DEF TypeInv, RtRecord
      <4>2. Append(rt[g].requests, call[a].id) \in Seq(Ids)
        BY <1>1, <4>1
      <4> QED BY <4>2, Zenon
    <3>b. rt' = [rt EXCEPT ![g].requests = more]
      BY <1>g, <1>4, <3>a DEF Sent, Gen
    <3>1. SetsRt(g, rt'[g])
      BY <1>1, <3>b, ZenonT(30) DEF SetsRt, TypeInv, RtRecord
    <3>2. rt'[g] \in RtRecord
      BY <3>1 DEF SetsRt
    <3> QED BY <1>1, <1>g, <3>a, <3>b, <3>1, <3>2, ZenonT(30) DEF TypeInv, RtRecord
  <2>3. Paired(conn, new.pc, new.id)
    <3>1. Append(<<>>, call[a].id) = <<call[a].id>>
      BY <1>1
    <3> QED BY <1>p, <2>1, <2>2, <3>1, ZenonT(30) DEF Paired
  <2>4. new.pc \in Connected /\ (new.reply # None => new.reply = new.id)
    BY <1>1, <2>1 DEF Connected, ActorInv
  <2> QED BY <1>1, <1>g, <1>3, <2>1, <2>2, <2>3, <2>4, ConnectedStep, ZenonT(30)
<1>5. CASE Goto(a, "unlock") /\ UNCHANGED rt
  <2>1. PICK new \in CallRecord :
          /\ SetsCall(a, new) /\ new.gen = call[a].gen /\ new.id = call[a].id
          /\ new.reply = call[a].reply /\ new.pc = "unlock"
    BY <1>1, <1>5, GotoSets DEF Pcs, Admitted
  <2>2. PICK conn \in RtRecord : conn = rt[g] /\ SetsRt(g, conn)
    BY <1>1, <1>5 DEF SetsRt, TypeInv
  <2>3. Paired(conn, new.pc, new.id)
    BY <1>p, <2>1, <2>2 DEF Paired
  <2>4. new.pc \in Connected /\ (new.reply # None => new.reply = new.id)
    BY <1>1, <2>1 DEF Connected, ActorInv
  <2> QED BY <1>1, <1>g, <1>3, <2>1, <2>2, <2>3, <2>4, ConnectedStep
<1> QED BY <1>4, <1>5 DEF Send

LEMMA ReceiveStep ==
  ASSUME RuntimeAssumption, IInv, NEW a \in Actors, Receive(a)
  PROVE  IInv'
<1>1. /\ TypeInv /\ ActorInv(a) /\ call[a].pc = "receive" /\ call[a].gen \in Generations
      /\ rt[call[a].gen].lock = a /\ call[a].id \in Ids
  BY DEF IInv, ActorInv, Receive, At, Connected
<1>g. PICK g \in Generations : g = call[a].gen
  BY <1>1
<1>p. ConnInv(g, rt[g]) /\ Paired(rt[g], "receive", call[a].id)
  BY <1>1, <1>g DEF IInv, ConnInv
<1>3. UNCHANGED <<calls, lifecycle>> /\ call[a].pc \in Admitted
  BY <1>1 DEF Receive, Admitted
<1>4. CASE rt[g].replies # <<>>
  <2>1. rt[g].replies = <<call[a].id>> /\ (rt[g].alive => rt[g].requests = <<>>)
    BY <1>p, <1>4 DEF Paired
  <2>2. Head(rt[g].replies) = call[a].id /\ Tail(rt[g].replies) = <<>>
    BY <1>1, <2>1
  <2>3. /\ rt' = [rt EXCEPT ![g].replies = <<>>]
        /\ call' = [call EXCEPT ![a].pc = "unlock", ![a].reply = call[a].id]
    BY <1>4, <1>g, <2>2, ZenonT(30) DEF Receive, Gen
  <2>4. PICK new \in CallRecord :
          /\ SetsCall(a, new) /\ new.gen = call[a].gen /\ new.id = call[a].id
          /\ new.reply = call[a].id /\ new.pc = "unlock"
    <3>1. SetsCall(a, call'[a])
      BY <1>1, <2>3, ZenonT(60) DEF SetsCall, TypeInv, CallRecord, Pcs, Admitted
    <3>2. call'[a] \in CallRecord
      BY <3>1 DEF SetsCall
    <3> QED BY <1>1, <2>3, <3>1, <3>2, ZenonT(30) DEF TypeInv, CallRecord
  <2>5. PICK conn \in RtRecord :
          /\ SetsRt(g, conn) /\ conn.lock = a /\ conn.inflight = rt[g].inflight
          /\ conn.state = rt[g].state /\ conn.draining = rt[g].draining
          /\ conn.alive = rt[g].alive /\ conn.replies = <<>>
          /\ conn.requests = rt[g].requests
    <3>a. PICK none \in Seq(Ids) : none = <<>>
      <4>1. <<>> \in Seq(Ids)
        OBVIOUS
      <4> QED BY <4>1, Zenon
    <3>b. rt' = [rt EXCEPT ![g].replies = none]
      BY <2>3, <3>a
    <3>1. SetsRt(g, rt'[g])
      BY <1>1, <3>b, ZenonT(30) DEF SetsRt, TypeInv, RtRecord
    <3>2. rt'[g] \in RtRecord
      BY <3>1 DEF SetsRt
    <3> QED BY <1>1, <1>g, <3>a, <3>b, <3>1, <3>2, ZenonT(30) DEF TypeInv, RtRecord
  <2>6. Paired(conn, new.pc, new.id)
    BY <2>1, <2>4, <2>5 DEF Paired
  <2>7. new.pc \in Connected /\ (new.reply # None => new.reply = new.id)
    BY <2>4 DEF Connected
  <2> QED BY <1>1, <1>g, <1>3, <2>4, <2>5, <2>6, <2>7, ConnectedStep
<1>5. CASE rt[g].replies = <<>>
  <2>1. ~rt[g].alive /\ Goto(a, "unlock") /\ UNCHANGED rt
    BY <1>5, <1>g DEF Receive, Gen
  <2>2. PICK new \in CallRecord :
          /\ SetsCall(a, new) /\ new.gen = call[a].gen /\ new.id = call[a].id
          /\ new.reply = call[a].reply /\ new.pc = "unlock"
    BY <1>1, <2>1, GotoSets DEF Pcs, Admitted
  <2>3. PICK conn \in RtRecord : conn = rt[g] /\ SetsRt(g, conn)
    BY <1>1, <2>1 DEF SetsRt, TypeInv
  <2>4. Paired(conn, new.pc, new.id)
    BY <1>5, <2>1, <2>2, <2>3 DEF Paired
  <2>5. new.pc \in Connected /\ (new.reply # None => new.reply = new.id)
    BY <1>1, <2>2 DEF Connected, ActorInv
  <2> QED BY <1>1, <1>g, <1>3, <2>2, <2>3, <2>4, <2>5, ConnectedStep
<1> QED BY <1>4, <1>5

\* The generation counts a call it admits ...
LEMMA EnterStep ==
  ASSUME RuntimeAssumption, IInv, NEW a \in Actors, Enter(a)
  PROVE  IInv'
<1>1. TypeInv /\ ActorInv(a) /\ call[a].pc = "enter" /\ call[a].gen \in Generations
  BY DEF IInv, ActorInv, Enter, At
<1>g. PICK g \in Generations : g = call[a].gen
  BY <1>1
<1>2. UNCHANGED <<calls, lifecycle>>
  BY DEF Enter
<1>3. CASE Goto(a, "done") /\ UNCHANGED rt
  BY <1>1, <1>2, <1>3, MoveStep DEF Pcs, Admitted, Connected
<1>4. CASE /\ ~rt[g].draining
           /\ Goto(a, IF Inner(call[a].kind) THEN "inner" ELSE "lock")
           /\ rt' = [rt EXCEPT ![g].inflight = @ + 1]
  <2>1. PICK pc \in {"inner", "lock"} : Goto(a, pc)
    BY <1>4
  <2>2. PICK new \in CallRecord :
          /\ SetsCall(a, new) /\ new.gen = g /\ new.id = call[a].id
          /\ new.reply = call[a].reply /\ new.pc = pc
    BY <1>1, <1>g, <2>1, GotoSets DEF Pcs, Admitted
  <2>3. PICK conn \in RtRecord :
          /\ SetsRt(g, conn) /\ conn.lock = rt[g].lock /\ conn.inflight = rt[g].inflight + 1
          /\ conn.state = rt[g].state /\ conn.draining = rt[g].draining
          /\ conn.alive = rt[g].alive /\ conn.requests = rt[g].requests
          /\ conn.replies = rt[g].replies
    <3>1. PICK k \in Nat : k = rt[g].inflight + 1
      BY <1>1 DEF TypeInv, RtRecord
    <3>2. rt' = [rt EXCEPT ![g].inflight = k]
      BY <1>4, <3>1
    <3>3. SetsRt(g, rt'[g])
      BY <1>1, <3>2, ZenonT(30) DEF SetsRt, TypeInv, RtRecord
    <3>4. rt'[g] \in RtRecord
      BY <3>3 DEF SetsRt
    <3> QED BY <1>1, <3>1, <3>2, <3>3, <3>4, ZenonT(30) DEF TypeInv, RtRecord
  <2>4. /\ TypeInv' /\ LifeInv' /\ call'[a] = new /\ rt'[g] = conn
        /\ \A b \in Actors : b # a => call'[b] = call[b] /\ ActorInv(b)'
        /\ \A h \in Generations : h # g => rt'[h] = rt[h]
    <3>1. calls' \in [Actors -> Nat] /\ UNCHANGED lifecycle /\ call[a].pc # "idle"
      BY <1>1, <1>2 DEF TypeInv
    <3> QED BY <2>2, <2>3, <3>1, OthersKept
  <2>5. /\ Calling(g)' = Calling(g) \cup {a} /\ a \notin Calling(g)
        /\ \A h : h # g => Calling(h)' = Calling(h)
    BY <1>1, <1>g, <2>1, <2>2, <2>4 DEF Calling, Admitted
  <2>6. Cardinality(Calling(g)') = Cardinality(Calling(g)) + 1
    BY <2>5, CallingIsFinite, FS_AddElement, ZenonT(30)
  <2>7. ActorInv(a)'
    BY <1>1, <1>g, <2>1, <2>2, <2>3, <2>4, ZenonT(30) DEF ActorInv, Connected
  <2>8. ConnInv(g, rt[g])'
    <3>1. ConnInv(g, rt[g]) /\ rt[g].lock # a
      BY <1>1, ZenonT(30) DEF IInv, ConnInv, Connected
    <3> QED BY <1>4, <2>3, <2>4, <2>6, <3>1 DEF ConnInv, Paired
  <2>9. ASSUME NEW h \in Generations, h # g PROVE ConnInv(h, rt[h])'
    <3>1. ConnInv(h, rt[h]) /\ rt[h].lock # a
      BY <1>1, ZenonT(30) DEF IInv, ConnInv, Connected
    <3> QED BY <2>4, <2>5, <2>9, <3>1 DEF ConnInv
  <2>10. \A h \in Generations : ConnInv(h, rt[h])'
    BY <2>8, <2>9
  <2>11. \A b \in Actors : ActorInv(b)'
    BY <2>4, <2>7
  <2> QED BY <2>4, <2>10, <2>11 DEF IInv
<1> QED BY <1>g, <1>3, <1>4 DEF Enter, Gen

\* ... and no longer counts it once it has given the connection back.
LEMMA UnlockStep ==
  ASSUME RuntimeAssumption, IInv, NEW a \in Actors, Unlock(a)
  PROVE  IInv'
<1>1. /\ TypeInv /\ ActorInv(a) /\ call[a].pc = "unlock" /\ call[a].gen \in Generations
      /\ rt[call[a].gen].lock = a
  BY DEF IInv, ActorInv, Unlock, At, Connected
<1>g. PICK g \in Generations : g = call[a].gen
  BY <1>1
<1>p. ConnInv(g, rt[g]) /\ Paired(rt[g], "unlock", call[a].id)
  BY <1>1, <1>g DEF IInv, ConnInv
<1>2. PICK new \in CallRecord :
        /\ SetsCall(a, new) /\ new.gen = g /\ new.id = call[a].id
        /\ new.reply = call[a].reply /\ new.pc = "done"
  BY <1>1, <1>g, GotoSets DEF Unlock, Pcs
<1>3. a \in Calling(g) /\ Cardinality(Calling(g)) \in Nat \ {0}
  <2>1. a \in Calling(g)
    BY <1>1, <1>g DEF Calling, Admitted
  <2> QED BY <2>1, CallingIsFinite, FS_EmptySet
<1>4. PICK conn \in RtRecord :
        /\ SetsRt(g, conn) /\ conn.lock = None
        /\ conn.inflight = Cardinality(Calling(g)) - 1
        /\ conn.state = rt[g].state /\ conn.draining = rt[g].draining
        /\ conn.alive = rt[g].alive /\ conn.requests = rt[g].requests
        /\ conn.replies = rt[g].replies
  <2>1. rt[g].inflight = Cardinality(Calling(g))
    BY <1>p DEF ConnInv
  <2>2. PICK k \in Nat : k = rt[g].inflight - 1
    BY <1>3, <2>1
  <2>3. rt' = [rt EXCEPT ![g].lock = None, ![g].inflight = k]
    BY <1>g, <2>2 DEF Unlock, Gen
  <2>4. SetsRt(g, rt'[g])
    <3>1. rt \in [Generations -> RtRecord]
      BY <1>1 DEF TypeInv
    <3>2. rt' \in [Generations -> RtRecord]
      BY <2>3, <3>1, ZenonT(30) DEF RtRecord
    <3>3. \A h \in Generations : h # g => rt'[h] = rt[h]
      BY <2>3, <3>1
    <3> QED BY <3>2, <3>3 DEF SetsRt
  <2>5. rt'[g] \in RtRecord
    BY <2>4 DEF SetsRt
  <2> QED BY <1>1, <2>1, <2>2, <2>3, <2>4, <2>5, ZenonT(30) DEF TypeInv, RtRecord
<1>5. /\ TypeInv' /\ LifeInv' /\ call'[a] = new /\ rt'[g] = conn
      /\ \A b \in Actors : b # a => call'[b] = call[b] /\ ActorInv(b)'
      /\ \A h \in Generations : h # g => rt'[h] = rt[h]
  <2>1. /\ calls' \in [Actors -> Nat] /\ UNCHANGED lifecycle /\ call[a].pc # "idle"
        /\ rt[g].lock \in {None, a}
    BY <1>1, <1>g DEF TypeInv, Unlock
  <2> QED BY <1>2, <1>4, <2>1, OthersKept
<1>6. /\ Calling(g)' = Calling(g) \ {a}
      /\ \A h : h # g => Calling(h)' = Calling(h)
  BY <1>1, <1>g, <1>2, <1>5 DEF Calling, Admitted
<1>7. Cardinality(Calling(g)') = Cardinality(Calling(g)) - 1
  BY <1>3, <1>6, CallingIsFinite, FS_RemoveElement, ZenonT(60)
<1>8. ActorInv(a)'
  BY <1>1, <1>g, <1>2, <1>4, <1>5, ZenonT(30) DEF ActorInv, Connected
<1>9. ConnInv(g, rt[g])'
  <2>1. conn.state # "none" /\ None \notin Actors
    BY <1>1, <1>g, <1>4 DEF ActorInv, RuntimeAssumption
  <2>2. conn.state # "closed"
    BY <1>p, <1>3, <1>4 DEF ConnInv
  <2>3. Paired(conn, "idle", None)
    BY <1>p, <1>4 DEF Paired
  <2>4. conn.alive => conn.state = "started"
    BY <1>p, <1>4 DEF ConnInv
  <2> QED BY <1>4, <1>5, <1>7, <2>1, <2>2, <2>3, <2>4 DEF ConnInv
<1>10. ASSUME NEW h \in Generations, h # g PROVE ConnInv(h, rt[h])'
  <2>1. ConnInv(h, rt[h]) /\ rt[h].lock # a
    BY <1>g, <1>10 DEF IInv, ConnInv
  <2> QED BY <1>5, <1>6, <1>10, <2>1 DEF ConnInv
<1>11. \A h \in Generations : ConnInv(h, rt[h])'
  BY <1>9, <1>10
<1>12. \A b \in Actors : ActorInv(b)'
  BY <1>5, <1>8
<1> QED BY <1>5, <1>11, <1>12 DEF IInv

-----------------------------------------------------------------------------
(* The supervisor.                                                         *)

\* A step of the lifecycle that touches neither calls nor connections.
LEMMA LifeStep ==
  ASSUME RuntimeAssumption, IInv, UNCHANGED <<call, calls, rt>>,
         sup' \in SupRecord, current' \in 0..MaxGenerations,
         quarantine' \in 0..MaxGenerations, retiring' \subseteq Generations,
         epoch' \in Nat, transition' \in Nat, LifeInv'
  PROVE  IInv'
<1>1. TypeInv'
  BY DEF IInv, TypeInv
<1>2. \A a \in Actors : ActorInv(a)'
  BY DEF IInv, ActorInv
<1>3. \A h : Calling(h)' = Calling(h)
  BY DEF Calling
<1>4. ASSUME NEW h \in Generations PROVE ConnInv(h, rt[h])'
  <2>1. ConnInv(h, rt[h])
    BY DEF IInv
  <2> QED BY <1>3, <2>1 DEF ConnInv
<1> QED BY <1>1, <1>2, <1>4 DEF IInv

LEMMA DrainStep ==
  ASSUME RuntimeAssumption, IInv, NEW g \in Generations, Drain(g)
  PROVE  IInv'
<1>1. TypeInv /\ ConnInv(g, rt[g]) /\ UNCHANGED <<call, calls, lifecycle>>
  BY DEF IInv, Drain
<1>2. PICK conn \in RtRecord :
        /\ SetsRt(g, conn) /\ conn.lock = rt[g].lock /\ conn.inflight = rt[g].inflight
        /\ conn.state = rt[g].state /\ conn.draining /\ conn.alive = rt[g].alive
        /\ conn.requests = rt[g].requests /\ conn.replies = rt[g].replies
  <2>1. SetsRt(g, rt'[g])
    BY <1>1, ZenonT(30) DEF Drain, SetsRt, TypeInv, RtRecord
  <2>2. rt'[g] \in RtRecord
    BY <2>1 DEF SetsRt
  <2> QED BY <1>1, <2>1, <2>2, ZenonT(30) DEF Drain, TypeInv, RtRecord
<1>3. ConnInv(g, conn)
  BY <1>1, <1>2, ZenonT(30) DEF ConnInv, Paired
<1>4. /\ rt' \in [Generations -> RtRecord] /\ rt'[g] = conn
      /\ \A h \in Generations : h # g => rt'[h] = rt[h]
      /\ \A a \in Actors : ActorInv(a)'
      /\ \A h \in Generations : ConnInv(h, rt[h])'
  BY <1>1, <1>2, <1>3, RtStep, ZenonT(30)
<1>5. TypeInv' /\ LifeInv'
  BY <1>1, <1>2, <1>4, LifeKept
<1> QED BY <1>4, <1>5 DEF IInv

\* Nothing admitted is left when the owner is shut down.
LEMMA RetireStep ==
  ASSUME RuntimeAssumption, IInv, NEW g \in Generations, Retire(g)
  PROVE  IInv'
<1>1. /\ TypeInv /\ LifeInv /\ ConnInv(g, rt[g]) /\ g \in retiring
      /\ rt[g].draining /\ rt[g].inflight = 0 /\ retiring' = retiring \ {g}
      /\ UNCHANGED <<call, calls, sup, current, quarantine, epoch, transition>>
  BY DEF IInv, Retire, Quiet
<1>2. Calling(g) = {}
  BY <1>1, CallingIsFinite, FS_EmptySet, ZenonT(30) DEF ConnInv
<1>3. rt[g].lock = None
  <2>1. \A a \in Actors : rt[g].lock # a
    BY <1>1, <1>2 DEF ConnInv, Calling, Connected, Admitted
  <2> QED BY <1>1, <2>1 DEF TypeInv, RtRecord
<1>4. PICK conn \in RtRecord :
        /\ SetsRt(g, conn) /\ conn.lock = None /\ conn.inflight = rt[g].inflight
        /\ conn.state = "closed" /\ conn.draining /\ ~conn.alive
        /\ conn.requests = rt[g].requests /\ conn.replies = rt[g].replies
  <2>1. SetsRt(g, rt'[g])
    <3>1. /\ rt \in [Generations -> RtRecord]
          /\ rt' = [rt EXCEPT ![g].state = "closed", ![g].alive = FALSE]
      BY <1>1 DEF TypeInv, Retire
    <3>2. rt' \in [Generations -> RtRecord]
      BY <3>1, ZenonT(30) DEF RtRecord
    <3>3. \A h \in Generations : h # g => rt'[h] = rt[h]
      BY <3>1
    <3> QED BY <3>2, <3>3 DEF SetsRt
  <2>2. rt'[g] \in RtRecord
    BY <2>1 DEF SetsRt
  <2> QED BY <1>1, <1>3, <2>1, <2>2, ZenonT(30) DEF Retire, TypeInv, RtRecord
<1>5. ConnInv(g, conn)
  <2>1. conn.replies = <<>> /\ None \notin Actors
    BY <1>1, <1>3, <1>4 DEF ConnInv, Paired, RuntimeAssumption
  <2> QED BY <1>1, <1>2, <1>4, <2>1, ZenonT(30) DEF ConnInv, Paired
<1>6. /\ rt' \in [Generations -> RtRecord] /\ rt'[g] = conn
      /\ \A h \in Generations : h # g => rt'[h] = rt[h]
      /\ \A a \in Actors : ActorInv(a)'
      /\ \A h \in Generations : ConnInv(h, rt[h])'
  BY <1>1, <1>3, <1>4, <1>5, RtStep
<1>7. \A h \in Generations : rt'[h].state = "none" <=> rt[h].state = "none"
  BY <1>1, <1>4, <1>6 DEF LifeInv
<1>8. TypeInv'
  BY <1>1, <1>6 DEF TypeInv
<1>9. LifeInv'
  <2>1. /\ current # 0 => current \in Generations
        /\ quarantine # 0 => quarantine \in Generations
    BY <1>1 DEF TypeInv, Generations, RuntimeAssumption
  <2> QED BY <1>1, <1>7, <2>1 DEF LifeInv, TypeInv
<1> QED BY <1>6, <1>8, <1>9 DEF IInv

\* What detaching leaves in retiring are generations that have been started.
LEMMA DetachedAreStarted ==
  ASSUME RuntimeAssumption, IInv
  PROVE  Detached \subseteq Generations /\ \A g \in Detached : rt[g].state # "none"
<1>1. TypeInv /\ LifeInv
  BY DEF IInv
<1>2. /\ current # 0 => current \in Generations
      /\ quarantine # 0 => quarantine \in Generations
  BY <1>1 DEF TypeInv, Generations, RuntimeAssumption
<1> QED BY <1>1, <1>2 DEF Detached, LifeInv, TypeInv

LEMMA BeginStartStep ==
  ASSUME RuntimeAssumption, IInv, BeginStart
  PROVE  IInv'
<1>1. /\ TypeInv /\ LifeInv /\ sup.pc = "idle" /\ sup.gen < MaxGenerations
      /\ UNCHANGED <<call, calls>>
  BY DEF IInv, BeginStart
<1>2. sup.gen \in 0..MaxGenerations /\ MaxGenerations \in Nat
  BY <1>1 DEF TypeInv, SupRecord, RuntimeAssumption
<1>g. PICK g \in Generations : g = sup.gen + 1
  BY <1>1, <1>2 DEF Generations
<1>3. PICK k \in Nat : k = epoch + 1
  BY <1>1 DEF TypeInv
<1>4. /\ rt' = [rt EXCEPT ![g].epoch = k] /\ epoch' = k
      /\ retiring' = Detached /\ current' = 0 /\ quarantine' = 0
      /\ sup'.pc = "retire" /\ sup'.gen = g /\ sup' \in SupRecord
      /\ transition' \in Nat
  <2>1. transition + 1 \in Nat /\ g \in 0..MaxGenerations
    BY <1>1, <1>2 DEF TypeInv, Generations
  <2> QED BY <1>g, <1>3, <2>1 DEF BeginStart, Detach, SupRecord
<1>5. rt[g].state = "none" /\ ConnInv(g, rt[g])
  BY <1>1, <1>2, <1>g DEF LifeInv, IInv
<1>6. PICK conn \in RtRecord :
        /\ SetsRt(g, conn) /\ conn.lock = rt[g].lock /\ conn.inflight = rt[g].inflight
        /\ conn.state = rt[g].state /\ conn.draining = rt[g].draining
        /\ conn.alive = rt[g].alive /\ conn.requests = rt[g].requests
        /\ conn.replies = rt[g].replies
  <2>1. SetsRt(g, rt'[g])
    <3>1. rt \in [Generations -> RtRecord]
      BY <1>1 DEF TypeInv
    <3>2. rt' \in [Generations -> RtRecord]
      BY <1>4, <3>1, ZenonT(60) DEF RtRecord
    <3>3. \A h \in Generations : h # g => rt'[h] = rt[h]
      BY <1>4, <3>1
    <3> QED BY <3>2, <3>3 DEF SetsRt
  <2>2. rt'[g] \in RtRecord
    BY <2>1 DEF SetsRt
  <2> QED BY <1>1, <1>4, <2>1, <2>2, ZenonT(30) DEF TypeInv, RtRecord
<1>7. ConnInv(g, conn)
  BY <1>5, <1>6, ZenonT(30) DEF ConnInv, Paired
<1>8. /\ rt' \in [Generations -> RtRecord] /\ rt'[g] = conn
      /\ \A h \in Generations : h # g => rt'[h] = rt[h]
      /\ \A a \in Actors : ActorInv(a)'
      /\ \A h \in Generations : ConnInv(h, rt[h])'
  BY <1>1, <1>6, <1>7, RtStep, ZenonT(30)
<1>9. \A h \in Generations : rt'[h].state = rt[h].state
  BY <1>6, <1>8
<1>10. Detached \subseteq Generations /\ \A h \in Detached : rt[h].state # "none"
  BY DetachedAreStarted
<1>11. TypeInv'
  BY <1>1, <1>2, <1>4, <1>8, <1>10 DEF TypeInv
<1>12. LifeInv'
  <2>1. \A h \in Generations : h > sup'.gen => rt'[h].state = "none"
    <3>1. ASSUME NEW h \in Generations, h > sup'.gen PROVE h > sup.gen
      BY <1>2, <1>4, <1>g, <3>1 DEF Generations
    <3> QED BY <1>1, <1>9, <3>1 DEF LifeInv
  <2>2. call'[Supervisor].pc = "idle"
    BY <1>1 DEF LifeInv
  <2> QED BY <1>4, <1>5, <1>9, <1>10, <2>1, <2>2 DEF LifeInv
<1> QED BY <1>8, <1>11, <1>12 DEF IInv

\* The new generation starts with an empty connection that nobody has called.
LEMMA SpawnStep ==
  ASSUME RuntimeAssumption, IInv, NEW next \in {"admission", "quarantine"}, Spawn(next)
  PROVE  IInv'
<1>1. /\ TypeInv /\ LifeInv /\ sup.pc = "retire" /\ retiring = {}
      /\ sup.gen \in Generations /\ call[Supervisor].pc = "idle"
      /\ UNCHANGED <<calls, current, quarantine, retiring, epoch, transition>>
  BY DEF IInv, Spawn, LifeInv
<1>g. PICK g \in Generations : g = sup.gen
  BY <1>1
<1>2. ConnInv(g, rt[g]) /\ rt[g].state = "none"
  BY <1>1, <1>g DEF IInv, LifeInv
<1>3. PICK conn \in RtRecord :
        /\ SetsRt(g, conn) /\ conn.lock = rt[g].lock /\ conn.inflight = rt[g].inflight
        /\ conn.state = "started" /\ conn.draining = rt[g].draining /\ conn.alive
        /\ conn.requests = rt[g].requests /\ conn.replies = rt[g].replies
  <2>0. /\ rt \in [Generations -> RtRecord]
        /\ rt' = [rt EXCEPT ![g].state = "started", ![g].alive = TRUE]
    BY <1>1, <1>g DEF TypeInv, Spawn
  <2>1. SetsRt(g, rt'[g])
    <3>1. rt' \in [Generations -> RtRecord]
      BY <2>0, ZenonT(60) DEF RtRecord
    <3>2. \A h \in Generations : h # g => rt'[h] = rt[h]
      BY <2>0
    <3> QED BY <3>1, <3>2 DEF SetsRt
  <2>2. rt'[g] \in RtRecord
    BY <2>1 DEF SetsRt
  <2> QED BY <2>0, <2>1, <2>2, ZenonT(30) DEF RtRecord
<1>4. /\ rt' \in [Generations -> RtRecord] /\ rt'[g] = conn
      /\ \A h \in Generations : h # g => rt'[h] = rt[h]
  BY <1>3 DEF SetsRt
<1>5. Supervisor \in Actors
  BY DEF Actors
<1>6. PICK new \in CallRecord :
        /\ SetsCall(Supervisor, new) /\ new.pc \in {"idle", "enter"} /\ new.pc \notin Admitted
        /\ new.pc = "enter" => new.gen = g /\ new.id \in Ids /\ next = "admission"
        /\ new.reply # None => new.reply = new.id
  <2>1. CASE next = "quarantine"
    <3>1. UNCHANGED call
      BY <2>1 DEF Spawn
    <3>2. ActorInv(Supervisor) /\ call[Supervisor] \in CallRecord
      BY <1>1, <1>5 DEF IInv, TypeInv
    <3>3. SetsCall(Supervisor, call[Supervisor])
      BY <1>1, <3>1, <3>2 DEF SetsCall, TypeInv
    <3> QED BY <1>1, <3>2, <3>3 DEF ActorInv, Admitted
  <2>2. CASE next = "admission"
    <3> DEFINE rec == [pc |-> "enter", kind |-> "plain", gen |-> g,
                       id |-> <<Supervisor, g>>, reply |-> None]
    <3>1. <<Supervisor, g>> \in Ids /\ g \in 0..MaxGenerations
      BY <1>5 DEF Ids, Generations, RuntimeAssumption
    <3>2. rec \in CallRecord
      BY <3>1 DEF CallRecord, Pcs, Kinds
    <3>3. call' = [call EXCEPT ![Supervisor] = rec]
      BY <1>g, <2>2 DEF Spawn
    <3> HIDE DEF rec
    <3>4. SetsCall(Supervisor, rec)
      BY <1>1, <1>5, <3>2, <3>3 DEF SetsCall, TypeInv
    <3>5. rec.pc = "enter" /\ rec.gen = g /\ rec.id = <<Supervisor, g>> /\ rec.reply = None
      BY DEF rec
    <3> QED BY <2>2, <3>1, <3>2, <3>4, <3>5 DEF Admitted
  <2> QED BY <2>1, <2>2
<1>7. /\ call'[Supervisor] = new /\ call' \in [Actors -> CallRecord]
      /\ \A b \in Actors : b # Supervisor => call'[b] = call[b]
  BY <1>6 DEF SetsCall
<1>8. \A h : Calling(h)' = Calling(h)
  BY <1>1, <1>5, <1>6, CallingKept DEF Admitted
<1>9. ASSUME NEW b \in Actors PROVE ActorInv(b)'
  <2>1. CASE b = Supervisor
    BY <1>3, <1>4, <1>6, <1>7, <2>1 DEF ActorInv, Connected
  <2>2. CASE b # Supervisor
    <3>1. ActorInv(b) /\ call'[b] = call[b]
      BY <1>7, <2>2 DEF IInv
    <3>2. CASE call[b].pc = "idle"
      BY <3>1, <3>2 DEF ActorInv, Connected
    <3>3. CASE call[b].pc # "idle"
      BY <1>2, <1>4, <3>1, <3>3 DEF ActorInv
    <3> QED BY <3>2, <3>3
  <2> QED BY <2>1, <2>2
<1>10. ASSUME NEW h \in Generations PROVE ConnInv(h, rt[h])'
  <2>1. ConnInv(h, rt[h]) /\ None \notin Actors
    BY DEF IInv, RuntimeAssumption
  <2>2. CASE h = g
    <3>1. /\ conn.lock = None /\ conn.requests = <<>> /\ conn.replies = <<>>
          /\ conn.inflight = Cardinality(Calling(g))
      BY <1>2, <1>3, ZenonT(30) DEF ConnInv
    <3>2. Paired(conn, "idle", None)
      BY <3>1 DEF Paired
    <3>3. rt'[h] = conn /\ Calling(h)' = Calling(g)
      BY <1>4, <1>8, <2>2
    <3> QED BY <1>3, <2>1, <3>1, <3>2, <3>3, ZenonT(30) DEF ConnInv
  <2>3. CASE h # g
    <3>1. rt[h].lock # Supervisor
      BY <1>1, <1>5, <2>1 DEF ConnInv, Connected
    <3> QED BY <1>4, <1>7, <1>8, <2>1, <2>3, <3>1 DEF ConnInv
  <2> QED BY <2>2, <2>3
<1>11. sup' \in SupRecord /\ sup'.pc = next /\ sup'.gen = sup.gen
  BY <1>1 DEF Spawn, TypeInv, SupRecord
<1>12. TypeInv'
  BY <1>1, <1>4, <1>7, <1>11 DEF TypeInv
<1>13. LifeInv'
  <2>1. /\ current # 0 => current \in Generations
        /\ quarantine # 0 => quarantine \in Generations
    BY <1>1 DEF TypeInv, Generations, RuntimeAssumption
  <2>2. \A h \in Generations : rt[h].state # "none" => rt'[h].state # "none"
    BY <1>3, <1>4
  <2>3. \A h \in Generations : h > sup'.gen => rt'[h].state = "none"
    <3>1. ASSUME NEW h \in Generations, h > sup'.gen PROVE h # g
      BY <1>11, <1>g, <3>1 DEF Generations
    <3> QED BY <1>1, <1>4, <1>11, <3>1 DEF LifeInv
  <2>4. rt'[sup'.gen].state # "none"
    BY <1>3, <1>4, <1>11, <1>g
  <2>5. call'[Supervisor].pc # "idle" => sup'.pc = "admission"
    BY <1>6, <1>7, <1>11
  <2>6. sup'.pc # "retire"
    BY <1>11
  <2> QED BY <1>1, <1>11, <2>1, <2>2, <2>3, <2>4, <2>5, <2>6 DEF LifeInv
<1> QED BY <1>9, <1>10, <1>12, <1>13, ZenonT(30) DEF IInv

\* A generation that failed to start is retired with an empty connection.
LEMMA SpawnFailsStep ==
  ASSUME RuntimeAssumption, IInv, SpawnFails
  PROVE  IInv'
<1>1. /\ TypeInv /\ LifeInv /\ sup.pc = "retire" /\ retiring' = retiring \cup {sup.gen}
      /\ sup.gen \in Generations /\ call[Supervisor].pc = "idle"
      /\ UNCHANGED <<call, calls, current, quarantine, epoch, transition>>
  BY DEF IInv, SpawnFails, Rejected, LifeInv
<1>g. PICK g \in Generations : g = sup.gen
  BY <1>1
<1>2. ConnInv(g, rt[g]) /\ rt[g].state = "none"
  BY <1>1, <1>g DEF IInv, LifeInv
<1>3. PICK conn \in RtRecord :
        /\ SetsRt(g, conn) /\ conn.lock = rt[g].lock /\ conn.inflight = rt[g].inflight
        /\ conn.state = "started" /\ conn.draining = rt[g].draining /\ conn.alive = rt[g].alive
        /\ conn.requests = rt[g].requests /\ conn.replies = rt[g].replies
  <2>0. rt \in [Generations -> RtRecord] /\ rt' = [rt EXCEPT ![g].state = "started"]
    BY <1>1, <1>g DEF TypeInv, SpawnFails
  <2>1. SetsRt(g, rt'[g])
    <3>1. rt' \in [Generations -> RtRecord]
      BY <2>0, ZenonT(60) DEF RtRecord
    <3>2. \A h \in Generations : h # g => rt'[h] = rt[h]
      BY <2>0
    <3> QED BY <3>1, <3>2 DEF SetsRt
  <2>2. rt'[g] \in RtRecord
    BY <2>1 DEF SetsRt
  <2> QED BY <2>0, <2>1, <2>2, ZenonT(30) DEF RtRecord
<1>4. ConnInv(g, conn)
  BY <1>2, <1>3, ZenonT(30) DEF ConnInv, Paired
<1>5. /\ rt' \in [Generations -> RtRecord] /\ rt'[g] = conn
      /\ \A h \in Generations : h # g => rt'[h] = rt[h]
      /\ \A a \in Actors : ActorInv(a)'
      /\ \A h \in Generations : ConnInv(h, rt[h])'
  BY <1>1, <1>3, <1>4, RtStep, ZenonT(30)
<1>6. sup' \in SupRecord /\ sup'.pc = "closing" /\ sup'.gen = sup.gen
  BY <1>1 DEF SpawnFails, Rejected, TypeInv, SupRecord
<1>7. TypeInv'
  BY <1>1, <1>5, <1>6 DEF TypeInv
<1>8. LifeInv'
  <2>1. /\ current # 0 => current \in Generations
        /\ quarantine # 0 => quarantine \in Generations
    BY <1>1 DEF TypeInv, Generations, RuntimeAssumption
  <2>2. \A h \in Generations : rt[h].state # "none" => rt'[h].state # "none"
    BY <1>3, <1>5
  <2>3. \A h \in Generations : h > sup'.gen => rt'[h].state = "none"
    <3>1. ASSUME NEW h \in Generations, h > sup'.gen PROVE h # g
      BY <1>6, <1>g, <3>1 DEF Generations
    <3> QED BY <1>1, <1>5, <1>6, <3>1 DEF LifeInv
  <2>4. rt'[sup.gen].state # "none"
    BY <1>3, <1>5, <1>g
  <2>5. \A h \in retiring' : rt'[h].state # "none"
    BY <1>1, <2>2, <2>4 DEF LifeInv, TypeInv
  <2> QED BY <1>1, <1>6, <2>1, <2>2, <2>3, <2>5 DEF LifeInv
<1> QED BY <1>5, <1>7, <1>8, ZenonT(30) DEF IInv

\* Only a generation that has been started is admitted, quarantined or retired.
LEMMA PublicationStep ==
  ASSUME RuntimeAssumption, IInv, NEW new \in CallRecord, SetsCall(Supervisor, new),
         new.pc = "idle", new.reply # None => new.reply = new.id,
         call[Supervisor].pc \notin Admitted,
         UNCHANGED <<calls, rt, epoch, transition>>,
         sup.pc \in {"admission", "quarantine"}, Published \/ Rejected,
         current' \in {current, sup.gen}, quarantine' \in {quarantine, sup.gen}
  PROVE  IInv'
<1>1. /\ TypeInv /\ LifeInv /\ Supervisor \in Actors
      /\ sup.gen \in Generations /\ rt[sup.gen].state # "none"
  BY DEF IInv, LifeInv, Actors
<1>2. (\A b \in Actors : ActorInv(b)') /\ (\A h \in Generations : ConnInv(h, rt[h])')
  <2>1. new.pc \notin Admitted
    BY DEF Admitted
  <2> QED BY <1>1, <2>1, OutsideStep, ZenonT(30)
<1>3. /\ sup' \in SupRecord /\ sup'.gen = sup.gen /\ sup'.pc \in {"idle", "closing"}
      /\ retiring' \in {retiring, retiring \cup {sup.gen}}
  BY <1>1 DEF Published, Rejected, TypeInv, SupRecord
<1>4. sup.gen \in 0..MaxGenerations
  BY <1>1 DEF TypeInv, SupRecord
<1>5. TypeInv'
  BY <1>1, <1>3, <1>4 DEF TypeInv, SetsCall
<1>6. call'[Supervisor].pc = "idle"
  BY DEF SetsCall
<1>7. LifeInv'
  BY <1>1, <1>3, <1>6 DEF LifeInv
<1> QED BY <1>2, <1>5, <1>7 DEF IInv

LEMMA AdmitStep ==
  ASSUME RuntimeAssumption, IInv, Admit
  PROVE  IInv'
<1>1. TypeInv /\ Supervisor \in Actors /\ call[Supervisor].pc \notin Admitted
  BY DEF IInv, Actors, Admit, At, Admitted
<1>2. Idle \in CallRecord /\ Idle.pc = "idle" /\ Idle.reply = None
  <2>1. 0 \in 0..MaxGenerations
    BY DEF RuntimeAssumption
  <2> QED BY <2>1 DEF Idle, CallRecord, Pcs
<1>3. SetsCall(Supervisor, Idle)
  BY <1>1, <1>2 DEF Admit, SetsCall, TypeInv
<1>4. /\ UNCHANGED <<calls, rt, epoch, transition>> /\ sup.pc \in {"admission", "quarantine"}
      /\ Published \/ Rejected
      /\ current' \in {current, sup.gen} /\ quarantine' \in {quarantine, sup.gen}
  BY DEF Admit
<1> QED BY <1>1, <1>2, <1>3, <1>4, PublicationStep

LEMMA QuarantineStep ==
  ASSUME RuntimeAssumption, IInv, Quarantine
  PROVE  IInv'
<1>1. /\ TypeInv /\ Supervisor \in Actors /\ sup.pc = "quarantine" /\ UNCHANGED call
      /\ call[Supervisor].pc = "idle" /\ ActorInv(Supervisor)
  BY DEF IInv, LifeInv, Actors, Quarantine
<1>2. PICK new \in CallRecord : new = call[Supervisor] /\ SetsCall(Supervisor, new)
  BY <1>1 DEF SetsCall, TypeInv
<1>3. new.pc = "idle" /\ new.pc \notin Admitted /\ (new.reply # None => new.reply = new.id)
  BY <1>1, <1>2 DEF ActorInv, Admitted
<1>4. /\ UNCHANGED <<calls, rt, epoch, transition>> /\ sup.pc \in {"admission", "quarantine"}
      /\ Published \/ Rejected
      /\ current' \in {current, sup.gen} /\ quarantine' \in {quarantine, sup.gen}
  BY DEF Quarantine
<1> QED BY <1>2, <1>3, <1>4, PublicationStep

\* The other steps of the supervisor, and another process's epoch.
LEMMA OtherLifeStep ==
  ASSUME RuntimeAssumption, IInv,
         Close \/ FinishClose \/ DrainTimesOut \/ ForeignEpoch
  PROVE  IInv'
<1>1. TypeInv /\ LifeInv
  BY DEF IInv
<1>2. 0 \in 0..MaxGenerations
  BY DEF RuntimeAssumption
<1>3. CASE Close
  <2>1. /\ retiring' = Detached /\ current' = 0 /\ quarantine' = 0
        /\ UNCHANGED <<call, calls, rt, epoch>> /\ transition' \in Nat
        /\ sup' \in SupRecord /\ sup'.pc = "closing" /\ sup'.gen = sup.gen /\ sup.pc = "idle"
    BY <1>1, <1>3 DEF Close, Detach, TypeInv, SupRecord
  <2>2. Detached \subseteq Generations /\ \A h \in Detached : rt[h].state # "none"
    BY DetachedAreStarted
  <2>3. LifeInv'
    BY <1>1, <2>1, <2>2 DEF LifeInv
  <2> QED BY <1>1, <1>2, <2>1, <2>2, <2>3, LifeStep DEF TypeInv
<1>4. CASE FinishClose \/ DrainTimesOut
  <2>1. /\ UNCHANGED <<call, calls, rt, current, quarantine, retiring, epoch, transition>>
        /\ sup' \in SupRecord /\ sup'.pc \in {"idle", "closing"} /\ sup'.gen = sup.gen
        /\ sup.pc \in {"retire", "closing"}
    BY <1>1, <1>4 DEF FinishClose, DrainTimesOut, TypeInv, SupRecord
  <2>2. LifeInv'
    BY <1>1, <2>1 DEF LifeInv
  <2> QED BY <1>1, <2>1, <2>2, LifeStep DEF TypeInv
<1>5. CASE ForeignEpoch
  <2>1. /\ UNCHANGED <<call, calls, rt, sup, current, quarantine, retiring, transition>>
        /\ epoch' \in Nat
    BY <1>1, <1>5 DEF ForeignEpoch, TypeInv
  <2>2. LifeInv'
    BY <1>1, <2>1 DEF LifeInv
  <2> QED BY <1>1, <2>1, <2>2, LifeStep DEF TypeInv
<1> QED BY <1>3, <1>4, <1>5

-----------------------------------------------------------------------------
(* The invariant, and the theorem.                                         *)

LEMMA InitIInv ==
  ASSUME RuntimeAssumption, Init
  PROVE  IInv
<1>1. Idle \in CallRecord /\ Unstarted \in RtRecord
  <2>1. <<>> \in Seq(Ids) /\ 0 \in 0..MaxGenerations
    BY DEF RuntimeAssumption
  <2>2. Idle \in CallRecord
    BY <2>1 DEF Idle, CallRecord, Pcs
  <2>3. Unstarted \in RtRecord
    BY <2>1 DEF Unstarted, RtRecord
  <2> QED BY <2>2, <2>3
<1>2. TypeInv
  <2>1. 0 \in Nat /\ 0 \in 0..MaxGenerations
    BY DEF RuntimeAssumption
  <2>2. sup \in SupRecord
    BY <2>1 DEF Init, SupRecord
  <2>3. /\ call \in [Actors -> CallRecord] /\ calls \in [Actors -> Nat]
        /\ rt \in [Generations -> RtRecord]
    BY <1>1, <2>1 DEF Init
  <2> QED BY <2>1, <2>2, <2>3 DEF Init, TypeInv
<1>3. (\A a \in Actors : call[a] = Idle) /\ (\A g \in Generations : rt[g] = Unstarted)
  BY DEF Init
<1>4. LifeInv
  BY <1>3 DEF Init, LifeInv, Idle, Unstarted, Actors
<1>5. \A a \in Actors : ActorInv(a)
  BY <1>3 DEF ActorInv, Idle, Connected
<1>6. ASSUME NEW g \in Generations PROVE ConnInv(g, rt[g])
  <2>1. Calling(g) = {}
    <3>1. \A a \in Actors : call[a].pc = "idle"
      BY <1>3 DEF Idle
    <3> QED BY <3>1 DEF Calling, Admitted
  <2>2. Cardinality(Calling(g)) = 0
    BY <2>1, FS_EmptySet
  <2>3. /\ rt[g].state = "none" /\ rt[g].inflight = 0 /\ rt[g].lock = None
        /\ rt[g].requests = <<>> /\ rt[g].replies = <<>> /\ rt[g].alive = FALSE
    BY <1>3 DEF Unstarted
  <2>4. Paired(rt[g], "idle", None)
    BY <2>3 DEF Paired
  <2> QED BY <2>2, <2>3, <2>4 DEF ConnInv, RuntimeAssumption
<1> QED BY <1>2, <1>4, <1>5, <1>6 DEF IInv

LEMMA NextIInv ==
  ASSUME RuntimeAssumption, IInv, [Next]_vars
  PROVE  IInv'
<1>1. TypeInv /\ LifeInv
  BY DEF IInv
<1>2. CASE UNCHANGED vars
  <2>1. UNCHANGED <<call, calls, rt, lifecycle>>
    BY <1>2 DEF vars, lifecycle
  <2>2. LifeInv'
    BY <1>1, <2>1 DEF LifeInv, lifecycle
  <2> QED BY <1>1, <2>1, <2>2, LifeStep DEF TypeInv, lifecycle
<1>3. CASE Supervise
  BY <1>3, BeginStartStep, SpawnStep, AdmitStep, QuarantineStep, OtherLifeStep,
     DrainStep, RetireStep DEF Supervise
<1>4. CASE SpawnFails \/ DrainTimesOut \/ ForeignEpoch
  BY <1>4, SpawnFailsStep, OtherLifeStep
<1>5. ASSUME NEW t \in Threads, TakeRuntime(t) \/ TakeQuarantined(t) PROVE IInv'
  <2>1. PICK kind \in Kinds, g \in {current, quarantine} : Take(t, kind, g)
    BY <1>5 DEF TakeRuntime, TakeQuarantined, Kinds
  <2>2. g \in Generations /\ rt[g].state # "none"
    <3>1. g # 0
      BY <2>1 DEF Take, IsCurrent
    <3> QED BY <1>1, <3>1 DEF TypeInv, LifeInv, Generations, RuntimeAssumption
  <2> QED BY <2>1, <2>2, TakeStep
<1>6. ASSUME NEW a \in Actors, Call(a) PROVE IInv'
  <2>1. CASE HoldOuter(a)
    <3>1. /\ Goto(a, "enter") /\ UNCHANGED <<rt, calls, lifecycle>>
          /\ call[a].pc = "outer"
      BY <2>1 DEF HoldOuter, At
    <3> QED BY <3>1, MoveStep DEF Pcs, Admitted, Connected
  <2>2. CASE HoldInner(a)
    <3>1. /\ Goto(a, "lock") /\ UNCHANGED <<rt, calls, lifecycle>>
          /\ call[a].pc = "inner"
      BY <2>2 DEF HoldInner, At
    <3> QED BY <3>1, MoveStep DEF Pcs, Admitted, Connected
  <2> QED BY <1>6, <2>1, <2>2, EnterStep, LockStep, SendStep, ReceiveStep, UnlockStep,
             DoneStep DEF Call
<1>7. ASSUME NEW g \in Generations, Owner(g) \/ OwnerDies(g) PROVE IInv'
  BY <1>7, OwnerStep, OwnerDiesStep
<1> QED BY <1>2, <1>3, <1>4, <1>5, <1>6, <1>7 DEF Next

LEMMA IInvImplies ==
  ASSUME IInv
  PROVE  RepliesArePaired
<1>1. ReplyIsForTheRequest
  BY DEF IInv, ActorInv, ReplyIsForTheRequest
<1>2. RetiredIsQuiet
  <2> SUFFICES ASSUME NEW g \in Generations, rt[g].state = "closed",
                      NEW a \in Actors, call[a].gen = g
               PROVE  call[a].pc \in {"idle", "outer", "enter", "done"}
    BY DEF RetiredIsQuiet, Gen
  <2>1. a \notin Calling(g) /\ call[a] \in CallRecord
    BY DEF IInv, ConnInv, TypeInv
  <2> QED BY <2>1 DEF Calling, CallRecord, Pcs
<1> QED BY <1>1, <1>2 DEF RepliesArePaired

\* For any number of threads, generations and faults, while the gate's lock file is
\* not replaced: a caller gets the answer to its own request (_call_admitted) and a
\* generation is closed only when nothing it admitted is left.  The count of
\* admitted calls is exact, the lock holder is a call on the connection, and a live
\* connection carries that call's one frame or nothing.
THEOREM RepliesStayPaired == RuntimeAssumption /\ Spec => []RepliesArePaired
<1> SUFFICES ASSUME RuntimeAssumption PROVE Spec => []RepliesArePaired
  OBVIOUS
<1>1. Init => IInv
  BY InitIInv
<1>2. IInv /\ [Next]_vars => IInv'
  BY NextIInv
<1>3. IInv => RepliesArePaired
  BY IInvImplies
<1> QED BY <1>1, <1>2, <1>3, PTL DEF Spec

=============================================================================
