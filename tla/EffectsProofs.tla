----------------------------- MODULE EffectsProofs -----------------------------
(***************************************************************************)
(* Proofs about Effects for any sets of runtimes, streams, members and     *)
(* entitlements.  The inductive invariant IInv says what a job between two *)
(* of its steps may rely on (JobsInv: an adoption was computed from the    *)
(* records that still stand, at most one job of a stream may call the      *)
(* provider and it has not yet), how far a stream has come (StreamInv: its *)
(* closure is the reduction of some of the receipts that are retained now) *)
(* and how its Run sees it (CallInv).                                      *)
(***************************************************************************)
EXTENDS Effects, FiniteSetTheorems, TLAPS

-------------------------------------------------------------------------------
(* What holds of the reduction for every bundle, every set of transmissions *)
(* and every set of observations.                                           *)

\* A reduction is closed exactly when every member is settled.
LEMMA ClosedIffSettled ==
    ASSUME NEW prior \in OpenOutcomes, NEW children, NEW members, NEW obs
    PROVE  reduce_child_evidence(prior, children, members, obs) \in ClosedOutcomes
              <=> \A m \in members : Settled(obs, children, m)
BY DEF reduce_child_evidence, ClosedOutcomes, OpenOutcomes

\* More observations do not change whether a settled member occurred, unless
\* they contradict the earlier ones.
LEMMA OccurrenceIsStable ==
    ASSUME NEW children, NEW members, NEW obs, NEW more, obs \subseteq more,
           \A m \in members : Settled(obs, children, m),
           \A m \in members : Settled(more, children, m)
    PROVE  occurred(obs, children, members) = occurred(more, children, members)
<1>1. SUFFICES ASSUME NEW m \in members
               PROVE  (\E c \in children : Observed(obs, c, m, "OCCURRED"))
                          <=> (\E c \in children : Observed(more, c, m, "OCCURRED"))
    BY DEF occurred, Settled
<1>2. \A c \in children, o \in Terminal : Observed(obs, c, m, o) => Observed(more, c, m, o)
    BY DEF Observed
<1>3. ASSUME NEW c \in children, Observed(more, c, m, "OCCURRED")
      PROVE  Observed(obs, c, m, "OCCURRED")
    <2>1. ~Observed(more, c, m, "PERMANENTLY_INCAPABLE")
        BY <1>3 DEF Settled, Contradicted, Terminal
    <2>2. ~Observed(obs, c, m, "PERMANENTLY_INCAPABLE")
        BY <2>1, <1>2 DEF Terminal
    <2>3. \E o \in Terminal : Observed(obs, c, m, o)
        BY DEF Settled, Unobserved
    <2> QED BY <2>2, <2>3 DEF Terminal
<1> QED BY <1>2, <1>3 DEF Terminal

\* Receipts retained after a closure may reopen the question, but they never turn
\* one closed outcome into another: append_effect_receipt and a second
\* resolve_original_effect agree with the closure, whatever the provider signs.
THEOREM ClosedOutcomesNeverFlip ==
    ASSUME NEW prior \in OpenOutcomes, NEW children, NEW members, NEW obs, NEW more,
           obs \subseteq more,
           reduce_child_evidence(prior, children, members, obs) \in ClosedOutcomes,
           reduce_child_evidence(prior, children, members, more) \in ClosedOutcomes
    PROVE  reduce_child_evidence(prior, children, members, obs)
               = reduce_child_evidence(prior, children, members, more)
<1>1. \A m \in members : Settled(obs, children, m) /\ Settled(more, children, m)
    BY ClosedIffSettled
<1>2. occurred(obs, children, members) = occurred(more, children, members)
    BY <1>1, OccurrenceIsStable
<1> QED BY <1>1, <1>2 DEF reduce_child_evidence

\* Absence never proves anything: with a member no receipt has reported for some
\* transmission, the reduction is not closed.
THEOREM AbsenceNeverCloses ==
    ASSUME NEW prior \in OpenOutcomes, NEW children, NEW members, NEW obs,
           NEW m \in members, NEW c \in children,
           \A o \in Terminal : ~Observed(obs, c, m, o)
    PROVE  reduce_child_evidence(prior, children, members, obs) = prior
<1>1. ~Settled(obs, children, m)
    BY DEF Settled, Unobserved
<1> QED BY <1>1 DEF reduce_child_evidence

-------------------------------------------------------------------------------
(* The inductive invariant.                                                *)

Reduced(s, obs) == reduce_child_evidence("OUTCOME_UNKNOWN", {Child(s)}, Members, obs)

TypeInv ==
    /\ now \in 0..MaxTime /\ current \in Entitlements \cup {NoEntitlement}
    /\ worker \in opened \cup {NoWorker} /\ crashed \subseteq opened /\ opened \subseteq Runtimes
    /\ run \in {"ACTIVE", "SUSPENDED", "ABORTED"}
    /\ call \in [Tools -> CallStates] /\ closure \in [Streams -> ClosedOutcomes \cup {None}]
    /\ DOMAIN previews = Streams /\ DOMAIN intent = Streams /\ DOMAIN send = Streams
    /\ DOMAIN claim = Streams /\ DOMAIN evidence = Streams /\ DOMAIN reduction = Streams
    /\ DOMAIN transfer = Streams /\ DOMAIN late = Streams /\ DOMAIN attempts = Streams
    /\ DOMAIN used = Tools

\* What every stream has: the order of its records, its receipts, and a closure
\* that is the reduction of observations which are still retained.
StreamInv(s) ==
    /\ None \notin previews[s]
    /\ s \in Compensations => \A q \in previews[s] : q.basis # None
    /\ intent[s] # None => intent[s] \in previews[s]
    /\ claim[s] # None => intent[s] # None
    /\ attempts[s] \in {0, 1} /\ (attempts[s] = 1 => claim[s] # None)
    /\ transfer[s] # None => /\ transfer[s].occurred \cup transfer[s].incapable = Members
                             /\ transfer[s].occurred \cap transfer[s].incapable = {}
    /\ late[s] # {} => transfer[s] # None
    /\ evidence[s] \in Seq(Receipts(s))
    /\ closure[s] # None => claim[s] # None
    /\ closure[s] # None => \E obs \in SUBSET ObservationsOf(s, evidence[s]) :
                                Reduced(s, obs) = closure[s]

\* How the Run sees the stream of one of its calls.
CallInv(t) ==
    /\ intent[t] = None => call[t] \in {"INITIALIZED", "CANCELLED"}
    /\ intent[t] # None /\ claim[t] = None => call[t] = "ACCEPTED"
    /\ claim[t] # None /\ closure[t] = None => call[t] = "OUTCOME_UNKNOWN"
    /\ closure[t] = "FAILED_NO_EFFECT" => call[t] = "FAILED_DEFINITE"
    /\ closure[t] \in {"CONFIRMED", "PARTIAL_CONFIRMED"} => call[t] = "SUCCEEDED"
    /\ used[t] \subseteq IF call[t] = "CANCELLED" THEN {"NOT_EXECUTED"} ELSE {closure[t]} \ {None}

RunInv == obligations = {t \in Tools : claim[t] # None} /\ \A t \in Tools : CallInv(t)

EmitOps == {"claimed", "checked"}

\* What a job between two of its steps may rely on.
JobInv(j) ==
    /\ j.by \in opened \ crashed /\ j.stream \in Streams
    /\ j = Job(j.by, j.op, j.stream, j.body)
    /\ j.op \in {"preview", "adopt", "claimed", "checked", "received"}
    /\ j.op = "preview" => j.stream \in Tools /\ j.body # None
    /\ j.op = "adopt" => /\ j.stream \in Tools /\ j.body \in previews[j.stream]
                         /\ intent[j.stream] = None /\ call[j.stream] = "INITIALIZED"
    /\ j.op \in EmitOps => claim[j.stream] # None /\ attempts[j.stream] = 0
    /\ j.op = "received" => j.body \in Receipts(j.stream)

JobsInv ==
    /\ \A j \in jobs : JobInv(j)
    /\ \A j, k \in jobs : j.op \in EmitOps /\ k.op \in EmitOps /\ j.stream = k.stream => j = k

\* The sends, their handoffs and their order are one history.
Sent == {s \in Streams : send[s] # None}
GateInv ==
    /\ handoffs = {[request |-> send[s], payload |-> <<"send", s>>] : s \in Sent}
    /\ IsFiniteSet(handoffs)
    /\ order \in Seq(Streams) /\ Cardinality(handoffs) = Len(order)

IInv ==
    /\ TypeInv /\ RunInv /\ JobsInv /\ GateInv
    /\ \A s \in Streams : StreamInv(s)
-----------------------------------------------------------------------------
(* What the reduction says about retained receipts.                          *)

\* A retained receipt adds observations and removes none.
LEMMA MoreObservations ==
    ASSUME NEW s, NEW X, NEW e \in Seq(X), NEW r
    PROVE  /\ ToSet(Append(e, r)) = ToSet(e) \cup {r}
           /\ ObservationsOf(s, e) \subseteq ObservationsOf(s, Append(e, r))
<1>1. ToSet(Append(e, r)) = ToSet(e) \cup {r}
    <2>1. /\ DOMAIN Append(e, r) = 1..(Len(e) + 1) /\ DOMAIN e = 1..Len(e) /\ Len(e) \in Nat
          /\ Append(e, r)[Len(e) + 1] = r
          /\ \A i \in 1..Len(e) : Append(e, r)[i] = e[i]
        OBVIOUS
    <2>2. ASSUME NEW x PROVE x \in ToSet(Append(e, r)) <=> x \in ToSet(e) \cup {r}
        <3>1. x \in ToSet(Append(e, r)) => x \in ToSet(e) \cup {r}
            BY <2>1 DEF ToSet
        <3>2. x \in ToSet(e) => x \in ToSet(Append(e, r))
            BY <2>1 DEF ToSet
        <3>3. r \in ToSet(Append(e, r))
            BY <2>1 DEF ToSet
        <3>4. QED
            BY <3>1, <3>2, <3>3
    <2>3. QED
        BY <2>2
<1>2. QED
    BY <1>1 DEF ObservationsOf

\* Two closed reductions of one stream agree when the second has all observations
\* of the first.
LEMMA ReductionsAgree ==
    ASSUME NEW s, NEW obs, NEW more, obs \subseteq more,
           Reduced(s, obs) \in ClosedOutcomes, Reduced(s, more) \in ClosedOutcomes
    PROVE  Reduced(s, obs) = Reduced(s, more)
<1>1. "OUTCOME_UNKNOWN" \in OpenOutcomes
    BY DEF OpenOutcomes
<1>2. QED
    BY <1>1, ClosedOutcomesNeverFlip DEF Reduced

\* A closure agrees with what the retained receipts say now, if they say anything.
LEMMA ClosureAgrees ==
    ASSUME EffectsAssumption, NEW s \in Streams, StreamInv(s), closure[s] # None,
           closure[s] \in ClosedOutcomes \cup {None},
           evidence_outcome(s, evidence[s]) \in ClosedOutcomes
    PROVE  evidence_outcome(s, evidence[s]) = closure[s]
<1>1. PICK obs \in SUBSET ObservationsOf(s, evidence[s]) : Reduced(s, obs) = closure[s]
    BY DEF StreamInv
<1>2. evidence_outcome(s, evidence[s]) = Reduced(s, ObservationsOf(s, evidence[s]))
    BY DEF evidence_outcome, Reduced
<1>3. QED
    BY <1>1, <1>2, ReductionsAgree

\* With one transmission, a closed reduction is decided by the members that
\* occurred.
LEMMA ReducedByOccurrence ==
    ASSUME NEW s, NEW obs, NEW more,
           Reduced(s, obs) \in ClosedOutcomes,
           \A m \in Members : Settled(more, {Child(s)}, m),
           occurred(obs, {Child(s)}, Members) = occurred(more, {Child(s)}, Members)
    PROVE  Reduced(s, obs) = Reduced(s, more)
<1>1. \A m \in Members : Settled(obs, {Child(s)}, m)
    BY ClosedIffSettled DEF Reduced, OpenOutcomes
<1>2. QED
    BY <1>1 DEF Reduced, reduce_child_evidence

\* What is observed of a member is what some receipt says of it.
LEMMA ObservedInReceipts ==
    ASSUME NEW s, NEW e, NEW m
    PROVE  /\ Observed(ObservationsOf(s, e), Child(s), m, "OCCURRED")
                <=> \E r \in ToSet(e) : m \in r.occurred
           /\ Observed(ObservationsOf(s, e), Child(s), m, "PERMANENTLY_INCAPABLE")
                <=> \E r \in ToSet(e) : m \in r.incapable
<1> DEFINE obs(r) == {[child |-> Child(s), member |-> x, outcome |-> "OCCURRED"] : x \in r.occurred}
                     \cup {[child |-> Child(s), member |-> x, outcome |-> "PERMANENTLY_INCAPABLE"] :
                               x \in r.incapable}
<1>1. ASSUME NEW r
      PROVE  /\ [child |-> Child(s), member |-> m, outcome |-> "OCCURRED"] \in obs(r)
                   <=> m \in r.occurred
             /\ [child |-> Child(s), member |-> m, outcome |-> "PERMANENTLY_INCAPABLE"] \in obs(r)
                   <=> m \in r.incapable
    OBVIOUS
<1>2. ObservationsOf(s, e) = UNION {obs(r) : r \in ToSet(e)}
    BY DEF ObservationsOf
<1> HIDE DEF obs
<1>3. QED
    BY <1>1, <1>2 DEF Observed

\* A closure that no retained receipt contradicts states what the provider did.
LEMMA ClosureStatesTheTransfer ==
    ASSUME EffectsAssumption, NEW s \in Streams, StreamInv(s), closure[s] # None,
           closure[s] \in ClosedOutcomes \cup {None},
           \A r \in ToSet(evidence[s]) : ~Rival(s, r)
    PROVE  transfer[s] # None /\ closure[s] = evidence_outcome(s, <<transfer[s]>>)
<1> DEFINE all == ObservationsOf(s, evidence[s])
           first == ObservationsOf(s, <<transfer[s]>>)
<1>1. PICK obs \in SUBSET all : Reduced(s, obs) = closure[s]
    BY DEF StreamInv
<1>2. \A m \in Members : Settled(obs, {Child(s)}, m)
    BY <1>1, ClosedIffSettled DEF Reduced, OpenOutcomes
<1>3. ASSUME NEW m \in Members
      PROVE  /\ Observed(obs, Child(s), m, "OCCURRED") => Observed(all, Child(s), m, "OCCURRED")
             /\ Observed(obs, Child(s), m, "PERMANENTLY_INCAPABLE")
                  => Observed(all, Child(s), m, "PERMANENTLY_INCAPABLE")
             /\ \/ Observed(obs, Child(s), m, "OCCURRED")
                \/ Observed(obs, Child(s), m, "PERMANENTLY_INCAPABLE")
    <2>1. Settled(obs, {Child(s)}, m)
        BY <1>2
    <2>2. QED
        BY <2>1 DEF Observed, Settled, Unobserved, Terminal
<1>4. transfer[s] # None
    <2>1. PICK m \in Members : TRUE
        BY DEF EffectsAssumption, StreamsAssumption
    <2>2. ToSet(evidence[s]) # {}
        BY <1>3, <2>1, ObservedInReceipts
    <2>3. ToSet(evidence[s]) \subseteq Receipts(s)
        BY DEF StreamInv, ToSet
    <2>4. QED
        BY <2>2, <2>3 DEF Receipts, StreamInv
<1>t. /\ transfer[s].occurred \cup transfer[s].incapable = Members
      /\ transfer[s].occurred \cap transfer[s].incapable = {}
    BY <1>4 DEF StreamInv
<1>5. ASSUME NEW m \in Members
      PROVE  /\ Observed(obs, Child(s), m, "OCCURRED") => m \in transfer[s].occurred
             /\ Observed(obs, Child(s), m, "PERMANENTLY_INCAPABLE") => m \in transfer[s].incapable
    BY <1>3, <1>t, ObservedInReceipts DEF Rival
<1>6. ToSet(<<transfer[s]>>) = {transfer[s]}
    BY DEF ToSet
<1>7. ASSUME NEW m \in Members
      PROVE  /\ Observed(first, Child(s), m, "OCCURRED") <=> m \in transfer[s].occurred
             /\ Observed(first, Child(s), m, "PERMANENTLY_INCAPABLE") <=> m \in transfer[s].incapable
    BY <1>6, ObservedInReceipts
<1>8. \A m \in Members : Settled(first, {Child(s)}, m)
    BY <1>7, <1>t DEF Settled, Contradicted, Unobserved, Terminal
<1>9. occurred(obs, {Child(s)}, Members) = occurred(first, {Child(s)}, Members)
    <2>1. ASSUME NEW m \in Members
          PROVE  Observed(obs, Child(s), m, "OCCURRED") <=> Observed(first, Child(s), m, "OCCURRED")
        BY <1>3, <1>5, <1>7, <1>t
    <2>2. QED
        BY <2>1, <1>2, <1>8 DEF occurred, Settled
<1>10. evidence_outcome(s, <<transfer[s]>>) = Reduced(s, first)
    BY DEF evidence_outcome, Reduced
<1>11. Reduced(s, obs) \in ClosedOutcomes
    BY <1>1
<1>12. QED
    BY <1>1, <1>4, <1>8, <1>9, <1>10, <1>11, ReducedByOccurrence
-----------------------------------------------------------------------------
(* What a step leaves alone.                                                 *)

LEMMA StreamsKept ==
    ASSUME \A s \in Streams : StreamInv(s),
           UNCHANGED <<previews, intent, claim, evidence, closure, provider>>
    PROVE  \A s \in Streams : StreamInv(s)'
BY DEF StreamInv, Receipts, ObservationsOf, Reduced, provider

LEMMA CallsKept ==
    ASSUME RunInv, UNCHANGED <<intent, claim, closure, call, obligations, used>>
    PROVE  RunInv'
BY DEF RunInv, CallInv

LEMMA GateKept ==
    ASSUME GateInv, UNCHANGED <<send, order, handoffs>>
    PROVE  GateInv'
BY DEF GateInv, Sent

\* The jobs that a publication leaves keep what they rely on: claims are never
\* withdrawn and receipts never disappear.
LEMMA StaledKept ==
    ASSUME JobsInv, jobs' \subseteq Staled(jobs), UNCHANGED <<opened, crashed, provider>>,
           \A s \in Streams : claim[s] # None => claim'[s] # None
    PROVE  JobsInv'
<1>1. ASSUME NEW j \in jobs' PROVE j \in jobs /\ JobInv(j) /\ j.op \notin {"preview", "adopt"}
    BY DEF JobsInv, Staled
<1>2. ASSUME NEW j \in jobs' PROVE JobInv(j)'
    BY <1>1 DEF JobInv, Receipts, provider
<1>3. QED
    BY <1>1, <1>2 DEF JobsInv

\* Fewer jobs, and no record changed.
LEMMA JobsKept ==
    ASSUME JobsInv, jobs' \subseteq jobs, opened \subseteq opened',
           \A j \in jobs' : j.by \notin crashed',
           UNCHANGED <<previews, intent, claim, call, provider>>
    PROVE  JobsInv'
<1>1. ASSUME NEW j \in jobs' PROVE j \in jobs /\ JobInv(j)
    BY DEF JobsInv
<1>2. ASSUME NEW j \in jobs' PROVE JobInv(j)'
    BY <1>1 DEF JobInv, Receipts, provider
<1>3. QED
    BY <1>1, <1>2 DEF JobsInv

LEMMA SeqMonotone ==
    ASSUME NEW S, NEW T, S \subseteq T, NEW e \in Seq(S) PROVE e \in Seq(T)
OBVIOUS

\* A step that only changes what jobs there are.
LEMMA JobsOnly ==
    ASSUME IInv, JobsInv', UNCHANGED <<gate, processes, runvars, records, provider, used>>
    PROVE  IInv'
<1>1. TypeInv'
    BY DEF IInv, TypeInv, gate, processes, runvars, records, provider
<1>2. QED
    BY <1>1, StreamsKept, CallsKept, GateKept DEF IInv, gate, processes, runvars, records, provider

\* A job that may be added: it relies on what holds, and calls no provider.
LEMMA AddJob ==
    ASSUME IInv, NEW k, JobInv(k), k.op \notin EmitOps, jobs' = jobs \cup {k},
           UNCHANGED <<gate, processes, runvars, records, provider, used>>
    PROVE  IInv'
<1>1. ASSUME NEW j \in jobs' PROVE JobInv(j)'
    <2>1. JobInv(j)
        BY DEF IInv, JobsInv
    <2>2. QED
        BY <2>1 DEF JobInv, Receipts, processes, runvars, records, provider
<1>2. JobsInv'
    BY <1>1 DEF IInv, JobsInv
<1>3. QED
    BY <1>2, JobsOnly

LEMMA InitIInv == EffectsAssumption /\ Init => IInv
<1> SUFFICES ASSUME EffectsAssumption, Init PROVE IInv OBVIOUS
<1>1. TypeInv
    BY DEF Init, TypeInv, CallStates, EffectsAssumption
<1>2. RunInv
    <2>1. \A t \in Tools : /\ intent[t] = None /\ claim[t] = None /\ closure[t] = None
                           /\ call[t] = "INITIALIZED" /\ used[t] = {}
        BY DEF Init, Streams
    <2>2. ASSUME NEW t \in Tools PROVE CallInv(t)
        BY <2>1 DEF CallInv, EffectsAssumption, NoneAssumption, ClosedOutcomes
    <2>3. QED
        BY <2>1, <2>2 DEF Init, RunInv
<1>3. JobsInv
    BY DEF Init, JobsInv
<1>4. GateInv
    BY FS_EmptySet DEF Init, GateInv, Sent
<1>5. ASSUME NEW s \in Streams PROVE StreamInv(s)
    BY DEF Init, StreamInv, Receipts
<1>6. QED
    BY <1>1, <1>2, <1>3, <1>4, <1>5 DEF IInv

\* The current runtime is an open one.
LEMMA CurrentIsOpen ==
    ASSUME EffectsAssumption, IInv, NEW p \in Runtimes, Current(p)
    PROVE  p \in opened \ crashed
BY DEF Current, IInv, TypeInv, EffectsAssumption, StreamsAssumption

LEMMA PreviewEffectStep ==
    ASSUME EffectsAssumption, IInv, NEW p \in Runtimes, NEW t \in Tools,
           NEW expires \in Horizons, preview_effect(p, t, expires)
    PROVE  IInv'
<1> DEFINE k == Job(p, "preview", t, [expires |-> expires, basis |-> None])
<1>1. [expires |-> expires, basis |-> None] # None
    BY DEF EffectsAssumption, NoneAssumption
<1>2. JobInv(k) /\ k.op \notin EmitOps
    BY <1>1, CurrentIsOpen DEF preview_effect, JobInv, Job, EmitOps, Streams
<1>3. QED
    BY <1>2, AddJob DEF preview_effect

LEMMA AdoptEffectStep ==
    ASSUME EffectsAssumption, IInv, NEW p \in Runtimes, NEW t \in Tools,
           NEW preview \in previews[t], adopt_effect(p, t, preview)
    PROVE  IInv'
<1> DEFINE k == Job(p, "adopt", t, preview)
<1>1. JobInv(k) /\ k.op \notin EmitOps
    BY CurrentIsOpen DEF adopt_effect, CanAdopt, JobInv, Job, EmitOps, Streams
<1>2. QED
    BY <1>1, AddJob DEF adopt_effect

LEMMA PublishPreviewStep ==
    ASSUME EffectsAssumption, IInv, NEW j \in jobs, PublishPreview(j)
    PROVE  IInv'
<1>j. JobInv(j) /\ j.stream \in Tools /\ j.stream \notin Compensations /\ j.body # None
    BY DEF IInv, JobsInv, PublishPreview, JobInv, EffectsAssumption, StreamsAssumption
<1>1. TypeInv'
    BY DEF IInv, TypeInv, PublishPreview, gate, processes, runvars, provider
<1>2. RunInv' /\ GateInv'
    BY CallsKept, GateKept DEF IInv, PublishPreview, gate, runvars
<1>3. JobsInv'
    BY StaledKept DEF IInv, PublishPreview, Staled, Drop, processes, provider
<1>4. ASSUME NEW s \in Streams PROVE StreamInv(s)'
    <2>1. StreamInv(s)
        BY DEF IInv
    <2>2. /\ previews[s] \subseteq previews'[s] /\ None \notin previews'[s]
          /\ s \in Compensations => previews'[s] = previews[s]
        BY <1>j, <2>1 DEF PublishPreview, IInv, TypeInv, StreamInv
    <2>3. QED
        BY <2>1, <2>2 DEF StreamInv, PublishPreview, Receipts, ObservationsOf, Reduced, provider
<1>5. QED
    BY <1>1, <1>2, <1>3, <1>4 DEF IInv

\* What a call whose effect has no intent, no claim or no closure looks like.
LEMMA CallIsOpen ==
    ASSUME EffectsAssumption, IInv, NEW t \in Tools
    PROVE  /\ call[t] \in {"INITIALIZED", "CANCELLED"} => intent[t] = None
           /\ intent[t] = None => claim[t] = None
           /\ claim[t] = None => closure[t] = None
           /\ closure[t] = None /\ call[t] # "CANCELLED" => used[t] = {}
<1>1. StreamInv(t) /\ CallInv(t) /\ closure[t] \in ClosedOutcomes \cup {None}
    BY DEF IInv, RunInv, Streams, TypeInv
<1>2. QED
    BY <1>1 DEF StreamInv, CallInv, ClosedOutcomes

LEMMA PublishAdoptionStep ==
    ASSUME EffectsAssumption, IInv, NEW j \in jobs, PublishAdoption(j)
    PROVE  IInv'
<1>j. /\ j.stream \in Tools /\ j.stream \in Streams /\ j.body \in previews[j.stream]
      /\ intent[j.stream] = None /\ call[j.stream] = "INITIALIZED"
    BY DEF IInv, JobsInv, PublishAdoption, JobInv
<1>b. j.body # None
    BY <1>j DEF IInv, StreamInv
<1>1. TypeInv'
    BY <1>j DEF IInv, TypeInv, PublishAdoption, CallStates, gate, processes, provider
<1>2. GateInv'
    BY GateKept DEF IInv, PublishAdoption, gate
<1>3. JobsInv'
    BY StaledKept DEF IInv, PublishAdoption, Staled, Drop, processes, provider
<1>4. ASSUME NEW s \in Streams PROVE StreamInv(s)'
    <2>1. StreamInv(s)
        BY DEF IInv
    <2>2. intent'[s] = IF s = j.stream THEN j.body ELSE intent[s]
        BY <1>j DEF PublishAdoption, IInv, TypeInv
    <2>3. QED
        BY <1>j, <1>b, <2>1, <2>2
           DEF StreamInv, PublishAdoption, Receipts, ObservationsOf, Reduced, provider
<1>5. ASSUME NEW t \in Tools PROVE CallInv(t)'
    <2>1. CallInv(t)
        BY DEF IInv, RunInv
    <2>2. /\ intent'[t] = IF t = j.stream THEN j.body ELSE intent[t]
          /\ call'[t] = IF t = j.stream THEN "ACCEPTED" ELSE call[t]
        BY <1>j DEF PublishAdoption, IInv, TypeInv, Streams
    <2>3. t = j.stream => claim[t] = None /\ closure[t] = None /\ used[t] = {}
        BY <1>j, CallIsOpen
    <2>4. QED
        BY <1>b, <2>1, <2>2, <2>3 DEF CallInv, PublishAdoption, EffectsAssumption, NoneAssumption, ClosedOutcomes
<1>6. RunInv'
    BY <1>5 DEF IInv, RunInv, PublishAdoption
<1>7. QED
    BY <1>1, <1>2, <1>3, <1>4, <1>6 DEF IInv

LEMMA CancelStep ==
    ASSUME EffectsAssumption, IInv, NEW p, NEW t \in Tools, cancel_execution_call(p, t)
    PROVE  IInv'
<1>1. TypeInv'
    BY DEF IInv, TypeInv, cancel_execution_call, CallStates, gate, processes, records, provider
<1>2. GateInv' /\ \A s \in Streams : StreamInv(s)'
    BY GateKept, StreamsKept DEF IInv, cancel_execution_call, gate, records
<1>3. JobsInv'
    BY StaledKept DEF IInv, cancel_execution_call, processes, records, provider
<1>4. ASSUME NEW u \in Tools PROVE CallInv(u)'
    <2>1. CallInv(u) /\ call'[u] = IF u = t THEN "CANCELLED" ELSE call[u]
        BY DEF IInv, RunInv, TypeInv, cancel_execution_call
    <2>2. u = t => intent[u] = None /\ claim[u] = None /\ closure[u] = None /\ used[u] = {}
        BY CallIsOpen DEF cancel_execution_call
    <2>3. QED
        BY <2>1, <2>2 DEF CallInv, cancel_execution_call, records, EffectsAssumption, NoneAssumption, ClosedOutcomes
<1>5. RunInv'
    BY <1>4 DEF IInv, RunInv, cancel_execution_call, records
<1>6. QED
    BY <1>1, <1>2, <1>3, <1>5 DEF IInv

\* An inventory names the number of retained receipts, or nothing.
LEMMA InventoryIsCount ==
    ASSUME EffectsAssumption, IInv, NEW k \in Compensations
    PROVE  /\ OriginalOf[k] \in Streams /\ Inventory(OriginalOf[k]) \in Nat \cup {None}
           /\ k \in Streams /\ k \notin Tools
<1>1. OriginalOf[k] \in Streams /\ k \in Streams /\ k \notin Tools
    BY DEF EffectsAssumption, StreamsAssumption, Streams
<1>2. evidence[OriginalOf[k]] \in Seq(Receipts(OriginalOf[k]))
    BY <1>1 DEF IInv, StreamInv
<1>3. QED
    BY <1>1, <1>2 DEF Inventory

LEMMA PreviewActionStep ==
    ASSUME EffectsAssumption, IInv, NEW p, NEW k \in Compensations, NEW expires \in Horizons,
           preview_action(p, k, [expires |-> expires, basis |-> Inventory(OriginalOf[k])])
    PROVE  IInv'
<1>0. PICK proposal : proposal = [expires |-> expires, basis |-> Inventory(OriginalOf[k])]
    OBVIOUS
<1>p. preview_action(p, k, proposal)
    BY <1>0
<1>b. proposal # None /\ proposal.basis # None /\ k \in Streams
    BY <1>0, <1>p, InventoryIsCount, SMTT(30) DEF preview_action, RequireProposal, EffectsAssumption, NoneAssumption
<1>1. TypeInv'
    BY <1>p DEF IInv, TypeInv, preview_action, gate, processes, runvars, provider
<1>2. RunInv' /\ GateInv'
    BY <1>p, CallsKept, GateKept DEF IInv, preview_action, gate, runvars
<1>3. JobsInv'
    BY <1>p, StaledKept DEF IInv, preview_action, processes, provider
<1>4. ASSUME NEW s \in Streams PROVE StreamInv(s)'
    <2>1. StreamInv(s)
        BY DEF IInv
    <2>2. previews'[s] = IF s = k THEN previews[s] \cup {proposal} ELSE previews[s]
        BY <1>p, <1>b DEF preview_action, IInv, TypeInv
    <2>3. QED
        BY <1>p, <1>b, <2>1, <2>2
           DEF StreamInv, preview_action, Receipts, ObservationsOf, Reduced, provider
<1>5. QED
    BY <1>1, <1>2, <1>3, <1>4 DEF IInv

LEMMA AdoptCompensationStep ==
    ASSUME EffectsAssumption, IInv, NEW p, NEW k \in Compensations, NEW proposal \in previews[k],
           NEW request, adopt_compensation(p, k, proposal, request)
    PROVE  IInv'
<1>k. k \in Streams /\ k \notin Tools
    BY InventoryIsCount
<1>b. proposal # None
    BY <1>k DEF IInv, StreamInv
<1>i. \A s \in Streams : intent'[s] = IF s = k THEN proposal ELSE intent[s]
    BY <1>k DEF adopt_compensation, IInv, TypeInv
<1>1. TypeInv'
    BY DEF IInv, TypeInv, adopt_compensation, gate, processes, runvars, provider
<1>2. GateInv'
    BY GateKept DEF IInv, adopt_compensation, gate
<1>3. JobsInv'
    BY StaledKept DEF IInv, adopt_compensation, processes, provider
<1>4. ASSUME NEW s \in Streams PROVE StreamInv(s)'
    <2>1. StreamInv(s)
        BY DEF IInv
    <2>2. QED
        BY <1>i, <1>b, <2>1
           DEF StreamInv, adopt_compensation, Receipts, ObservationsOf, Reduced, provider
<1>5. RunInv'
    <2>1. \A t \in Tools : intent'[t] = intent[t]
        BY <1>i, <1>k DEF Streams
    <2>2. QED
        BY <2>1 DEF IInv, RunInv, CallInv, adopt_compensation, runvars
<1>6. QED
    BY <1>1, <1>2, <1>3, <1>4, <1>5 DEF IInv

\* The gate records one handoff per send: a stream that was not sent has none.
LEMMA SendRecordsHandoff ==
    ASSUME EffectsAssumption, IInv, NEW p, NEW s \in Streams,
           NEW request \in EffectRequests(<<"send", s>>), commit_effect_send(p, s, request)
    PROVE  GateInv'
<1> DEFINE h == [request |-> request, payload |-> <<"send", s>>]
<1>1. request # None
    BY DEF EffectsAssumption, NoneAssumption
<1>2. /\ \A x \in Streams : send'[x] = IF x = s THEN request ELSE send[x]
      /\ handoffs' = handoffs \cup {h} /\ order' = Append(order, s) /\ send[s] = None
    BY DEF commit_effect_send, Crossed, crossed, IInv, TypeInv
<1>3. Sent' = Sent \cup {s} /\ s \notin Sent
    BY <1>1, <1>2 DEF Sent
<1>4. handoffs' = {[request |-> send'[x], payload |-> <<"send", x>>] : x \in Sent'}
    <2>1. \A x \in Sent : x \in Streams /\ x # s /\ send'[x] = send[x]
        BY <1>2, <1>3 DEF Sent
    <2>2. send'[s] = request
        BY <1>2
    <2>3. handoffs = {[request |-> send[x], payload |-> <<"send", x>>] : x \in Sent}
        BY DEF IInv, GateInv
    <2>4. QED
        BY <1>2, <1>3, <2>1, <2>2, <2>3
<1>5. h \notin handoffs
    <2>1. ASSUME NEW x \in Sent, h = [request |-> send[x], payload |-> <<"send", x>>]
          PROVE  FALSE
        <3>1. <<"send", s>> = <<"send", x>>
            BY <2>1
        <3>2. QED
            BY <3>1, <2>1, <1>3
    <2>2. QED
        BY <2>1 DEF IInv, GateInv
<1>6. IsFiniteSet(handoffs') /\ Cardinality(handoffs') = Cardinality(handoffs) + 1
    BY <1>2, <1>5, FS_AddElement DEF IInv, GateInv
<1>7. order' \in Seq(Streams) /\ Len(order') = Len(order) + 1
    <2>1. order \in Seq(Streams)
        BY DEF IInv, GateInv
    <2>2. QED
        BY <1>2, <2>1
<1>8. QED
    BY <1>4, <1>6, <1>7 DEF IInv, GateInv

LEMMA CommitSendStep ==
    ASSUME EffectsAssumption, IInv, NEW p, NEW s \in Streams,
           NEW request \in EffectRequests(<<"send", s>>), commit_effect_send(p, s, request)
    PROVE  IInv'
<1>1. TypeInv'
    BY DEF IInv, TypeInv, commit_effect_send, processes, runvars, provider
<1>2. RunInv' /\ \A x \in Streams : StreamInv(x)'
    BY CallsKept, StreamsKept DEF IInv, commit_effect_send, runvars
<1>3. JobsInv'
    BY StaledKept DEF IInv, commit_effect_send, processes, provider
<1>4. QED
    BY <1>1, <1>2, <1>3, SendRecordsHandoff DEF IInv

\* The claim: from here on exactly one job may call the provider for the stream.
LEMMA EmitEffectStep ==
    ASSUME EffectsAssumption, IInv, NEW p \in Runtimes, NEW s \in Streams, emit_effect(p, s)
    PROVE  IInv'
<1>0. PICK k : k = Job(p, "claimed", s, None)
    OBVIOUS
<1>p. p # None /\ p \in opened \ crashed
    BY CurrentIsOpen DEF EffectsAssumption, NoneAssumption, emit_effect
<1>a. claim[s] = None /\ intent[s] # None /\ attempts[s] = 0 /\ closure[s] = None
    BY DEF emit_effect, Unclaimed, IInv, StreamInv
<1>c. \A x \in Streams : claim'[x] = IF x = s THEN p ELSE claim[x]
    BY DEF emit_effect, IInv, TypeInv
<1>1. TypeInv'
    BY DEF IInv, TypeInv, emit_effect, CallStates, gate, processes, provider
<1>2. GateInv'
    BY GateKept DEF IInv, emit_effect, gate
<1>3. ASSUME NEW x \in Streams PROVE StreamInv(x)'
    <2>1. StreamInv(x)
        BY DEF IInv
    <2>2. QED
        BY <1>a, <1>c, <1>p, <2>1
           DEF StreamInv, emit_effect, Receipts, ObservationsOf, Reduced, provider
<1>4. ASSUME NEW t \in Tools PROVE CallInv(t)'
    <2>1. CallInv(t) /\ t \in Streams
        BY DEF IInv, RunInv, Streams
    <2>2. call'[t] = IF t = s THEN "OUTCOME_UNKNOWN" ELSE call[t]
        BY DEF emit_effect, IInv, TypeInv
    <2>3. t = s => call[t] = "ACCEPTED"
        BY DEF emit_effect
    <2>4. QED
        BY <1>a, <1>c, <1>p, <2>1, <2>2, <2>3 DEF CallInv, emit_effect, EffectsAssumption, NoneAssumption, ClosedOutcomes
<1>5. RunInv'
    <2>1. obligations' = {t \in Tools : claim'[t] # None}
        BY <1>c, <1>p DEF IInv, RunInv, emit_effect, ObligationsAfterClaim, Streams
    <2>2. QED
        BY <1>4, <2>1 DEF RunInv
<1>6. JobsInv'
    <2>1. jobs' = Staled(jobs) \cup {k} /\ k.op = "claimed" /\ k.stream = s
        BY <1>0 DEF emit_effect, Job
    <2>2. JobInv(k)'
        BY <1>0, <1>a, <1>c, <1>p DEF JobInv, Job, EmitOps, emit_effect, processes, provider
    <2>3. ASSUME NEW j \in Staled(jobs)
          PROVE  JobInv(j)' /\ j \in jobs /\ (j.op \in EmitOps => j.stream # s)
        <3>1. j \in jobs /\ JobInv(j) /\ j.op \notin {"preview", "adopt"}
            BY DEF Staled, IInv, JobsInv
        <3>2. QED
            BY <1>a, <1>c, <1>p, <3>1 DEF JobInv, emit_effect, Receipts, processes, provider
    <2>4. QED
        BY <2>1, <2>2, <2>3 DEF IInv, JobsInv
<1>7. QED
    BY <1>1, <1>2, <1>3, <1>5, <1>6 DEF IInv

LEMMA CheckWorkerStep ==
    ASSUME EffectsAssumption, IInv, NEW j \in jobs, CheckWorker(j)
    PROVE  IInv'
<1>0. PICK k : k = [j EXCEPT !.op = "checked"]
    OBVIOUS
<1>1. JobInv(j) /\ j.op = "claimed"
    BY DEF IInv, JobsInv, CheckWorker
<1>2. JobInv(k) /\ k.op = "checked" /\ k.stream = j.stream
    BY <1>0, <1>1 DEF JobInv, Job, EmitOps
<1>3. jobs' \subseteq Drop(j) \cup {k}
    BY <1>0 DEF CheckWorker
<1>4. ASSUME NEW i \in jobs' PROVE JobInv(i)'
    <2>1. JobInv(i)
        BY <1>2, <1>3 DEF IInv, JobsInv, Drop
    <2>2. QED
        BY <2>1 DEF JobInv, Receipts, CheckWorker, processes, runvars, records, provider
<1>5. \A i \in Drop(j) : i \in jobs /\ (i.op \in EmitOps => i.stream # k.stream)
    BY <1>1, <1>2 DEF IInv, JobsInv, Drop, EmitOps
<1>6. JobsInv'
    BY <1>3, <1>4, <1>5 DEF IInv, JobsInv
<1>7. QED
    BY <1>6, JobsOnly DEF CheckWorker

\* What the provider may answer first: every member occurred or never will.
LEMMA ScenarioDecides ==
    ASSUME EffectsAssumption, NEW r \in Scenarios
    PROVE  /\ r # None
           /\ r.occurred \cup r.incapable = Members /\ r.occurred \cap r.incapable = {}
<1>1. PICK happened \in SUBSET Members, incapable \in SUBSET Members :
         /\ r = Receipt(0, happened, incapable)
         /\ happened \cup incapable = Members /\ happened \cap incapable = {}
    <2>1. CASE r = Receipt(0, Members, {})
        BY <2>1
    <2>2. CASE r = Receipt(0, {}, Members)
        BY <2>2
    <2>3. CASE \E m \in Members : r = Receipt(0, {m}, Members \ {m})
        BY <2>3
    <2>4. QED
        BY <2>1, <2>2, <2>3 DEF Scenarios
<1>2. QED
    BY <1>1 DEF Receipt, EffectsAssumption, NoneAssumption

\* The provider call: the one job of the stream that could make it has made it.
LEMMA EmitIssuedStep ==
    ASSUME EffectsAssumption, IInv, NEW j \in jobs, emit_issued(j)
    PROVE  IInv'
<1> DEFINE s == j.stream
<1>j. JobInv(j) /\ j.op = "checked" /\ s \in Streams /\ claim[s] # None /\ attempts[s] = 0
    BY DEF IInv, JobsInv, JobInv, emit_issued, EmitOps
<1>a. \A x \in Streams : attempts'[x] = IF x = s THEN 1 ELSE attempts[x]
    <2>1. attempts' = [attempts EXCEPT ![s] = attempts[s] + 1] /\ DOMAIN attempts = Streams
        BY DEF emit_issued, IInv, TypeInv
    <2>2. QED
        BY <1>j, <2>1
<1>r. /\ DOMAIN transfer' = Streams
      /\ \A x \in Streams : transfer'[x] # transfer[x] =>
            x = s /\ transfer[x] = None /\ transfer'[x] \in Scenarios
    BY <1>j DEF emit_issued, IInv, TypeInv
<1>k. ASSUME NEW i \in jobs', i \notin Drop(j)
      PROVE  /\ i.op = "received" /\ i.stream = s /\ i.by = j.by
             /\ i.body = transfer'[s] /\ i.body # None /\ i = Job(i.by, i.op, i.stream, i.body)
    <2>1. PICK receipt \in Scenarios :
             /\ transfer' = [transfer EXCEPT ![s] = receipt]
             /\ i = [j EXCEPT !.op = "received", !.body = receipt]
        BY <1>k DEF emit_issued
    <2>2. i = [by |-> j.by, op |-> "received", stream |-> s, body |-> receipt]
        BY <1>j, <2>1 DEF JobInv, Job
    <2>3. transfer'[s] = receipt
        BY <1>j, <2>1 DEF IInv, TypeInv
    <2>4. QED
        BY <2>2, <2>3, ScenarioDecides DEF Job
<1>m. \A x \in Streams : Receipts(x) \subseteq Receipts(x)'
    BY <1>r DEF Receipts, emit_issued
<1>1. TypeInv'
    BY <1>r DEF IInv, TypeInv, emit_issued, gate, processes, runvars, records
<1>2. RunInv' /\ GateInv'
    BY CallsKept, GateKept DEF IInv, emit_issued, gate, runvars, records
<1>3. ASSUME NEW x \in Streams PROVE StreamInv(x)'
    <2>1. StreamInv(x)
        BY DEF IInv
    <2>2. evidence[x] \in Seq(Receipts(x)')
        BY <1>m, <2>1, SeqMonotone DEF StreamInv
    <2>3. attempts'[x] \in {0, 1} /\ (attempts'[x] = 1 => claim[x] # None)
        BY <1>a, <1>j, <2>1 DEF StreamInv
    <2>4. /\ transfer[x] # None => transfer'[x] # None
          /\ transfer'[x] # None =>
                /\ transfer'[x].occurred \cup transfer'[x].incapable = Members
                /\ transfer'[x].occurred \cap transfer'[x].incapable = {}
        BY <1>r, <2>1, ScenarioDecides DEF StreamInv
    <2>5. QED
        BY <2>1, <2>2, <2>3, <2>4 DEF StreamInv, emit_issued, ObservationsOf, Reduced, records
<1>4. ASSUME NEW i \in jobs'
      PROVE  JobInv(i)' /\ (i.op \in EmitOps => i \in jobs /\ i.stream # s)
    <2>1. CASE i \in Drop(j)
        <3>1. JobInv(i) /\ i \in jobs /\ (i.op \in EmitOps => i.stream # s)
            BY <1>j, <2>1 DEF IInv, JobsInv, Drop, EmitOps
        <3>2. QED
            BY <1>a, <1>m, <3>1 DEF JobInv, emit_issued, processes, runvars, records
    <2>2. CASE i \notin Drop(j)
        <3>1. i.body \in Receipts(s)'
            BY <1>k, <2>2 DEF Receipts
        <3>2. QED
            BY <1>j, <1>k, <2>2, <3>1 DEF JobInv, EmitOps, emit_issued, processes
    <2>3. QED
        BY <2>1, <2>2
<1>5. JobsInv'
    BY <1>4 DEF IInv, JobsInv
<1>6. QED
    BY <1>1, <1>2, <1>3, <1>5 DEF IInv

LEMMA LateReceiptStep ==
    ASSUME EffectsAssumption, IInv, NEW s \in Streams, observe_late_receipt(s)
    PROVE  IInv'
<1>1. DOMAIN late' = Streams /\ transfer[s] # None
    BY DEF observe_late_receipt, IInv, TypeInv
<1>2. \A x \in Streams : /\ Receipts(x) \subseteq Receipts(x)'
                         /\ late'[x] # {} => late[x] # {} \/ x = s
    BY DEF observe_late_receipt, IInv, TypeInv, Receipts
<1>3. TypeInv'
    BY <1>1 DEF IInv, TypeInv, observe_late_receipt, gate, processes, runvars, records
<1>4. RunInv' /\ GateInv'
    BY CallsKept, GateKept DEF IInv, observe_late_receipt, gate, runvars, records
<1>5. ASSUME NEW x \in Streams PROVE StreamInv(x)'
    <2>1. StreamInv(x)
        BY DEF IInv
    <2>2. evidence[x] \in Seq(Receipts(x)')
        BY <1>2, <2>1, SeqMonotone DEF StreamInv
    <2>3. QED
        BY <1>1, <1>2, <2>1, <2>2 DEF StreamInv, observe_late_receipt, ObservationsOf, Reduced, records
<1>6. ASSUME NEW j \in jobs PROVE JobInv(j)'
    <2>1. JobInv(j)
        BY DEF IInv, JobsInv
    <2>2. QED
        BY <1>2, <2>1 DEF JobInv, observe_late_receipt, processes, runvars, records
<1>7. JobsInv'
    BY <1>6 DEF IInv, JobsInv, observe_late_receipt
<1>8. QED
    BY <1>3, <1>4, <1>5, <1>7 DEF IInv

\* Retaining a receipt keeps the observations a closure rests on.
LEMMA RetainStep ==
    ASSUME EffectsAssumption, IInv, NEW s \in Streams, NEW receipt \in Receipts(s),
           Retain(s, receipt), jobs' \subseteq Staled(jobs)
    PROVE  IInv'
<1>e. /\ DOMAIN evidence' = Streams /\ DOMAIN reduction' = Streams
      /\ \A x \in Streams : evidence'[x] = IF x = s THEN Append(evidence[x], receipt) ELSE evidence[x]
    BY DEF Retain, Retained, IInv, TypeInv
<1>1. TypeInv'
    BY <1>e DEF IInv, TypeInv, Retain, gate, processes, runvars, provider
<1>2. RunInv' /\ GateInv'
    BY CallsKept, GateKept DEF IInv, Retain, gate, runvars
<1>3. JobsInv'
    BY StaledKept DEF IInv, Retain, processes, provider
<1>4. ASSUME NEW x \in Streams PROVE StreamInv(x)'
    <2>1. StreamInv(x) /\ Receipts(x)' = Receipts(x)
        BY DEF IInv, Receipts, Retain, provider
    <2>2. evidence[x] \in Seq(Receipts(x))
        BY <2>1 DEF StreamInv
    <2>3. evidence'[x] \in Seq(Receipts(x))
        <3>1. CASE x = s
            <4>1. receipt \in Receipts(x) /\ evidence'[x] = Append(evidence[x], receipt)
                BY <1>e, <3>1
            <4>2. QED
                BY <2>2, <4>1
        <3>2. CASE x # s
            BY <1>e, <2>2, <3>2
        <3>3. QED
            BY <3>1, <3>2
    <2>4. ObservationsOf(x, evidence[x]) \subseteq ObservationsOf(x, evidence'[x])
        BY <1>e, <2>2, MoreObservations
    <2>5. closure[x] # None => \E obs \in SUBSET ObservationsOf(x, evidence'[x]) :
                                   Reduced(x, obs) = closure[x]
        BY <2>1, <2>4 DEF StreamInv
    <2>6. ObservationsOf(x, evidence[x])' = ObservationsOf(x, evidence'[x])
        BY DEF ObservationsOf
    <2>7. QED
        BY <2>1, <2>3, <2>5, <2>6 DEF StreamInv, Retain, provider, Reduced
<1>5. QED
    BY <1>1, <1>2, <1>3, <1>4 DEF IInv

LEMMA RefuseStep ==
    ASSUME EffectsAssumption, IInv, NEW j \in jobs, Refuse(j)
    PROVE  IInv'
<1>1. JobsInv'
    <2>1. \A i \in jobs' : i.by \notin crashed'
        BY DEF Refuse, Drop, IInv, JobsInv, JobInv, processes
    <2>2. QED
        BY <2>1, JobsKept DEF Refuse, Drop, IInv, processes, runvars, records
<1>2. QED
    BY <1>1, JobsOnly DEF Refuse

\* A resolution: the closure is the reduction of what is retained, and a second
\* one agrees with it.
LEMMA ResolveStep ==
    ASSUME EffectsAssumption, IInv, NEW p, NEW s \in Streams, resolve_original_effect(p, s)
    PROVE  IInv'
<1>0. PICK outcome : outcome = evidence_outcome(s, evidence[s])
    OBVIOUS
<1>o. /\ outcome \in ClosedOutcomes /\ outcome # None /\ claim[s] # None
      /\ outcome = Reduced(s, ObservationsOf(s, evidence[s]))
    BY <1>0 DEF resolve_original_effect, evidence_outcome, Reduced, EffectsAssumption, NoneAssumption
<1>s. StreamInv(s) /\ closure[s] \in ClosedOutcomes \cup {None}
    BY DEF IInv, TypeInv
<1>c. \A x \in Streams : closure'[x] = IF x = s THEN outcome ELSE closure[x]
    <2>1. closure[s] # None => closure[s] = outcome
        BY <1>0, <1>o, <1>s, ClosureAgrees
    <2>2. closure' = [closure EXCEPT ![s] = ClosureAfter(s, outcome)]
        BY <1>0 DEF resolve_original_effect
    <2>3. QED
        BY <2>1, <2>2 DEF ClosureAfter, IInv, TypeInv
<1>1. TypeInv'
    <2>1. closure' \in [Streams -> ClosedOutcomes \cup {None}]
        BY <1>0, <1>o DEF resolve_original_effect, ClosureAfter, IInv, TypeInv
    <2>2. call' \in [Tools -> CallStates]
        BY DEF resolve_original_effect, IInv, TypeInv, CallStates
    <2>3. QED
        BY <2>1, <2>2 DEF IInv, TypeInv, resolve_original_effect, gate, processes, provider
<1>2. GateInv'
    BY GateKept DEF IInv, resolve_original_effect, gate
<1>3. JobsInv'
    BY StaledKept DEF IInv, resolve_original_effect, processes, provider
<1>4. ASSUME NEW x \in Streams PROVE StreamInv(x)'
    <2>1. StreamInv(x)
        BY DEF IInv
    <2>2. ASSUME closure'[x] # None
          PROVE  \E obs \in SUBSET ObservationsOf(x, evidence[x]) : Reduced(x, obs) = closure'[x]
        BY <1>c, <1>o, <2>1, <2>2 DEF StreamInv
    <2>3. closure'[x] # None => claim[x] # None
        BY <1>c, <1>o, <2>1 DEF StreamInv
    <2>4. ObservationsOf(x, evidence[x])' = ObservationsOf(x, evidence[x])
        BY DEF ObservationsOf, resolve_original_effect
    <2>5. QED
        BY <2>1, <2>2, <2>3, <2>4 DEF StreamInv, resolve_original_effect, Receipts, provider, Reduced
<1>5. ASSUME NEW t \in Tools PROVE CallInv(t)'
    <2>1. CallInv(t) /\ t \in Streams /\ closure[t] \in ClosedOutcomes \cup {None}
        BY DEF IInv, RunInv, Streams, TypeInv
    <2>2. call'[t] = IF t # s THEN call[t]
                     ELSE IF outcome = "FAILED_NO_EFFECT" THEN "FAILED_DEFINITE" ELSE "SUCCEEDED"
        BY <1>0 DEF resolve_original_effect, IInv, TypeInv
    <2>3. CASE t # s
        BY <1>c, <2>1, <2>2, <2>3 DEF CallInv, resolve_original_effect
    <2>4. CASE t = s
        <3>1. closure[t] \in {None, outcome}
            BY <1>0, <1>o, <1>s, <2>4, ClosureAgrees
        <3>2. used[t] \subseteq {outcome}
            BY <1>o, <2>1, <2>4, <3>1 DEF CallInv, ClosedOutcomes
        <3>3. intent[t] # None
            BY <1>o, <1>s, <2>4 DEF StreamInv
        <3>4. QED
            BY <1>c, <1>o, <2>1, <2>2, <2>4, <3>2, <3>3
               DEF CallInv, resolve_original_effect, ClosedOutcomes
    <2>5. QED
        BY <2>3, <2>4
<1>6. RunInv'
    BY <1>5 DEF IInv, RunInv, resolve_original_effect
<1>7. QED
    BY <1>1, <1>2, <1>3, <1>4, <1>6 DEF IInv

\* Suspension, resumption and abort of the Run.
LEMMA RunStep ==
    ASSUME IInv, run' \in {"ACTIVE", "SUSPENDED", "ABORTED"}, jobs' = Staled(jobs),
           UNCHANGED <<gate, processes, obligations, call, records, provider, used>>
    PROVE  IInv'
<1>1. TypeInv'
    BY DEF IInv, TypeInv, gate, processes, records, provider
<1>2. RunInv' /\ GateInv' /\ \A s \in Streams : StreamInv(s)'
    BY CallsKept, GateKept, StreamsKept DEF IInv, gate, records
<1>3. JobsInv'
    BY StaledKept DEF IInv, processes, records, provider
<1>4. QED
    BY <1>1, <1>2, <1>3 DEF IInv

\* The result shown for a call that is closed is its closure.
LEMMA ClosedResult ==
    ASSUME EffectsAssumption, IInv, NEW t \in Tools, ClosedCall(t)
    PROVE  CallResult(t) \in IF call[t] = "CANCELLED" THEN {"NOT_EXECUTED"} ELSE {closure[t]} \ {None}
<1>1. CASE call[t] = "CANCELLED"
    BY <1>1 DEF CallResult
<1>2. CASE call[t] # "CANCELLED"
    <2>1. /\ closure[t] # None /\ CallResult(t) = evidence_outcome(t, evidence[t])
          /\ evidence_outcome(t, evidence[t]) \in ClosedOutcomes
        BY <1>2 DEF ClosedCall, CallResult, HasCurrentResult
    <2>2. t \in Streams /\ StreamInv(t) /\ closure[t] \in ClosedOutcomes \cup {None}
        BY DEF IInv, Streams, TypeInv
    <2>3. QED
        BY <1>2, <2>1, <2>2, ClosureAgrees
<1>3. QED
    BY <1>1, <1>2

LEMMA ContinueStep ==
    ASSUME EffectsAssumption, IInv, NEW p, continue_execution(p)
    PROVE  IInv'
<1>1. TypeInv'
    BY DEF IInv, TypeInv, continue_execution, gate, processes, runvars, records, provider
<1>2. GateInv' /\ \A s \in Streams : StreamInv(s)'
    BY GateKept, StreamsKept DEF IInv, continue_execution, gate, records
<1>3. JobsInv'
    BY StaledKept DEF IInv, continue_execution, processes, records, provider
<1>4. ASSUME NEW t \in Tools PROVE CallInv(t)'
    <2>1. CallInv(t) /\ ClosedCall(t) /\ used'[t] = used[t] \cup {CallResult(t)}
        BY DEF IInv, RunInv, continue_execution
    <2>2. CallResult(t) \in IF call[t] = "CANCELLED" THEN {"NOT_EXECUTED"} ELSE {closure[t]} \ {None}
        BY <2>1, ClosedResult
    <2>3. QED
        BY <2>1, <2>2 DEF CallInv, continue_execution, runvars, records
<1>5. RunInv'
    BY <1>4 DEF IInv, RunInv, continue_execution, runvars, records
<1>6. QED
    BY <1>1, <1>2, <1>3, <1>5 DEF IInv

\* A process opens, and takes over, or ends with its jobs.
LEMMA ProcessStep ==
    ASSUME EffectsAssumption, IInv, NEW p \in Runtimes, open(p) \/ Crash(p)
    PROVE  IInv'
<1>1. TypeInv'
    BY DEF IInv, TypeInv, open, Crash, gate, runvars, records, provider
<1>2. RunInv' /\ GateInv' /\ \A s \in Streams : StreamInv(s)'
    BY CallsKept, GateKept, StreamsKept DEF IInv, open, Crash, gate, runvars, records
<1>3. jobs' \subseteq jobs /\ opened \subseteq opened' /\ \A j \in jobs' : j.by \notin crashed'
    BY DEF open, Crash, IInv, JobsInv, JobInv
<1>4. JobsInv'
    BY <1>3, JobsKept DEF IInv, open, Crash, runvars, records
<1>5. QED
    BY <1>1, <1>2, <1>4 DEF IInv

\* Time passes, or an operator imports an entitlement.
LEMMA OutsideStep ==
    ASSUME EffectsAssumption, IInv, Tick \/ \E e \in Entitlements : import_entitlement(e)
    PROVE  IInv'
<1>1. TypeInv'
    <2>1. now' \in 0..MaxTime /\ current' \in Entitlements \cup {NoEntitlement}
        <3>1. now \in 0..MaxTime /\ current \in Entitlements \cup {NoEntitlement} /\ MaxTime \in Nat
            BY DEF IInv, TypeInv, EffectsAssumption
        <3>2. CASE Tick
            BY <3>1, <3>2 DEF Tick
        <3>3. CASE \E e \in Entitlements : import_entitlement(e)
            BY <3>1, <3>3 DEF import_entitlement
        <3>4. QED
            BY <3>2, <3>3
    <2>2. UNCHANGED <<processes, runvars, records, provider, used>>
        BY DEF Tick, import_entitlement
    <2>3. QED
        BY <2>1, <2>2 DEF IInv, TypeInv, processes, runvars, records, provider
<1>2. UNCHANGED <<handoffs, processes, runvars, records, jobs, provider, used>>
    BY DEF Tick, import_entitlement
<1>3. RunInv' /\ GateInv' /\ \A s \in Streams : StreamInv(s)'
    BY <1>2, CallsKept, GateKept, StreamsKept DEF IInv, runvars, records
<1>4. \A j \in jobs' : j.by \notin crashed'
    BY <1>2 DEF IInv, JobsInv, JobInv, processes
<1>5. JobsInv'
    BY <1>2, <1>4, JobsKept DEF IInv, processes, runvars, records
<1>6. QED
    BY <1>1, <1>3, <1>5 DEF IInv

LEMMA JobStepIInv ==
    ASSUME EffectsAssumption, IInv, NEW j \in jobs, JobStep(j)
    PROVE  IInv'
<1>1. CASE RetainEmitted(j)
    <2>1. j.stream \in Streams /\ j.body \in Receipts(j.stream)
        BY <1>1 DEF IInv, JobsInv, JobInv, RetainEmitted
    <2>2. Retain(j.stream, j.body) /\ jobs' \subseteq Staled(jobs)
        BY <1>1 DEF RetainEmitted, Staled, Drop
    <2>3. QED
        BY <2>1, <2>2, RetainStep
<1>2. QED
    BY <1>1, PublishPreviewStep, PublishAdoptionStep, CheckWorkerStep, EmitIssuedStep, RefuseStep
       DEF JobStep

LEMMA ClientIInv ==
    ASSUME EffectsAssumption, IInv, NEW p \in Runtimes, Client(p)
    PROVE  IInv'
<1>1. ASSUME NEW s \in Streams, NEW receipt \in Receipts(s), append_effect_receipt(p, s, receipt)
      PROVE  IInv'
    BY <1>1, RetainStep DEF append_effect_receipt
<1>2. ASSUME NEW s \in Streams, step_effect_work(p, s) PROVE IInv'
    <2>1. CASE emit_effect(p, s)
        BY <2>1, EmitEffectStep
    <2>2. CASE reconcile_effect(p, s)
        <3>1. transfer[s] \in Receipts(s) /\ append_effect_receipt(p, s, transfer[s])
            BY <2>2 DEF reconcile_effect, Receipts
        <3>2. QED
            BY <1>1, <3>1
    <2>3. QED
        BY <1>2, <2>1, <2>2 DEF step_effect_work
<1>3. CASE suspend_execution(p) \/ resume_execution(p) \/ abort_execution(p)
    BY <1>3, RunStep DEF suspend_execution, resume_execution, abort_execution
<1>4. CASE \E s \in Streams : emit_effect(p, s) \/ step_effect_work(p, s)
    BY <1>4, <1>2, EmitEffectStep
<1>5. CASE \E t \in Tools, expires \in Horizons : preview_effect(p, t, expires)
    BY <1>5, PreviewEffectStep
<1>6. CASE \E t \in Tools : \E preview \in previews[t] : adopt_effect(p, t, preview)
    BY <1>6, AdoptEffectStep
<1>7. CASE \E t \in Tools : cancel_execution_call(p, t)
    BY <1>7, CancelStep
<1>8. CASE \E k \in Compensations, expires \in Horizons :
              preview_action(p, k, [expires |-> expires, basis |-> Inventory(OriginalOf[k])])
    BY <1>8, PreviewActionStep
<1>9. CASE \E k \in Compensations : \E proposal \in previews[k] :
              \E request \in EffectRequests(<<"adopt", k>>) :
                  adopt_compensation(p, k, proposal, request)
    BY <1>9, AdoptCompensationStep
<1>10. CASE \E s \in Streams : \E request \in EffectRequests(<<"send", s>>) :
               commit_effect_send(p, s, request)
    BY <1>10, CommitSendStep
<1>11. CASE \E s \in Streams : resolve_original_effect(p, s)
    BY <1>11, ResolveStep
<1>12. CASE continue_execution(p)
    BY <1>12, ContinueStep
<1>13. QED
    BY <1>1, <1>3, <1>4, <1>5, <1>6, <1>7, <1>8, <1>9, <1>10, <1>11, <1>12 DEF Client

LEMMA NextIInv == EffectsAssumption /\ IInv /\ [Next]_vars => IInv'
<1> SUFFICES ASSUME EffectsAssumption, IInv, [Next]_vars PROVE IInv' OBVIOUS
<1>1. CASE UNCHANGED vars
    <2>1. JobsInv'
        BY <1>1, JobsKept DEF IInv, JobsInv, JobInv, vars, processes, runvars, records
    <2>2. QED
        BY <1>1, <2>1, JobsOnly DEF vars
<1>2. QED
    BY <1>1, ClientIInv, JobStepIInv, ProcessStep, LateReceiptStep, OutsideStep DEF Next
-----------------------------------------------------------------------------
\* The invariant implies what the runs check.
LEMMA IInvImplies == EffectsAssumption /\ IInv => EffectsAreExact
<1> SUFFICES ASSUME EffectsAssumption, IInv PROVE EffectsAreExact OBVIOUS
<1>s. \A s \in Streams : StreamInv(s) /\ closure[s] \in ClosedOutcomes \cup {None}
    BY DEF IInv, TypeInv
<1>1. TypeOK
    <2>1. obligations \subseteq Tools
        BY DEF IInv, RunInv
    <2>2. ASSUME NEW s \in Streams PROVE ToSet(evidence[s]) \subseteq Receipts(s)
        <3>1. evidence[s] \in Seq(Receipts(s))
            BY <1>s DEF StreamInv
        <3>2. QED
            BY <3>1 DEF ToSet
    <2>3. \A j \in jobs : j.by \in opened \ crashed /\ j.stream \in Streams
        BY DEF IInv, JobsInv, JobInv
    <2>4. \A s \in Streams : intent[s] # None => intent[s] \in previews[s]
        BY <1>s DEF StreamInv
    <2>5. QED
        BY <2>1, <2>2, <2>3, <2>4 DEF IInv, TypeInv, TypeOK
<1>2. EmittedAtMostOnce
    <2>1. ASSUME NEW s \in Streams PROVE attempts[s] <= 1 /\ (attempts[s] = 1 => claim[s] # None)
        <3>1. attempts[s] \in {0, 1} /\ (attempts[s] = 1 => claim[s] # None)
            BY <1>s DEF StreamInv
        <3>2. 0 <= 1 /\ 1 <= 1
            OBVIOUS
        <3>3. QED
            BY <3>1, <3>2, Zenon
    <2>2. ASSUME NEW t \in Tools, call[t] = "CANCELLED" PROVE attempts[t] = 0 /\ intent[t] = None
        BY <1>s, <2>2, CallIsOpen DEF StreamInv, Streams
    <2>3. QED
        BY <2>1, <2>2 DEF EmittedAtMostOnce
<1>3. ClaimedWorkIsOwned
    BY DEF IInv, RunInv, CallInv, ClaimedWorkIsOwned
<1>4. HandoffIffSend
    BY DEF IInv, GateInv, Sent, HandoffIffSend
<1>5. ClosureIsTrue
    BY <1>s, ClosureStatesTheTransfer DEF ClosureIsTrue
<1>6. ClosedOutcomesAgree
    BY <1>s, ClosureAgrees DEF ClosedOutcomesAgree
<1>7. ResultsAreStable
    BY DEF IInv, RunInv, CallInv, ResultsAreStable
<1>8. QED
    BY <1>1, <1>2, <1>3, <1>4, <1>5, <1>6, <1>7 DEF EffectsAreExact

\* What the gate admits lies inside the entitlement's window.
LEMMA AdmittedIsOpen ==
    ASSUME NEW request, NEW payload, GateAdmits(request, payload)
    PROVE  Open(current, now)
BY DEF GateAdmits, require

\* Only emit_effect claims an emission.
LEMMA ClaimIsEmission ==
    ASSUME EffectsAssumption, IInv, [Next]_vars, NEW s \in Streams, claim[s] = None, claim'[s] # None
    PROVE  \E p \in Runtimes : emit_effect(p, s)
<1>1. ASSUME NEW p \in Runtimes, NEW x \in Streams, emit_effect(p, x) PROVE x = s
    BY <1>1 DEF emit_effect, IInv, TypeInv
<1>2. ASSUME claim' # claim PROVE \E p \in Runtimes, x \in Streams : emit_effect(p, x)
    <2>1. ASSUME NEW p \in Runtimes, Client(p) PROVE \E x \in Streams : emit_effect(p, x)
        BY <1>2, <2>1 DEF Client, preview_effect, adopt_effect, cancel_execution_call,
           preview_action, adopt_compensation, commit_effect_send, step_effect_work,
           reconcile_effect, append_effect_receipt, Retain, resolve_original_effect,
           suspend_execution, resume_execution, abort_execution, continue_execution, records
    <2>2. ASSUME NEW j \in jobs, JobStep(j) PROVE FALSE
        BY <1>2, <2>2 DEF JobStep, PublishPreview, PublishAdoption, CheckWorker, emit_issued,
           RetainEmitted, Retain, Refuse, records
    <2>3. QED
        BY <1>2, <2>1, <2>2 DEF Next, open, Crash, observe_late_receipt, import_entitlement, Tick,
           vars, records
<1>3. QED
    BY <1>1, <1>2

LEMMA StepsAreLive ==
    ASSUME EffectsAssumption, IInv, [Next]_vars
    PROVE  ClaimsAreLive /\ ResumesOnClosedWork
<1>1. ASSUME NEW s \in Streams, claim[s] = None, claim'[s] # None
      PROVE  /\ claim'[s] = worker
             /\ s \in Tools => run = "ACTIVE"
             /\ now < intent[s].expires /\ Open(current, now)
             /\ s \in Compensations => Len(evidence[OriginalOf[s]]) = intent[s].basis
    <2>1. PICK p \in Runtimes : emit_effect(p, s)
        BY <1>1, ClaimIsEmission
    <2>2. claim'[s] = worker /\ now < intent[s].expires
        BY <2>1 DEF emit_effect, Current, IInv, TypeInv
    <2>3. Open(current, now)
        BY <2>1, AdmittedIsOpen DEF emit_effect
    <2>4. s \in Compensations => intent[s].basis # None
        BY <2>1 DEF emit_effect, IInv, StreamInv
    <2>5. QED
        BY <2>1, <2>2, <2>3, <2>4 DEF emit_effect, require_subject_live, Inventory
<1>2. ASSUME run = "SUSPENDED", run' = "ACTIVE", NEW t \in obligations
      PROVE  evidence_outcome(t, evidence[t]) = closure[t]
    <2>1. \E p \in Runtimes : resume_execution(p)
        <3>1. ASSUME NEW p \in Runtimes, Client(p) PROVE resume_execution(p)
            BY <1>2, <3>1 DEF Client, preview_effect, adopt_effect, cancel_execution_call,
               preview_action, adopt_compensation, commit_effect_send, step_effect_work,
               emit_effect, reconcile_effect, append_effect_receipt, Retain,
               resolve_original_effect, suspend_execution, abort_execution,
               continue_execution, runvars
        <3>2. ASSUME NEW j \in jobs, JobStep(j) PROVE FALSE
            BY <1>2, <3>2 DEF JobStep, PublishPreview, PublishAdoption, CheckWorker,
               emit_issued, RetainEmitted, Retain, Refuse, runvars
        <3>3. QED
            BY <1>2, <3>1, <3>2 DEF Next, open, Crash, observe_late_receipt,
               import_entitlement, Tick, vars, runvars
    <2>2. HasCurrentResult(t) /\ t \in Streams
        BY <2>1 DEF resume_execution, _crossed_work_closed, IInv, RunInv, Streams
    <2>3. /\ closure[t] # None /\ evidence_outcome(t, evidence[t]) \in ClosedOutcomes
          /\ StreamInv(t) /\ closure[t] \in ClosedOutcomes \cup {None}
        BY <2>2 DEF HasCurrentResult, IInv, TypeInv
    <2>4. QED
        BY <2>2, <2>3, ClosureAgrees
<1>3. QED
    BY <1>1, <1>2 DEF ClaimsAreLive, ResumesOnClosedWork

\* For any sets of runtimes, calls, compensations, members and entitlements: an
\* effect is emitted at most once and owned by its Run, a closure states what the
\* provider did and never flips, the model sees one result of a call and every
\* send has its handoff, whatever crashes, takeovers, lost and late receipts
\* (commit_effect_send, emit_effect, append_effect_receipt,
\* resolve_original_effect).
THEOREM EffectsStayExact == EffectsAssumption /\ Spec => []EffectsAreExact
<1> SUFFICES ASSUME EffectsAssumption PROVE Spec => []EffectsAreExact OBVIOUS
<1>1. Init => IInv BY InitIInv
<1>2. IInv /\ [Next]_vars => IInv' BY NextIInv
<1>3. IInv => EffectsAreExact BY IInvImplies
<1>4. QED BY <1>1, <1>2, <1>3, PTL DEF Spec

\* An emission is claimed by the current runtime of an ACTIVE Run, inside its
\* horizon and its entitlement window, a compensation on the evidence it was
\* adopted for; and a suspended Run resumes only when the evidence of every effect
\* it owns supports the closure (emit_effect, resume_execution).
THEOREM EffectStepsStayLive ==
    EffectsAssumption /\ Spec => [][ClaimsAreLive /\ ResumesOnClosedWork]_vars
<1> SUFFICES ASSUME EffectsAssumption PROVE Spec => [][ClaimsAreLive /\ ResumesOnClosedWork]_vars
    OBVIOUS
<1>1. Init => IInv BY InitIInv
<1>2. IInv /\ [Next]_vars => IInv' BY NextIInv
<1>3. IInv /\ [Next]_vars => ClaimsAreLive /\ ResumesOnClosedWork BY StepsAreLive
<1>4. QED BY <1>1, <1>2, <1>3, PTL DEF Spec
=============================================================================
