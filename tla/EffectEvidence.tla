---------------------------- MODULE EffectEvidence ----------------------------
(***************************************************************************)
(* reduce_child_evidence of capabilities/effects/domain.py: what the       *)
(* retained receipts of one send say about the members of its bundle.      *)
(*                                                                         *)
(* An observation is [child, member, outcome]: a transmission, a member of *)
(* the inseparable bundle, and one of the two terminal outcomes a receipt  *)
(* can report.  The function is conservative: every child must have a      *)
(* terminal observation for every member, and a child with both outcomes   *)
(* for one member makes that member uncertain again.                       *)
(***************************************************************************)
Terminal == {"OCCURRED", "PERMANENTLY_INCAPABLE"}
ClosedOutcomes == {"CONFIRMED", "FAILED_NO_EFFECT", "PARTIAL_CONFIRMED"}
OpenOutcomes == {"OUTCOME_UNKNOWN", "PARTIAL"}

Observations(children, members) ==
    [child : children, member : members, outcome : Terminal]

Observed(obs, c, m, outcome) ==
    [child |-> c, member |-> m, outcome |-> outcome] \in obs

Contradicted(obs, children, m) ==
    \E c \in children : \A o \in Terminal : Observed(obs, c, m, o)

Unobserved(obs, children, m) ==
    \E c \in children : \A o \in Terminal : ~Observed(obs, c, m, o)

\* Mutant: a member without observation counts as settled.
SettledByAbsence(obs, children, m) == ~Contradicted(obs, children, m)

Settled(obs, children, m) ==
    ~Contradicted(obs, children, m) /\ ~Unobserved(obs, children, m)

occurred(obs, children, members) ==
    {m \in members : /\ ~Contradicted(obs, children, m)
                     /\ \E c \in children : Observed(obs, c, m, "OCCURRED")}

reduce_child_evidence(prior, children, members, obs) ==
    LET happened == occurred(obs, children, members) IN
    IF \E m \in members : ~Settled(obs, children, m)
    THEN IF prior \in OpenOutcomes THEN prior
         ELSE IF happened # {} /\ (\E a, b \in members : a # b) THEN "PARTIAL"
         ELSE "OUTCOME_UNKNOWN"
    ELSE IF happened = members THEN "CONFIRMED"
    ELSE IF happened = {} THEN "FAILED_NO_EFFECT"
    ELSE IF prior \in OpenOutcomes THEN "PARTIAL_CONFIRMED"
    ELSE "PARTIAL"
=============================================================================
