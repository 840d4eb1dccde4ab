---------------------------- MODULE DeploymentGate ----------------------------
(***************************************************************************)
(* The deployment gate of platform/postgres_gate.py: operators on the two  *)
(* tables gate_current and gate_handoffs, called inside the transaction    *)
(* that holds the user's row lock, so each of them is part of its caller's *)
(* step.                                                                   *)
(*                                                                         *)
(* An entitlement is its terms, which a request must name exactly          *)
(* (generation, mode, heads, cursors, leases and bounds), and live: the    *)
(* readiness, status, open causes and live predicates, which an import may *)
(* change while the terms stay the same.                                   *)
(***************************************************************************)
EXTENDS Naturals, FiniteSets

CONSTANTS
    Terms,          \* entitlement terms an operator may import
    NoEntitlement   \* gate_current holds no row

\* The capability a surface needs; Terms name a capability in their bounds.
Surfaces == {"planning.create", "cli.render", "effects.first_send",
             "delivery.first_send"}
capability ==
    [s \in Surfaces |->
        CASE s = "planning.create" -> "planning.create_intention_line"
          [] s = "cli.render"      -> "planning.read"
          [] OTHER                 -> s]

\* cap is positive (Field(gt=0)); starts <= now < expires is the live window
\* and lease the earliest freshness lease.
\* What the constants have to satisfy.
TermsAssumption ==
    \A t \in Terms : /\ t.cap \in Nat \ {0}
                     /\ {t.starts, t.expires, t.lease} \subseteq Nat

Entitlements == [terms : Terms, live : BOOLEAN]

Request(op, surface, payload, terms) ==
    [operation_id |-> op, surface_id |-> surface, payload |-> payload, terms |-> terms]

-----------------------------------------------------------------------------
Exact(current, request, surface, payload) ==
    /\ current # NoEntitlement
    /\ request.surface_id = surface
    /\ request.terms.capability = capability[surface]
    /\ request.payload = payload
    /\ request.terms = current.terms

Recorded(handoffs, request) ==
    {h \in handoffs : h.request.operation_id = request.operation_id}

Open(current, now) ==
    /\ current.live
    /\ current.terms.starts <= now /\ now < current.terms.expires
    /\ now < current.terms.lease

Crossings(handoffs, terms) ==
    {h \in handoffs : h.request.terms.entitlement = terms.entitlement
                      /\ h.request.terms.mode = terms.mode}

WithinCap(handoffs, terms) ==
    Cardinality(Crossings(handoffs, terms)) < terms.cap

\* PostgresDeploymentGate.require: HOLD is PermissionError, CONFLICT ValueError,
\* RECORDED returns False and FRESH returns True.
require(current, handoffs, now, request, surface, payload, live) ==
    LET recorded == Recorded(handoffs, request) IN
    IF ~Exact(current, request, surface, payload) THEN "HOLD"
    ELSE IF \E h \in recorded : h # [request |-> request, payload |-> payload]
         THEN "CONFLICT"
    ELSE IF recorded # {} /\ ~live THEN "RECORDED"
    ELSE IF ~Open(current, now) THEN "HOLD"
    ELSE IF recorded # {} THEN "RECORDED"
    ELSE IF WithinCap(handoffs, request.terms) THEN "FRESH" ELSE "HOLD"

\* PostgresDeploymentGate.crossed, under the primary key on the operation.
crossed(handoffs, request, payload) ==
    handoffs \cup {[request |-> request, payload |-> payload]}
=============================================================================
