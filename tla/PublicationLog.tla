---------------------------- MODULE PublicationLog ----------------------------
(***************************************************************************)
(* What platform/postgres.py promises its callers: one append-only log of  *)
(* publications per user.  A publication enters the log at most once, is   *)
(* never changed or removed, and every answer a caller receives about it   *)
(* is true of the log.  Module UserDatabase refines this specification.    *)
(***************************************************************************)
EXTENDS Naturals, Sequences

CONSTANT Requests   \* publications: records with fields key, fp and ids

VARIABLES log, told

Members(r) == {r.ids[n] : n \in DOMAIN r.ids}

Init == log = <<>> /\ told = {}

\* A new key with record identities that no publication has used yet.
Publish(r) ==
    /\ r.ids # <<>>
    /\ \A n \in DOMAIN log :
          log[n].key # r.key /\ Members(log[n]) \cap Members(r) = {}
    /\ log' = Append(log, r)
    /\ UNCHANGED told

\* A caller learns that its request is the n-th publication, or that another
\* publication holds its key.
Answer(r, n) ==
    /\ log[n].key = r.key
    /\ told' = told \cup {[req |-> r, seq |-> n, same |-> log[n] = r]}
    /\ UNCHANGED log

Next ==
    \/ \E r \in Requests : Publish(r)
    \/ \E r \in Requests : \E n \in DOMAIN log : Answer(r, n)

Spec == Init /\ [][Next]_<<log, told>>
=============================================================================
