--------------------------- MODULE IngressFairness ---------------------------
(***************************************************************************)
(* The deficit round robin bound of platform/_ingress_domain.py:           *)
(* selection_deadline and block_and_rebase, against the scheduler whose    *)
(* visits they bound.                                                      *)
(*                                                                         *)
(* Source classes are visited one per slot in a canonical order.  A visit  *)
(* of this class adds a quantum to its deficit (up to a cap) and selects   *)
(* the head of its ready queue if the deficit covers it, or skips a head   *)
(* that is no longer ready.  The repository declares the commands          *)
(* (AdmitReadyGeneration, SelectReadyHead, BlockAndRebasePrefix,           *)
(* UnblockReadyTail) and computes the two functions; the scheduler that    *)
(* visits the classes is in no file of it.  IsVisit, OtherClass and        *)
(* SelectReadyHead are the environment those functions presume: one class  *)
(* per slot, in a fixed order.                                             *)
(***************************************************************************)
EXTENDS Integers, Sequences, SequencesExt, FiniteSetsExt

CONSTANTS
    ClassCount,  \* number of classes in the canonical order
    Position,    \* the place of this class in it, from 0
    Quantum, Cap, MaxItem, Depth,  \* the ClassReserve
    Sizes,       \* accounted bytes of the generations that arrive
    MaxItems,    \* bound on generations, for TLC only
    MaxUInt      \* the largest UInt64

\* What the constants have to satisfy.
FairnessAssumption ==
    /\ ClassCount \in Nat \ {0} /\ Position \in 0..(ClassCount - 1)
    /\ Quantum \in Nat \ {0} /\ Cap \in Nat \ {0} /\ Depth \in Nat \ {0}
    /\ Sizes \subseteq 1..MaxItem /\ MaxItem <= Cap

VARIABLES
    slot,     \* the scheduler slot
    deficit,  \* the deficit of this class
    ready,    \* its ready generations, first in first out
    bounds,   \* the AdmissionBound of every ready generation, in that order
    blocked,  \* generations that were skipped
    admitted, \* how many generations were admitted
    missed,   \* some generation was selected at or after its deadline
    refused   \* some complete rebase was refused

vars == <<slot, deficit, ready, bounds, blocked, admitted, missed, refused>>

Ceil(n, q) == (n + q - 1) \div q
-----------------------------------------------------------------------------
\* One generation of selection_deadline: the visits it needs and the deficit left.
Served(acc, bytes) ==
    LET needed == Max({0, bytes - acc.deficit})
        count == Max({1, Ceil(needed, Quantum)}) IN
    [visits |-> acc.visits + count,
     deficit |-> Min({Cap, acc.deficit + count * Quantum}) - bytes]

\* Mutant: the generation itself is not counted, only its predecessors.
DeadlineOfPredecessors(b) ==
    LET end == FoldLeft(LAMBDA acc, g : Served(acc, g.bytes),
                        [visits |-> 0, deficit |-> b.initial], b.preds) IN
    b.evaluation + ClassCount * end.visits

\* selection_deadline: the slot by which the target of a bound is selected.
selection_deadline(b) ==
    LET end == FoldLeft(LAMBDA acc, g : Served(acc, g.bytes),
                        [visits |-> 0, deficit |-> b.initial],
                        Append(b.preds, b.target)) IN
    b.evaluation + ClassCount * end.visits

\* The checks selection_deadline makes before it computes.
BoundIsAdmissible(b) ==
    /\ b.initial <= Cap
    /\ Len(b.preds) + 1 <= Depth
    /\ selection_deadline(b) <= MaxUInt

\* The visit that skips a blocked head still earns its quantum.
after_skip_deficit(d) == Min({Cap, d + Quantum})

\* A bound of block_and_rebase: the blocked head leaves the prefix, the origin
\* and the absolute deadline stay.
Remaining(b, d, s) ==
    [b EXCEPT !.preds = Tail(@), !.initial = after_skip_deficit(d), !.evaluation = s + 1]

\* The rebase is refused when some descendant would miss its original deadline.
RebaseAdmissible(d, s) ==
    \A i \in DOMAIN bounds :
        i > 1 => selection_deadline(Remaining(bounds[i], d, s)) <= bounds[i].deadline
-----------------------------------------------------------------------------
Init ==
    /\ slot = 0 /\ deficit = 0 /\ ready = <<>> /\ bounds = <<>> /\ blocked = {}
    /\ admitted = 0 /\ missed = FALSE /\ refused = FALSE

\* A generation joins the tail with a bound over the complete queue before it.
Enqueue(g) ==
    LET b == [target |-> g, preds |-> ready, initial |-> deficit,
              evaluation |-> slot, deadline |-> 0] IN
    /\ BoundIsAdmissible(b)
    /\ ready' = Append(ready, g)
    /\ bounds' = Append(bounds, [b EXCEPT !.deadline = selection_deadline(b)])

AdmitReadyGeneration(bytes) ==
    /\ admitted < MaxItems
    /\ Enqueue([id |-> admitted, bytes |-> bytes])
    /\ admitted' = admitted + 1
    /\ UNCHANGED <<slot, deficit, blocked, missed, refused>>

UnblockReadyTail(g) ==
    /\ Enqueue(g)
    /\ blocked' = blocked \ {g}
    /\ UNCHANGED <<slot, deficit, admitted, missed, refused>>

\* Environment: the slots in which the round comes to this class.
IsVisit == slot % ClassCount = Position

\* Environment: the slot of another class, or a visit with nothing ready.
OtherClass ==
    /\ ~IsVisit \/ ready = <<>>
    /\ ready # <<>> \/ blocked # {}
    /\ slot < MaxUInt
    /\ slot' = slot + 1
    /\ UNCHANGED <<deficit, ready, bounds, blocked, admitted, missed, refused>>

\* Environment: a visit selects the head if the deficit covers it; the bounds behind it
\* lose it from their prefix and are evaluated from the next slot.
SelectReadyHead ==
    LET earned == Min({Cap, deficit + Quantum})
        covered == Head(ready).bytes <= earned
        left == IF covered THEN earned - Head(ready).bytes ELSE earned
        rest == IF covered THEN Tail(bounds) ELSE bounds IN
    /\ IsVisit /\ ready # <<>>
    /\ missed' = (missed \/ (covered /\ slot >= Head(bounds).deadline))
    /\ ready' = IF covered THEN Tail(ready) ELSE ready
    /\ deficit' = left
    /\ bounds' = [i \in DOMAIN rest |->
                    [rest[i] EXCEPT !.preds = IF covered THEN Tail(@) ELSE @,
                                    !.initial = left, !.evaluation = slot + 1]]
    /\ slot' = slot + 1
    /\ UNCHANGED <<blocked, admitted, refused>>

\* A visit that finds its head blocked: one atomic batch closes the bound of the
\* head and rebases every descendant, or nothing is published.
block_and_rebase ==
    /\ IsVisit /\ ready # <<>> /\ ~refused
    /\ IF RebaseAdmissible(deficit, slot)
       THEN /\ blocked' = blocked \cup {Head(ready)}
            /\ ready' = Tail(ready)
            /\ bounds' = [i \in 1..(Len(bounds) - 1) |-> Remaining(bounds[i + 1], deficit, slot)]
            /\ deficit' = after_skip_deficit(deficit)
            /\ slot' = slot + 1
            /\ UNCHANGED refused
       ELSE /\ refused' = TRUE
            /\ UNCHANGED <<blocked, ready, bounds, deficit, slot>>
    /\ UNCHANGED <<admitted, missed>>

Next ==
    \/ \E bytes \in Sizes : AdmitReadyGeneration(bytes)
    \/ \E g \in blocked : UnblockReadyTail(g)
    \/ OtherClass \/ SelectReadyHead \/ block_and_rebase

Spec == Init /\ [][Next]_vars
-----------------------------------------------------------------------------
\* In every such round a generation is selected before the absolute deadline fixed
\* when it was admitted, whatever is admitted behind it, blocked before it or unblocked
\* (selection_deadline).
SelectedByDeadline == ~missed

\* A complete rebase at the class's own visit is never refused for extending a
\* deadline: the head of the line can always be skipped (block_and_rebase).
RebaseIsNeverRefused == ~refused
=============================================================================
