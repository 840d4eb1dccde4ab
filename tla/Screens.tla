------------------------------ MODULE Screens ------------------------------
(***************************************************************************)
(* The screens of the workspace: Workspace.refresh applies a navigation    *)
(* command to the retained families and their stacks, divides the turn's   *)
(* token budget among the screens, registers their derivatives and makes   *)
(* the new state durable: first in the independent issuance journal, then  *)
(* in the screen cache.  Reopening replays the journal's missing suffix    *)
(* into the cache.                                                         *)
(*                                                                         *)
(* Two R12Workspace objects may share the two files (concurrent calls of   *)
(* R13Workspace._workspace); the read context of a refresh may be revoked  *)
(* while it awaits the registrations; the cache write may fail, and the    *)
(* process may stop between the two writes.                                *)
(***************************************************************************)
EXTENDS Integers, Sequences, FiniteSets, SequencesExt, FiniteSetsExt

CONSTANTS Objects,      \* R12Workspace objects
          Families,     \* dashboard families besides the conversation
          Order,        \* the families in the order the first batch focuses
          Commands,     \* navigation commands
          Policies,     \* [total, fixed, output, floor]
          Requests,     \* token demand of the conversation screen
          None,
          MaxStates,    \* bound: issued states
          MaxRetained,  \* bound: batches retained with their dashboard
          MaxFaults     \* bound: failed cache writes and crashes

VARIABLES issued,     \* the issuance journal
          cache,      \* the screen cache
          h1,         \* dashboards retained with original workspace issuances
          objects,    \* per object: None or [screen, todo, budget, pending]
          faults

vars == <<issued, cache, h1, objects, faults>>

Conversation == "core.conversation"
Operations == {"focus", "open", "replace", "push", "pop", "back"}
Locations == [family: Families \cup {Conversation}, screen: {"overview", "detail"}]

\* What the constants have to satisfy.
CommandsAssumption == Commands \subseteq [operation: Operations, location: Locations]

Init ==
  /\ issued = <<>> /\ cache = <<>> /\ h1 = {}
  /\ objects = [o \in Objects |-> None] /\ faults = 0

-----------------------------------------------------------------------------
(* Navigation and budget.                                                  *)

\* The conversation has only its overview.
Resolves(location) == location.family = Conversation => location.screen = "overview"

StackOf(state, family) ==
  IF state # None /\ family \in DOMAIN state.stacks THEN state.stacks[family] ELSE <<>>

CanNavigate(state, nav) ==
  /\ Resolves(nav.location)
  /\ nav.operation \in {"pop", "back"} => Len(StackOf(state, nav.location.family)) >= 2

Navigated(stack, nav) ==
  IF nav.operation \in {"pop", "back"} THEN Front(stack)
  ELSE IF nav.operation \in {"replace", "focus"} /\ stack # <<>>
  THEN Append(Front(stack), nav.location) ELSE Append(stack, nav.location)

Stacks(state, nav) ==
  LET old == IF state = None THEN << >> ELSE state.stacks
  IN IF nav = None THEN old
     ELSE [f \in DOMAIN old \cup {nav.location.family} |->
             IF f = nav.location.family THEN Navigated(StackOf(state, f), nav) ELSE old[f]]

\* The navigated family becomes the most recent of at most three.
Last3(s) == SubSeq(s, IF Len(s) > 3 THEN Len(s) - 2 ELSE 1, Len(s))
Retained(state, nav) ==
  LET old == IF state = None THEN <<>> ELSE state.retained
      family == nav.location.family
  IN IF nav = None \/ family = Conversation THEN old
     ELSE Last3(Append(SelectSeq(old, LAMBDA f : f # family), family))

Greater(a, b) == IF a > b THEN a ELSE b
Lesser(a, b) == IF a < b THEN a ELSE b

Remaining(policy, retained) ==
  policy.total - policy.fixed - policy.output - Len(retained)

FitsBudget(policy, retained) == Remaining(policy, retained) >= policy.floor

ConversationShare(policy, request, remaining) ==
  Lesser(Greater(policy.floor, request), Greater(policy.floor, remaining \div 3))

\* TurnContextBudgeter.allocate: the conversation's share, then doubling
\* weights by recency; the most recent family takes what rounding left.
Allocate(policy, retained, request) ==
  LET remaining == Remaining(policy, retained)
      talk == ConversationShare(policy, request, remaining)
      rest == remaining - talk
      n == Len(retained)
      share(i) == (rest * 2 ^ (i - 1)) \div (2 ^ n - 1)
      used == MapThenSumSet(share, 1..n)
  IN [f \in {Conversation} \cup Range(retained) |->
        IF f = Conversation THEN talk
        ELSE LET i == CHOOSE j \in 1..n : retained[j] = f
             IN share(i) + IF i = n THEN rest - used ELSE 0]

\* One screen for the conversation and one per retained family.
Shown(stacks, retained) ==
  {[family |-> Conversation, screen |-> "overview"]}
    \cup {Last(stacks[f]) : f \in Range(retained)}

NextState(previous, nav, policy, request) ==
  LET retained == Retained(previous, nav)
      stacks == Stacks(previous, nav)
  IN [sequence |-> (IF previous = None THEN 0 ELSE previous.sequence) + 1,
      retained |-> retained, stacks |-> stacks, screens |-> Shown(stacks, retained),
      policy |-> policy, allocations |-> Allocate(policy, retained, request)]

-----------------------------------------------------------------------------
(* The journal, the cache and their recovery.                              *)

\* recover_cache: the cache is a gap-free prefix of the journal's states, and
\* gets the missing suffix; anything else is an integrity failure.
Recovers == IsPrefix(cache, issued)

\* R12Workspace.__init__ over the two files.
Open(o) ==
  /\ objects[o] = None
  /\ IF Recovers
     THEN /\ cache' = issued
          /\ objects' = [objects EXCEPT ![o] =
               [screen |-> IF issued = <<>> THEN None ELSE Last(issued),
                todo |-> <<>>, budget |-> None, pending |-> None]]
     ELSE UNCHANGED <<cache, objects>>
  /\ UNCHANGED <<issued, h1, faults>>

Abandon(o) == objects' = [objects EXCEPT ![o] =
                [screen |-> @.screen, todo |-> <<>>, budget |-> None, pending |-> None]]

\* read_batch: the first batch focuses every family before its own command,
\* all under one budget policy and over one cut.
BeginBatch(o, nav, policy, request) ==
  /\ objects[o] # None /\ objects[o].todo = <<>> /\ objects[o].pending = None
  /\ objects' = [objects EXCEPT ![o].budget = [policy |-> policy, request |-> request],
                                ![o].todo =
       (IF objects[o].screen # None THEN <<>>
        ELSE [i \in 1..Len(Order) |->
                [operation |-> "focus",
                 location |-> [family |-> Order[i], screen |-> "overview"]]]) \o <<nav>>]
  /\ UNCHANGED <<issued, cache, h1, faults>>

\* The predecessor must be the persisted and the issued state.
IsPersisted(state) ==
  state = None \/ /\ state.sequence \in DOMAIN cache /\ cache[state.sequence] = state
                  /\ state.sequence \in DOMAIN issued /\ issued[state.sequence] = state

\* refresh up to the awaited derivative registrations.
BeginRefresh(o) ==
  /\ objects[o] # None /\ objects[o].todo # <<>> /\ objects[o].pending = None
  /\ LET previous == objects[o].screen  nav == Head(objects[o].todo)
         policy == objects[o].budget.policy
     IN IF /\ IsPersisted(previous) /\ (nav # None => CanNavigate(previous, nav))
           /\ FitsBudget(policy, Retained(previous, nav))
        THEN objects' = [objects EXCEPT ![o].pending =
                           NextState(previous, nav, policy, objects[o].budget.request)]
        ELSE Abandon(o)
  /\ UNCHANGED <<issued, cache, h1, faults>>

\* The context was revoked meanwhile: validate raises, nothing is selected.
RejectRefresh(o) ==
  /\ objects[o] # None /\ objects[o].pending # None /\ Abandon(o)
  /\ UNCHANGED <<issued, cache, h1, faults>>

\* select_verified: the same bytes again, or the journal's next sequence.
Selectable(state) ==
  IF state.sequence \in DOMAIN issued THEN issued[state.sequence] = state
  ELSE state.sequence = Len(issued) + 1
Selected(state) == IF state.sequence \in DOMAIN issued THEN issued
                                                       ELSE Append(issued, state)

\* SQLiteWorkspaceStore.save
Savable(state) == state.sequence = Len(cache) + 1

FinishRefresh(o) ==
  /\ objects[o] # None /\ objects[o].pending # None
  /\ LET state == objects[o].pending
     IN IF ~Selectable(state) THEN Abandon(o) /\ UNCHANGED <<issued, cache>>
        ELSE /\ issued' = Selected(state)
             /\ IF Savable(state)
                THEN /\ cache' = Append(cache, state)
                     /\ objects' = [objects EXCEPT ![o] =
                          [screen |-> state, todo |-> Tail(@.todo), pending |-> None,
                           budget |-> IF Len(@.todo) = 1 THEN None ELSE @.budget]]
                ELSE Abandon(o) /\ UNCHANGED cache
  /\ UNCHANGED <<h1, faults>>

\* Only the first of the two writes happened.
SaveWritten(state) == Savable(state) /\ cache' = Append(cache, state) /\ UNCHANGED issued
FirstWritten(state) == Selectable(state) /\ issued' = Selected(state) /\ UNCHANGED cache

\* The second write raises: the object keeps its old screen.
SecondWriteFails(o) ==
  /\ faults < MaxFaults /\ faults' = faults + 1
  /\ objects[o] # None /\ objects[o].pending # None
  /\ FirstWritten(objects[o].pending) /\ Abandon(o)
  /\ UNCHANGED h1

\* The process stops between the two writes: every object is gone.
CrashBetweenWrites(o) ==
  /\ faults < MaxFaults /\ faults' = faults + 1
  /\ objects[o] # None /\ objects[o].pending # None
  /\ FirstWritten(objects[o].pending)
  /\ objects' = [p \in Objects |-> None]
  /\ UNCHANGED h1

\* The workspace is closed; R13Workspace opens the next one.
Close(o) ==
  /\ objects[o] # None /\ objects[o].pending = None
  /\ objects' = [objects EXCEPT ![o] = None]
  /\ UNCHANGED <<issued, cache, h1, faults>>

\* H1WorkspaceIssuanceJournal.append retains a batch with its dashboard; the
\* same proposal context again is the same entry or a refusal.
H1Append(o) ==
  /\ objects[o] # None /\ objects[o].screen # None /\ objects[o].todo = <<>>
  /\ Cardinality(h1) < MaxRetained
  /\ h1' = h1 \cup {objects[o].screen}
  /\ UNCHANGED <<issued, cache, objects, faults>>

\* verify_h1_original_workspace finds the dashboard in the issuance journal.
H1Verifies(dashboard) ==
  dashboard.sequence \in DOMAIN issued /\ issued[dashboard.sequence] = dashboard

Next ==
  \E o \in Objects :
    \/ Open(o) \/ Close(o) \/ RejectRefresh(o) \/ FinishRefresh(o)
    \/ SecondWriteFails(o) \/ CrashBetweenWrites(o) \/ H1Append(o)
    \/ Len(issued) < MaxStates /\ \E nav \in Commands \cup {None}, policy \in Policies,
         request \in Requests : BeginBatch(o, nav, policy, request)
    \/ BeginRefresh(o)

Spec == Init /\ [][Next]_vars

-----------------------------------------------------------------------------
\* Whatever was interrupted, every state in the cache, in an object's memory
\* or retained with an H1 batch is the one the journal issued at its sequence:
\* recover_cache never meets a state it must refuse, and two objects never
\* show different states under one sequence.
DisplayIsIssued ==
  /\ Recovers
  /\ \A o \in Objects : objects[o] # None /\ objects[o].screen # None =>
       H1Verifies(objects[o].screen)
  /\ \A dashboard \in h1 : H1Verifies(dashboard)

\* In every issued state the screens are the conversation and the retained
\* families, each on a resolvable location; the allocations are not negative,
\* leave the conversation its floor and use no more than the policy's total
\* after its fixed and output parts and one token per retained family.
ScreensFitTheBudget ==
  \A i \in DOMAIN issued :
    LET s == issued[i]  families == {Conversation} \cup Range(s.retained)
    IN /\ {l.family : l \in s.screens} = families /\ Cardinality(s.screens) = Cardinality(families)
       /\ \A l \in s.screens : Resolves(l)
       /\ \A f \in families : s.allocations[f] >= 0
       /\ s.allocations[Conversation] >= s.policy.floor
       /\ MapThenSumSet(LAMBDA f : s.allocations[f], families)
            + s.policy.fixed + s.policy.output + Len(s.retained) <= s.policy.total

=============================================================================
