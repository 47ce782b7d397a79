--------------------------- MODULE ActionTracker ----------------------------
(***************************************************************************)
(* The action state of AutoVizServerNode.  A public topic tells the state  *)
(* of the current action; hidden topics tell native status and progress of *)
(* any action, in no order relative to the public one.  The node keeps the *)
(* hidden facts of the last MaxDiagnostics actions by UUID and merges them *)
(* into the state it stores.  One executor thread: an action is one        *)
(* callback.  A status message with several items is several actions here; *)
(* nothing runs in between in the code.                                    *)
(***************************************************************************)
EXTENDS Naturals, Sequences, FiniteSets

CONSTANTS Goals,          \* action UUIDs in canonical form
          MaxDiagnostics, \* 128 in diagnosticFor
          MaxPublic,    \* bound of the model: public messages
          MaxHidden       \* bound of the model: hidden messages

ASSUME TrackerAssumption ==
  /\ MaxDiagnostics \in Nat \ {0}
  /\ MaxPublic \in Nat
  /\ MaxHidden \in Nat

VARIABLES
  cache,          \* m_actionDiagnostics
  order,          \* m_actionDiagnosticOrder
  latest,         \* m_latestActionState
  shown,          \* m_snapshot.action_state without its recent_terminal
  shownRecent,    \* m_snapshot.action_state.recent_terminal
  recentTerminal, \* m_recentTerminalAction
  messageCount,          \* messageCount of /system_run_states
  silent,         \* its last message is older than the timeout
  timedOut,       \* TopicMonitor::timedOut
  dirty,          \* m_dirty
  published,      \* action state and terminal of the last published snapshot
  clock,          \* hidden messages so far: their receive times
  told,           \* newest hidden facts of every goal (observed)
  ended           \* sequence of the newest terminal state (observed)

store == <<shown, shownRecent, recentTerminal, messageCount, silent, timedOut, dirty>>
trackerVars == <<cache, order, latest, store, published, clock, told, ended>>

\* Hidden facts: receive times of status and progress, 0 for "not received".
NothingTold == [status |-> 0, progress |-> 0]

\* The public goal_id: empty, a UUID, or a UUID printed without the leading
\* zeros of its bytes.
NoGoal == <<>>
GoalIds == {NoGoal} \cup (Goals \X {"canonical", "lossy"})

\* sameGoalUuid(goal, id).  Two UUIDs with one lossy form are not considered.
SameAction(goal, id) == id # NoGoal /\ id[1] = goal

\* What the store holds: an action state with its header's sequence.
Stored(action, sequence) ==
  [id |-> action.id, terminal |-> action.terminal, status |-> action.status,
   progress |-> action.progress, sequence |-> sequence]
NoAction == [id |-> NoGoal, terminal |-> FALSE, status |-> 0, progress |-> 0]
AbsentAction == Stored(NoAction, 0)
-----------------------------------------------------------------------------
(* SnapshotStore                                                           *)

\* updateActionState: canceling, succeeded and aborted are terminal.
UpdateActionState(action) ==
  LET value == Stored(action, messageCount + 1)
  IN  /\ recentTerminal' = IF value.terminal THEN value ELSE recentTerminal
      /\ shownRecent' = recentTerminal'
      /\ shown' = value
      /\ messageCount' = messageCount + 1
      /\ silent' = FALSE
      /\ timedOut' = FALSE
      /\ dirty' = TRUE

\* updateActionDiagnostics: header and recent_terminal stay.
UpdateActionDiagnostics(action) ==
  /\ IF shown = AbsentAction
     THEN UNCHANGED <<shown, dirty>>
     ELSE shown' = Stored(action, shown.sequence) /\ dirty' = TRUE
  /\ UNCHANGED <<shownRecent, recentTerminal, messageCount, silent, timedOut>>

\* expire() and clear() of the action topic, then publish if dirty.
PublishSnapshot ==
  LET expired == (messageCount = 0 \/ silent) /\ ~timedOut
  IN  /\ IF expired
         THEN /\ shown' = AbsentAction
              /\ shownRecent' = AbsentAction
              /\ recentTerminal' = AbsentAction
              /\ timedOut' = TRUE
         ELSE UNCHANGED <<shown, shownRecent, recentTerminal, timedOut>>
      /\ published' = IF dirty \/ expired THEN <<shown', shownRecent'>>
                                          ELSE published
      /\ dirty' = FALSE
      /\ UNCHANGED <<cache, order, latest, messageCount, silent, clock, told, ended>>

\* No public message for longer than the timeout.
Elapse ==
  /\ messageCount > 0
  /\ silent' = TRUE
  /\ UNCHANGED <<cache, order, latest, shown, shownRecent, recentTerminal,
                 messageCount, timedOut, dirty, published, clock, told, ended>>
-----------------------------------------------------------------------------
(* AutoVizServerNode                                                       *)

\* diagnosticFor, and the assignment to the entry it returns.  A new entry
\* pushes the oldest out; an entry that exists does not become younger.
DiagnosticFor(goal, facts) ==
  LET grown == Append(order, goal)
  IN  IF cache[goal] # NothingTold
      THEN cache' = [cache EXCEPT ![goal] = facts] /\ UNCHANGED order
      ELSE IF Len(grown) > MaxDiagnostics
      THEN /\ order' = Tail(grown)
           /\ cache' = [cache EXCEPT ![Head(grown)] = NothingTold, ![goal] = facts]
      ELSE /\ order' = grown
           /\ cache' = [cache EXCEPT ![goal] = facts]

\* Mutant: nothing is taken from the cache.
MergedFromLatest(id) ==
  IF messageCount > 0 /\ id = latest.id
  THEN [status |-> latest.status, progress |-> latest.progress] ELSE NothingTold

\* Mutant: nothing is kept of the previous state of the same action.
MergedFromCache(id) == IF id = NoGoal THEN NothingTold ELSE cache[id[1]]

\* The hidden facts of a new public state: those of the previous state if it
\* has the same goal_id, overridden by mergeCachedActionDiagnostic.
Merged(id) ==
  LET kept == IF messageCount > 0 /\ id = latest.id
              THEN [status |-> latest.status, progress |-> latest.progress]
              ELSE NothingTold
      known == IF id = NoGoal THEN NothingTold ELSE cache[id[1]]
  IN  [status |-> IF known.status # 0 THEN known.status ELSE kept.status,
       progress |-> IF known.progress # 0 THEN known.progress ELSE kept.progress]

OnPublicAction(id, terminal) ==
  LET facts == Merged(id)
      next == [id |-> id, terminal |-> terminal,
               status |-> facts.status, progress |-> facts.progress]
  IN  /\ messageCount < MaxPublic
      /\ latest' = next
      /\ UpdateActionState(next)
      /\ ended' = IF terminal THEN messageCount + 1 ELSE ended
      /\ UNCHANGED <<cache, order, published, clock, told>>

\* A hidden message: facts are cached; those of the current action reach the
\* store at once.
Hidden(goal, facts, action) ==
  /\ clock < MaxHidden
  /\ clock' = clock + 1
  /\ DiagnosticFor(goal, facts)
  /\ IF messageCount > 0 /\ SameAction(goal, latest.id)
     THEN latest' = action /\ UpdateActionDiagnostics(action)
     ELSE UNCHANGED <<latest, store>>
  /\ UNCHANGED <<published, ended>>

\* onActionStatus with updateActionNativeStatus.
OnActionStatus(goal) ==
  /\ Hidden(goal, [cache[goal] EXCEPT !.status = clock + 1],
            [latest EXCEPT !.status = clock + 1])
  /\ told' = [told EXCEPT ![goal].status = clock + 1]

\* onDepthActionFeedback, onMoveActionFeedback with updateActionProgress.
OnActionFeedback(goal) ==
  /\ Hidden(goal, [cache[goal] EXCEPT !.progress = clock + 1],
            [latest EXCEPT !.progress = clock + 1])
  /\ told' = [told EXCEPT ![goal].progress = clock + 1]
-----------------------------------------------------------------------------
\* start() has published the first snapshot: no action yet.
TrackerInit ==
  /\ cache = [g \in Goals |-> NothingTold]
  /\ order = <<>>
  /\ latest = NoAction
  /\ shown = AbsentAction
  /\ shownRecent = AbsentAction
  /\ recentTerminal = AbsentAction
  /\ messageCount = 0
  /\ silent = FALSE
  /\ timedOut = TRUE
  /\ dirty = FALSE
  /\ published = <<AbsentAction, AbsentAction>>
  /\ clock = 0
  /\ told = [g \in Goals |-> NothingTold]
  /\ ended = 0

TrackerNext ==
  \/ \E id \in GoalIds, terminal \in BOOLEAN : OnPublicAction(id, terminal)
  \/ \E goal \in Goals : OnActionStatus(goal) \/ OnActionFeedback(goal)
  \/ PublishSnapshot
  \/ Elapse

TrackerSpec == TrackerInit /\ [][TrackerNext]_trackerVars
-----------------------------------------------------------------------------
(* Properties                                                              *)

Facts == [status : Nat, progress : Nat]
Actions == [id : GoalIds, terminal : BOOLEAN, status : Nat, progress : Nat]
StoredActions == [id : GoalIds, terminal : BOOLEAN, status : Nat,
                  progress : Nat, sequence : Nat]

\* Types of the variables.
TypeOK ==
  /\ cache \in [Goals -> Facts]
  /\ order \in Seq(Goals)
  /\ latest \in Actions
  /\ shown \in StoredActions
  /\ shownRecent \in StoredActions
  /\ recentTerminal \in StoredActions
  /\ messageCount \in Nat
  /\ silent \in BOOLEAN
  /\ timedOut \in BOOLEAN
  /\ dirty \in BOOLEAN
  /\ published \in StoredActions \X StoredActions
  /\ clock \in Nat
  /\ told \in [Goals -> Facts]
  /\ ended \in Nat

\* The cache is bounded: map and queue hold the same actions, each once.
CacheBounded ==
  /\ Len(order) <= MaxDiagnostics
  /\ \A i, j \in 1 .. Len(order) : order[i] = order[j] => i = j
  /\ \A g \in Goals :
       cache[g] # NothingTold <=> \E i \in 1 .. Len(order) : order[i] = g

\* As long as hidden messages told of no more actions than the cache holds,
\* the stored state has the newest facts of its action, in whatever order the
\* messages came, expiries in between included (memory/PROTOCOL_DESIGN.md: the
\* hidden message must not be dropped because it comes first).
FactsInAnyOrder ==
  \A g \in Goals :
    /\ Cardinality({h \in Goals : told[h] # NothingTold}) <= MaxDiagnostics
    /\ shown # AbsentAction
    /\ SameAction(g, shown.id)
    => shown.status = told[g].status /\ shown.progress = told[g].progress

\* Hidden messages enrich the state and leave its metadata alone: the sequence
\* is the number of public messages (SnapshotStore.h).
MetadataOfPublic == shown # AbsentAction => shown.sequence = messageCount

\* A stored state without unpublished changes is the published one.
PublishedCurrent == ~dirty => published = <<shown, shownRecent>>

\* The recent terminal is the newest terminal state ever received, never an
\* older one.
RecentIsNewest ==
  shownRecent # AbsentAction => shownRecent.terminal /\ shownRecent.sequence = ended

\* While one action stays the current one, its facts never get lost or older,
\* even when the cache drops it.
NeverForgets ==
  [][shown # AbsentAction /\ shown' # AbsentAction /\ shown'.id = shown.id =>
       shown'.status >= shown.status /\ shown'.progress >= shown.progress]_trackerVars
=============================================================================
