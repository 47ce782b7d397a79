--------------------------- MODULE PlaybackWorker ---------------------------
(***************************************************************************)
(* LocalRosbagPlaybackSource::Worker: plays a validated bag on a virtual   *)
(* clock, in its own thread.  An action is one slot or timer handler of    *)
(* that thread, except that the loop of processUntil over the rows is      *)
(* taken one row at a time: `pc' names the handler that is in it, and no   *)
(* other handler runs meanwhile.                                           *)
(*                                                                         *)
(* A bag is a sequence of rows in cursor order (timestamp, split, id).     *)
(* Rows are referred to by their index.  Positions are absolute here       *)
(* (m_info.startTimeNs + m_positionNs).  Counts, the sequence number of    *)
(* the snapshot and the speed are left out; the clock may be read at any   *)
(* later time.                                                             *)
(***************************************************************************)
EXTENDS Naturals, Sequences

CONSTANTS Bags,    \* sequences of rows
          Timeout, \* kTopicTimeoutNs
          Hasty    \* TRUE: the user seeks in a stopped bag, and presses
                   \* "start" again before the window knows that it plays

None == 0

Kind == {"turn",      \* /chassis_command with MANEUVER_YAW_IN_PLACE
         "straight",  \* any other /chassis_command
         "path",      \* /global_path or /local_path
         "target",    \* /targets/final_objects
         "badTarget", \* one that cannot be decoded
         "pose"}      \* a topic of which a batch decodes the last row only

Row == [ts : Nat \ {0}, kind : Kind]

ASSUME BagsAssumption ==
  /\ \A b \in Bags : /\ b \in Seq(Row)
                     /\ Len(b) > 0
                     /\ \A i \in 1 .. Len(b) : \A j \in i .. Len(b) :
                          b[i].ts <= b[j].ts
  /\ Timeout \in Nat
  /\ Hasty \in BOOLEAN

Topics == {"command", "path", "targets", "pose"}

VARIABLES
  bag,       \* the rows of m_db
  opened,    \* m_db is open
  state,     \* m_state
  position,  \* m_info.startTimeNs + m_positionNs
  view,      \* m_snapshot: the row each topic shows
  lastTime,  \* m_lastTimes
  turning,   \* m_centerTurnActive
  cursor,    \* the row m_query is before, or at while m_hasPending
  pending,   \* m_hasPending
  cursorReady, \* m_cursorReady
  exhausted, \* m_cursorExhausted
  pc,        \* handler in processUntil, or "idle"
  processed, \* processedRows > 0
  published  \* what DataManager got last, if anything

shownVars == <<view, lastTime, turning>>
cursorVars == <<cursor, pending, cursorReady, exhausted>>
vars == <<bag, opened, state, position, shownVars, cursorVars, pc, processed,
          published>>

Nothing == [t \in Topics |-> None]
NoFrame == [at |-> 0, view |-> Nothing]
Begin == bag[1].ts
End == bag[Len(bag)].ts
Rows == 1 .. Len(bag)

TopicOf(kind) ==
  CASE kind \in {"turn", "straight"} -> "command"
    [] kind = "path" -> "path"
    [] kind \in {"target", "badTarget"} -> "targets"
    [] kind = "pose" -> "pose"
-----------------------------------------------------------------------------
(* The snapshot                                                            *)

\* updateRuntime: a topic without a row in the last Timeout is cleared.
Fresh(last, now) == last # 0 /\ now <= last + Timeout

\* publish(now) of the fields v with the times of the last rows.
Publish(now, v, last, turn) ==
  /\ view' = [t \in Topics |-> IF Fresh(last[t], now) THEN v[t] ELSE None]
  /\ lastTime' = last
  /\ turning' = (turn /\ Fresh(last["command"], now))
  /\ published' = [at |-> now, view |-> view']

\* resetSnapshot, but for the cursor.
ResetSnapshot ==
  /\ view' = Nothing
  /\ lastTime' = [t \in Topics |-> 0]
  /\ turning' = FALSE
  /\ published' = NoFrame

NoCursor ==
  /\ pending' = FALSE
  /\ cursorReady' = FALSE
  /\ exhausted' = FALSE
  /\ UNCHANGED cursor

\* The first row that is not before time t, or the end of the bag.
RowFrom(t) == CHOOSE i \in 1 .. Len(bag) + 1 :
                /\ \A j \in 1 .. i - 1 : bag[j].ts < t
                /\ \A j \in i .. Len(bag) : bag[j].ts >= t

\* prepareCursor on an open bag.
PrepareCursor(t) ==
  /\ cursor' = RowFrom(t)
  /\ pending' = FALSE
  /\ exhausted' = FALSE
  /\ cursorReady' = TRUE
-----------------------------------------------------------------------------
(* Rebuilding a position                                                   *)

Commands == {i \in Rows : TopicOf(bag[i].kind) = "command"}

\* The last row of S that is not after t, or None.
LastOf(S, t) ==
  LET past == {i \in S : bag[i].ts <= t}
  IN  IF past = {} THEN None ELSE CHOOSE i \in past : \A j \in past : j <= i

\* Rows that the latest message of a topic is taken from.
Candidates(topic) ==
  {i \in Rows : TopicOf(bag[i].kind) = topic /\ bag[i].kind # "badTarget"}

\* m_centerTurnTransitions: commands that end a center turn.
Exits == {i \in Commands : /\ bag[i].kind = "straight"
                           /\ \E j \in Commands : /\ j < i
                                                  /\ bag[j].kind = "turn"
                                                  /\ \A k \in Commands : k <= j \/ k >= i}

\* Mutant: paths from before a center turn are taken for new ones.
PathAllowedAnyAge(i, t) ==
  LET command == LastOf(Commands, t)
  IN  command = None \/ bag[command].kind = "straight" \/ t > bag[command].ts + Timeout

\* Whether rebuildAt(t) keeps the path of row i: no center turn is going on
\* and the path came after the end of the last one.  A turning command that
\* timed out ends its center turn when it does.
PathAllowed(i, t) ==
  LET command == LastOf(Commands, t)
  IN  \/ command = None
      \/ /\ bag[command].kind = "straight"
         /\ LastOf(Exits, t) < i
      \/ /\ bag[command].kind = "turn"
         /\ t > bag[command].ts + Timeout
         /\ bag[i].ts > bag[command].ts + Timeout

\* The row of a topic that rebuildAt(t) applies.
RebuiltRow(topic, t) ==
  LET i == LastOf(Candidates(topic), t)
  IN  IF topic = "path" /\ i # None /\ ~PathAllowed(i, t) THEN None ELSE i

\* m_lastTimes after rebuildAt(t).
RebuiltTime(topic, t) ==
  LET i == LastOf(Candidates(topic), t)
  IN  IF i = None THEN 0 ELSE bag[i].ts

\* rebuildAt on an open bag.
RebuildAt(t) ==
  LET command == LastOf(Commands, t)
  IN  /\ Publish(t, [p \in Topics |-> RebuiltRow(p, t)],
                    [p \in Topics |-> RebuiltTime(p, t)],
                    command # None /\ bag[command].kind = "turn")
      /\ PrepareCursor(t + 1)

\* rebuildAt without a database: every query fails.
RebuildNothing(t) ==
  /\ Publish(t, Nothing, [p \in Topics |-> 0], FALSE)
  /\ NoCursor
-----------------------------------------------------------------------------
(* Playing                                                                 *)

\* What a round of processUntil does: count the row, apply it.  A path only counts
\* during a center turn; a broken target does not even count.
ApplyRow(i) ==
  LET topic == TopicOf(bag[i].kind)
      enters == bag[i].kind = "turn" /\ ~turning
      hidden == bag[i].kind = "path" /\ turning
  IN  IF bag[i].kind = "badTarget" THEN UNCHANGED shownVars
      ELSE /\ lastTime' = [lastTime EXCEPT ![topic] = bag[i].ts]
           /\ view' = [view EXCEPT !["path"] = IF enters THEN None ELSE @,
                                   ![topic] = IF hidden THEN None ELSE i]
           /\ turning' = IF topic = "command" THEN bag[i].kind = "turn" ELSE turning

\* advanceClock and the call of processUntil in the handler h.
Synchronize(h) ==
  /\ pc = "idle"
  /\ state = "Playing"
  /\ position' \in position .. End
  /\ pc' = h
  /\ processed' = FALSE
  /\ UNCHANGED <<bag, opened, state, shownVars, cursorVars, published>>

Tick == Synchronize("tick")
Pause == Synchronize("pause")
SetRate == Synchronize("rate")

\* The next row is not later than the target of processUntil.
RowDue == cursor <= Len(bag) /\ bag[cursor].ts <= position

\* One round of processUntil.
ProcessRow ==
  /\ pc # "idle"
  /\ RowDue
  /\ ApplyRow(cursor)
  /\ cursor' = cursor + 1
  /\ pending' = FALSE
  /\ processed' = TRUE
  /\ UNCHANGED <<bag, opened, state, position, cursorReady, exhausted, pc,
                 published>>

\* What the handlers do after processUntil.
Return ==
  /\ pc' = "idle"
  /\ processed' = FALSE
  /\ state' = CASE pc = "pause" -> "Paused"
                [] pc = "tick" /\ position' = End /\ ~pending' /\ exhausted' ->
                     "Completed"
                [] OTHER -> state
  /\ UNCHANGED <<bag, opened, cursor, cursorReady>>

\* Mutant: the end of the cursor is not remembered.
TargetReachedUnnoticed ==
  /\ pc # "idle"
  /\ ~RowDue
  /\ pending' = (cursor <= Len(bag))
  /\ Publish(position, view, lastTime, turning)
  /\ UNCHANGED <<position, exhausted>>
  /\ Return

\* processUntil reached its target: the row it fetched last is pending.
TargetReached ==
  /\ pc # "idle"
  /\ ~RowDue
  /\ pending' = (cursor <= Len(bag))
  /\ exhausted' = (exhausted \/ cursor > Len(bag))
  /\ Publish(position, view, lastTime, turning)
  /\ UNCHANGED position
  /\ Return

\* Mutant: the position stays where the clock was.
BudgetSpentNoRollback ==
  /\ pc # "idle"
  /\ processed
  /\ Publish(position, view, lastTime, turning)
  /\ UNCHANGED <<position, pending, exhausted>>
  /\ Return

\* 2000 rows or 4 ms are spent: the position goes back to the last row.
BudgetSpent ==
  /\ pc # "idle"
  /\ processed
  /\ position' = bag[cursor - 1].ts
  /\ Publish(position', view, lastTime, turning)
  /\ UNCHANGED <<pending, exhausted>>
  /\ Return
-----------------------------------------------------------------------------
(* Commands of the user, as the worker receives them                       *)

\* play() with a cursor at hand: go on.
Resume ==
  /\ pc = "idle"
  /\ state \in {"Ready", "Paused"}
  /\ cursorReady
  /\ state' = "Playing"
  /\ UNCHANGED <<bag, opened, position, shownVars, cursorVars, pc, processed,
                 published>>

\* Where play() begins: a completed bag starts over.
StartPosition == IF state = "Completed" THEN Begin ELSE position

\* Mutant: a bag that is started again keeps its snapshot.
StartKeepsSnapshot ==
  /\ pc = "idle"
  /\ \/ state = "Ready" /\ ~cursorReady
     \/ state \in {"Stopped", "Completed"}
     \/ Hasty /\ state = "Playing"
  /\ position' = StartPosition
  /\ IF opened
     THEN PrepareCursor(StartPosition) /\ state' = "Playing"
     ELSE NoCursor /\ UNCHANGED state
  /\ UNCHANGED <<bag, opened, shownVars, pc, processed, published>>

\* play() otherwise: the snapshot is emptied (but while playing) and the
\* cursor prepared.
Start ==
  /\ pc = "idle"
  /\ \/ state = "Ready" /\ ~cursorReady
     \/ state \in {"Stopped", "Completed"}
     \/ Hasty /\ state = "Playing"
  /\ position' = StartPosition
  /\ IF state = "Playing" THEN UNCHANGED <<shownVars, published>> ELSE ResetSnapshot
  /\ IF opened
     THEN PrepareCursor(StartPosition) /\ state' = "Playing"
     ELSE NoCursor /\ UNCHANGED state
  /\ UNCHANGED <<bag, opened, pc, processed>>

Stop ==
  /\ pc = "idle"
  /\ position' = Begin
  /\ ResetSnapshot
  /\ NoCursor
  /\ state' = "Stopped"
  /\ UNCHANGED <<bag, opened, pc, processed>>

Seek(t) ==
  /\ pc = "idle"
  /\ Hasty \/ state # "Stopped"
  /\ position' = t
  /\ IF opened THEN RebuildAt(t) ELSE RebuildNothing(t)
  /\ UNCHANGED <<bag, opened, state, pc, processed>>

Seeks == \E t \in Begin .. End : Seek(t)

\* load of a bag that passes the validation.
Load ==
  /\ pc = "idle"
  /\ opened' = TRUE
  /\ position' = Begin
  /\ ResetSnapshot
  /\ NoCursor
  /\ state' = "Ready"
  /\ UNCHANGED <<bag, pc, processed>>

\* load of one that does not: m_info is still the last one.
LoadFails ==
  /\ pc = "idle"
  /\ opened' = FALSE
  /\ state' = "Error"
  /\ UNCHANGED <<bag, position, shownVars, cursorVars, pc, processed, published>>
-----------------------------------------------------------------------------
\* After the first load.
Init ==
  /\ bag \in Bags
  /\ opened = TRUE
  /\ state = "Ready"
  /\ position = Begin
  /\ view = Nothing
  /\ lastTime = [t \in Topics |-> 0]
  /\ turning = FALSE
  /\ cursor = 1
  /\ pending = FALSE
  /\ cursorReady = FALSE
  /\ exhausted = FALSE
  /\ pc = "idle"
  /\ processed = FALSE
  /\ published = NoFrame

Next ==
  \/ Tick
  \/ Pause
  \/ SetRate
  \/ ProcessRow
  \/ TargetReached
  \/ BudgetSpent
  \/ Resume
  \/ Start
  \/ Stop
  \/ Seeks
  \/ Load
  \/ LoadFails

Spec == Init /\ [][Next]_vars

UserCommand == Pause \/ SetRate \/ Resume \/ Start \/ Stop \/ Seeks \/ Load \/ LoadFails

\* The timer fires every 20 ms while the bag is played, sooner or later with a
\* clock that went on, and processUntil ends.
Fairness ==
  /\ SF_vars(Tick /\ (position' > position \/ position' = End))
  /\ WF_vars(ProcessRow \/ TargetReached)

FairSpec == Spec /\ Fairness
-----------------------------------------------------------------------------
(* Properties                                                              *)

\* Types of the variables.
TypeOK ==
  /\ bag \in Bags
  /\ opened \in BOOLEAN
  /\ state \in {"Ready", "Playing", "Paused", "Stopped", "Completed", "Error"}
  /\ position \in Begin .. End
  /\ view \in [Topics -> 0 .. Len(bag)]
  /\ lastTime \in [Topics -> Nat]
  /\ turning \in BOOLEAN
  /\ cursor \in 1 .. Len(bag) + 1
  /\ pending \in BOOLEAN
  /\ cursorReady \in BOOLEAN
  /\ exhausted \in BOOLEAN
  /\ pc \in {"idle", "tick", "pause", "rate"}
  /\ processed \in BOOLEAN
  /\ published \in [at : Nat, view : [Topics -> 0 .. Len(bag)]]

\* The first k rows are all that lie before time t and perhaps some at t: a
\* batch may end between rows of the same time.
Prefix(k, t) == /\ \A i \in 1 .. k : bag[i].ts <= t
                /\ \A i \in k + 1 .. Len(bag) : bag[i].ts >= t

\* The last row of S among the first k.
LastWithin(S, k) ==
  LET past == S \cap (1 .. k)
  IN  IF past = {} THEN None ELSE CHOOSE i \in past : \A j \in past : j <= i

\* What a topic shows at time t after the first k rows.
Due(topic, k, t) ==
  LET i == LastWithin(Candidates(topic), k)
      command == LastWithin(Commands, k)
      hidden == /\ topic = "path"
                /\ command # None
                /\ bag[command].kind = "turn" \/ i < LastWithin(Exits, k)
  IN  IF i = None \/ hidden \/ ~Fresh(bag[i].ts, t) THEN None ELSE i

\* Until time t no turning command was followed by silence for longer than the
\* timeout.
TurnsHeard(t) ==
  \A i \in Commands : bag[i].kind = "turn" /\ bag[i].ts + Timeout < t =>
     \E j \in Commands : i < j /\ bag[j].ts <= bag[i].ts + Timeout

\* AutoVizClient/README.md:33, memory/ARCHITECTURE.md:77, 90: whether a position
\* was played to, rebuilt by a seek or reached with too little time, what is
\* published is the latest message of every topic up to the position that is
\* reported.  For paths it says so only where center turns do not time out:
\* playing notices that at the next frame, a seek to the nanosecond.
ViewFollowsPosition ==
  opened /\ pc = "idle" /\ published # NoFrame =>
    /\ position = published.at
    /\ \E k \in 0 .. Len(bag) :
         /\ Prefix(k, position)
         /\ \A topic \in Topics :
              topic # "path" \/ TurnsHeard(position) =>
                published.view[topic] = Due(topic, k, position)

\* memory/ARCHITECTURE.md:111: a path from before the last turning command is
\* not shown again, whatever sequence of seeks, pauses and timeouts led here.
PathsAfterTurn ==
  published # NoFrame /\ published.view["path"] # None =>
    \A i \in Rows : bag[i].kind = "turn" /\ bag[i].ts < published.at =>
                    i < published.view["path"]

\* Without a seek, frames go forward in time until the snapshot is emptied.
FramesForward ==
  [][published # NoFrame /\ published' # NoFrame /\ ~Seeks =>
       published'.at >= published.at]_vars

\* Left alone, a bag does not play for ever.
PlaybackEnds == <>[][~UserCommand]_vars => <>[](state # "Playing")

\* AutoVizClient/README.md:33: the position never leads the control state that
\* is shown.  (Expected to be violated: play() in a stopped bag empties what a
\* seek rebuilt, but keeps its position.)
ControlFollowsPosition ==
  opened /\ pc = "idle" /\ published # NoFrame =>
    \E k \in 0 .. Len(bag) : /\ Prefix(k, position)
                              /\ published.view["command"] = Due("command", k, position)
=============================================================================
