--------------------------- MODULE SnapshotStore ----------------------------
(***************************************************************************)
(* AutoVizServerNode's data path: topic callbacks store the newest message *)
(* of each data kind in SnapshotStore, the publish timer expires silent    *)
(* topics and hands the whole snapshot to the server when it changed.  The *)
(* node has one executor thread; an action is one callback.                *)
(*                                                                         *)
(* The action topics are in ActionTracker.  A message is reduced to what   *)
(* the store looks at: a chassis command either turns on the spot or it    *)
(* does not.                                                               *)
(***************************************************************************)
EXTENDS Naturals

CONSTANTS Kinds,      \* data kinds with a monitored topic
          Plain,      \* those that only store their message
          MaxEntries, \* bound of the model: center turns entered
          MaxClients  \* m_serverConfig.maxClients

Paths == {"global", "local"}
Perception == {"range", "inspection"}

ASSUME StoreAssumption ==
  /\ Plain \cap (Paths \cup Perception \cup {"control"}) = {}
  /\ Plain \subseteq Kinds
  /\ Kinds \subseteq Plain \cup Paths \cup Perception \cup {"control"}
  /\ MaxEntries \in Nat
  /\ MaxClients \in Nat

VARIABLES
  field,       \* the optional fields of m_snapshot; "none" if absent
  perception,  \* m_snapshot.has_perception_state()
  stale,       \* now - TopicMonitor::lastReceive exceeds the timeout
  received,    \* TopicMonitor::messageCount > 0
  timedOut,    \* TopicMonitor::timedOut
  centerTurn,  \* m_centerTurnActive
  dirty,       \* m_dirty
  running,     \* start() succeeded: the publish timer exists
  clientCount, \* VisualizationServer::clientCount, changed by the I/O thread
  lastCount,   \* m_lastPublishedClientCount
  published,   \* the snapshot given to the server last
  entries,     \* center turns entered so far (observed, not in the code)
  arrival      \* value of entries when the stored path arrived (observed)

vars == <<field, perception, stale, received, timedOut, centerTurn, dirty,
          running, clientCount, lastCount, published, entries, arrival>>
timer == <<running, clientCount, lastCount, published>>

None == "none"

\* A stored message; a command that turns on the spot is told apart.
Field == {None, "stored", "turn"}

\* What buildSnapshot puts into a snapshot.
View == [field |-> field, perception |-> perception, timedOut |-> timedOut,
         clients |-> clientCount]
-----------------------------------------------------------------------------
(* SnapshotStore                                                           *)

\* record(): the topic is alive, the snapshot has changed.
Record(k) ==
  /\ stale' = [stale EXCEPT ![k] = FALSE]
  /\ received' = [received EXCEPT ![k] = TRUE]
  /\ timedOut' = [timedOut EXCEPT ![k] = FALSE]
  /\ dirty' = TRUE
  /\ UNCHANGED timer

\* Most update operations only store the message; the two perception requests
\* live in a message that is created for them.
Update(k) ==
  /\ k \in Plain \cup Perception
  /\ field' = [field EXCEPT ![k] = "stored"]
  /\ perception' = (perception \/ k \in Perception)
  /\ Record(k)
  /\ UNCHANGED <<centerTurn, entries, arrival>>

Command(turn) == IF turn THEN "turn" ELSE "stored"

\* updateControlCommand: entering a center turn removes both paths.
UpdateControlCommand ==
  \E turn \in BOOLEAN :
    LET entering == turn /\ ~centerTurn
    IN  /\ "control" \in Kinds
        /\ turn => entries < MaxEntries
        /\ field' = [k \in Kinds |->
                       IF k = "control" THEN Command(turn)
                       ELSE IF k \in Paths /\ entering THEN None
                       ELSE field[k]]
        /\ entries' = IF entering THEN entries + 1 ELSE entries
        /\ centerTurn' = turn
        /\ Record("control")
        /\ UNCHANGED <<perception, arrival>>

\* Mutant: paths are stored during a center turn, too.
UpdatePathAlways(k) ==
  /\ k \in Paths \cap Kinds
  /\ field' = [field EXCEPT ![k] = "stored"]
  /\ arrival' = [arrival EXCEPT ![k] = entries]
  /\ Record(k)
  /\ UNCHANGED <<perception, centerTurn, entries>>

\* updateGlobalTrajectory, updateLocalTrajectory: during a center turn a path
\* only counts as a sign of life of its topic.
UpdatePath(k) ==
  /\ k \in Paths \cap Kinds
  /\ IF centerTurn
     THEN UNCHANGED <<field, arrival>>
     ELSE /\ field' = [field EXCEPT ![k] = "stored"]
          /\ arrival' = [arrival EXCEPT ![k] = entries]
  /\ Record(k)
  /\ UNCHANGED <<perception, centerTurn, entries>>

\* A topic without a message within the timeout.
Silent(k) == ~received[k] \/ stale[k]

\* Mutant: the age of the last message is not looked at.
ExpiringNeverReceived == {k \in Kinds : ~received[k] /\ ~timedOut[k]}

\* What expire() finds: topics whose flag is to be raised.
Expiring == {k \in Kinds : Silent(k) /\ ~timedOut[k]}

\* Mutant: the command expires but the center turn does not.
ClearKeepsTurn(S) ==
  /\ field' = [k \in Kinds |-> IF k \in S THEN None ELSE field[k]]
  /\ perception' = (perception /\ \E k \in Perception \cap Kinds : field'[k] # None)
  /\ UNCHANGED centerTurn

\* clear() of the kinds of S.
Clear(S) ==
  /\ field' = [k \in Kinds |-> IF k \in S THEN None ELSE field[k]]
  /\ perception' = (perception /\ \E k \in Perception \cap Kinds : field'[k] # None)
  /\ centerTurn' = (centerTurn /\ "control" \notin S)

\* Mutant: raising the flag of a topic is not a change of the snapshot.
ChangedByMessages == dirty

\* m_dirty after expire().
Changed == dirty \/ Expiring # {}
-----------------------------------------------------------------------------
(* AutoVizServerNode                                                       *)

\* start(): the first snapshot holds the parameters and the source.
Start ==
  /\ ~running
  /\ running' = TRUE
  /\ published' = View
  /\ dirty' = FALSE
  /\ UNCHANGED <<field, perception, stale, received, timedOut, centerTurn,
                 clientCount, lastCount, entries, arrival>>

\* The publish timer: expire, then publish if anything changed.  Either way
\* the store is not dirty afterwards.
PublishSnapshot ==
  /\ running
  /\ Clear(Expiring)
  /\ timedOut' = [k \in Kinds |-> Silent(k)]
  /\ dirty' = FALSE
  /\ IF Changed \/ clientCount # lastCount
     THEN /\ published' = [field |-> field', perception |-> perception',
                           timedOut |-> timedOut', clients |-> clientCount]
          /\ lastCount' = clientCount
     ELSE UNCHANGED <<published, lastCount>>
  /\ UNCHANGED <<stale, received, running, clientCount, entries, arrival>>

\* Clients come and go: the I/O thread changes the count at any moment.
ClientsChange ==
  /\ clientCount' \in 0 .. MaxClients
  /\ UNCHANGED <<field, perception, stale, received, timedOut, centerTurn,
                 dirty, running, lastCount, published, entries, arrival>>

\* Time passes: no message of k for longer than the timeout.
Elapse(k) ==
  /\ received[k]
  /\ ~stale[k]
  /\ stale' = [stale EXCEPT ![k] = TRUE]
  /\ UNCHANGED <<field, perception, received, timedOut, centerTurn, dirty,
                 timer, entries, arrival>>
-----------------------------------------------------------------------------
\* The constructor calls setSource and setVehicleParameters: dirty.
Init ==
  /\ field = [k \in Kinds |-> None]
  /\ perception = FALSE
  /\ stale = [k \in Kinds |-> FALSE]
  /\ received = [k \in Kinds |-> FALSE]
  /\ timedOut = [k \in Kinds |-> TRUE]
  /\ centerTurn = FALSE
  /\ dirty = TRUE
  /\ running = FALSE
  /\ clientCount = 0
  /\ lastCount = 0
  /\ published = View
  /\ entries = 0
  /\ arrival = [k \in Paths \cap Kinds |-> 0]

Next ==
  \/ \E k \in Kinds : Update(k) \/ UpdatePath(k) \/ Elapse(k)
  \/ UpdateControlCommand
  \/ Start
  \/ PublishSnapshot
  \/ ClientsChange

Spec == Init /\ [][Next]_vars

\* The publish timer is periodic.
FairSpec == Spec /\ WF_vars(PublishSnapshot)
-----------------------------------------------------------------------------
(* Properties                                                              *)

\* Types of the variables.
TypeOK ==
  /\ field \in [Kinds -> Field]
  /\ perception \in BOOLEAN
  /\ stale \in [Kinds -> BOOLEAN]
  /\ received \in [Kinds -> BOOLEAN]
  /\ timedOut \in [Kinds -> BOOLEAN]
  /\ centerTurn \in BOOLEAN
  /\ dirty \in BOOLEAN
  /\ running \in BOOLEAN
  /\ clientCount \in 0 .. MaxClients
  /\ lastCount \in 0 .. MaxClients
  /\ published \in [field : [Kinds -> Field], perception : BOOLEAN,
                    timedOut : [Kinds -> BOOLEAN], clients : 0 .. MaxClients]
  /\ entries \in Nat
  /\ arrival \in [Paths \cap Kinds -> Nat]

\* The suppression of paths follows the stored command: it is on exactly
\* while the snapshot holds a command that turns, so that an expired command
\* cannot suppress paths for ever.
TurnFollowsCommand ==
  centerTurn <=> "control" \in Kinds /\ field["control"] = "turn"

\* No path from before the last center turn, or from during it, is in the
\* snapshot: old paths do not come back when the turn ends
\* (memory/ARCHITECTURE.md).
PathsAfterTurn ==
  \A k \in Paths \cap Kinds : field[k] # None =>
    ~centerTurn /\ arrival[k] = entries

\* The perception message exists exactly while one of its two requests does:
\* they expire independently.
PerceptionPresence ==
  /\ perception <=> \E k \in Perception \cap Kinds : field[k] # None
  /\ \A k \in Perception \cap Kinds : field[k] = None <=> timedOut[k]

\* Nothing is lost between the store and the server: as long as the store is
\* not dirty, the last published snapshot shows its content.
PublishedCurrent ==
  running /\ ~dirty =>
    /\ published.field = field
    /\ published.perception = perception
    /\ published.timedOut = timedOut

\* A snapshot published by the timer shows no field of a silent topic.
PublishedAlive ==
  [][running /\ published' # published =>
       \A k \in Kinds : Silent(k) => published'.field[k] = None]_vars

\* A topic that stays silent disappears from what the clients get.
FieldTimesOut ==
  \A k \in Kinds :
    (running /\ stale[k]) ~> (published.field[k] = None \/ ~stale[k])
=============================================================================
