---------------------------- MODULE StatusPanel -----------------------------
(***************************************************************************)
(* The status panel: what BottomStatusPanel says of the robot and of the   *)
(* age of its topics.  Ages are taken twice, on two clocks: the source     *)
(* removes the value of a silent topic from its snapshots, the client      *)
(* takes the age anew at every refresh, by its own wall clock when the     *)
(* source is a server and by the position of a bag.                        *)
(*                                                                         *)
(* The panel keeps nothing from one refresh to the next: its texts are     *)
(* operators of what DataManager holds.  A text is the set of the words    *)
(* that the badges look for in it; the value of a topic is the set of its  *)
(* flags that a text depends on.  Time counts units of the timeout's       *)
(* precision, milliseconds; 0 is no time.  The ways of a snapshot to the   *)
(* client are in VizServer and RemoteSource: here it arrives or it does    *)
(* not.                                                                    *)
(***************************************************************************)
EXTENDS Integers, FiniteSets

CONSTANTS Values,    \* topic -> the values it may report
          Timeout,    \* topic_timeout_ms and kTopicTimeoutNs
          Leads,      \* how far the server's clock is ahead of the client's
          LastMoment,    \* bound: last time
          MaxMessages \* bound: messages heard of a source

Topics == DOMAIN Values
ASSUME PanelAssumption ==
  /\ {"location", "chassis", "command", "action", "task", "targets"} \subseteq Topics
  /\ \A t \in Topics : {"absent"} \notin Values[t]
  /\ Timeout \in Nat /\ Leads \subseteq Int /\ LastMoment \in Nat

VARIABLES
  lead,     \* the server's clock less the client's
  wall,     \* the client's clock
  position, \* place of playback in the bag
  source,   \* DataManager::m_activeInputSource; last, value of every topic there
  held      \* DataManager::m_snapshot

panelVars == <<lead, wall, position, source, held>>

Absent == {"absent"}
Unheard == [t \in Topics |-> 0]
NoValues == [t \in Topics |-> Absent]
SilentSource(kind) == [kind |-> kind, heard |-> 0, last |-> Unheard, value |-> NoValues]
EmptySnapshot(kind) == [kind |-> kind, time |-> 0, last |-> Unheard, value |-> NoValues]
\* The clock of the source.
Now == IF source.kind = "Remote" THEN wall + lead ELSE position
-----------------------------------------------------------------------------
(* DataManager::getSnapshot                                                *)
Max0(n) == IF n > 0 THEN n ELSE 0
\* Mutant: ages are of the wall clock, whatever the source.
ReferenceOfWall == wall
Reference == IF held.kind = "Ros2Bag" /\ held.time > 0 THEN held.time ELSE wall
Age(t) == IF held.last[t] = 0 THEN 0 ELSE Max0(Reference - held.last[t])
TimedOut(t) == held.last[t] = 0 \/ Age(t) > Timeout
-----------------------------------------------------------------------------
(* BottomStatusPanel                                                       *)
Heard(t) == held.last[t] # 0
Online(t) == Heard(t) /\ ~TimedOut(t)
Late(t) == Heard(t) /\ TimedOut(t)
Valid(t) == held.value[t] # Absent
Reported(t, flag) == Valid(t) /\ flag \in held.value[t]

TopicText(t) ==
  IF ~Heard(t) THEN {"waiting"} ELSE IF TimedOut(t) THEN {"timeout"} ELSE {"online"}

\* The last column of the table of updateControlTimeline.
RowText(t) ==
  IF Online(t) THEN (IF Valid(t) THEN {"valid"} ELSE {"no value"})
  ELSE IF Heard(t) THEN {"expired"} ELSE {"waiting"}

\* The faults of a chassis message, and the word each reason has.
FaultFlags == {"thruster", "controller", "motor", "bms", "warning", "tank"}
Faults == IF Valid("chassis") THEN held.value["chassis"] \cap FaultFlags ELSE {}
\* explicitChassisFaultReasons
FaultsText ==
  IF ~Valid("chassis") THEN {"--"}
  ELSE IF Faults = {} THEN {"fault", "no fault"}
  ELSE {IF f = "warning" THEN "warning" ELSE "fault" : f \in Faults}
\* explicitChassisFaultCount
FaultCount == Cardinality(Faults)
\* chassisHealthText
HealthText ==
  IF ~Heard("chassis") THEN {"waiting"}
  ELSE IF TimedOut("chassis") THEN {"timeout"}
  ELSE IF ~Valid("chassis") THEN {"waiting"}
  ELSE IF FaultCount = 0 THEN {"online", "fault", "no fault"} ELSE {"online", "fault"}

Crawling == Reported("action", "crawl") \/ Reported("command", "crawl")
AscentAsked == Reported("command", "ascent") \/ Reported("action", "ascent")
\* What overallStateText looks for, the most urgent first.
Alarms == <<
  [of |-> ~Heard("location"),                       words |-> {"waiting"}],
  [of |-> TimedOut("location"),                     words |-> {"timeout"}],
  [of |-> Reported("task", "stop"),                 words |-> {"stop"}],
  [of |-> Reported("chassis", "ascending"),         words |-> {"ascent", "running"}],
  [of |-> AscentAsked,                              words |-> {"ascent"}],
  [of |-> Late("chassis"),                          words |-> {"timeout"}],
  [of |-> Late("command") /\ Reported("action", "enabled"),
                                                    words |-> {"timeout"}],
  [of |-> Reported("action", "aborted"),            words |-> {"aborted"}],
  [of |-> Crawling /\ Late("targets"),              words |-> {"timeout"}],
  [of |-> FaultCount > 0,                           words |-> {"fault"}],
  [of |-> TRUE,                                     words |-> {"online"}] >>
StateText ==
  LET alarms == Alarms
      first == CHOOSE i \in DOMAIN alarms : alarms[i].of /\ \A j \in 1 .. i - 1 : ~alarms[j].of
  IN  alarms[first].words
AscentText ==
  IF ~ \E t \in {"command", "action", "chassis"} : Valid(t) THEN {"--"}
  ELSE (IF AscentAsked THEN {"ascent"} ELSE {"no request"})
       \cup (IF Reported("chassis", "ascending") THEN {"running"} ELSE {"not running"})
\* The texts of updateOverview that have a badge, but for the action's, the
\* paths' and the battery's, which no age or fault of another changes.
Overview(key) ==
  CASE key = "state" -> StateText
    [] key = "ascent" -> AscentText
    [] key = "command" -> IF Valid("command") THEN {"mode"} ELSE TopicText("command")
    [] key = "targets" -> IF Reported("targets", "rejected") THEN {"rejected"} ELSE TopicText("targets")
    [] key = "feedback" -> HealthText
    [] key = "faults" -> FaultsText

\* Mutant: a text that says online is taken for good news.
BadgeTrustsOnline(text) ==
  IF "online" \in text THEN "normal"
  ELSE IF text \cap {"stop", "ascent", "timeout", "aborted", "fault", "warning"} # {} THEN "warn"
  ELSE IF text \cap {"waiting", "--"} # {} THEN "offline" ELSE "none"
\* overviewBadgeObjectName
Badge(text) ==
  IF \/ text \cap {"stop", "ascent", "timeout", "aborted", "warning"} # {}
     \/ "fault" \in text /\ "no fault" \notin text
  THEN "warn"
  ELSE IF text \cap {"waiting", "--"} # {} THEN "offline"
  ELSE IF text \cap {"online", "running"} # {} THEN "normal" ELSE "none"
-----------------------------------------------------------------------------
(* The source: a server, or the worker that plays a bag                    *)
Hear(t) ==
  \E value \in Values[t] :
    /\ source.heard < MaxMessages
    /\ source' = [source EXCEPT !.heard = @ + 1, !.last = [@ EXCEPT ![t] = Now],
                                !.value = [@ EXCEPT ![t] = value]]
    /\ UNCHANGED <<lead, wall, position, held>>
\* SnapshotStore::expire, Worker::updateRuntime
Expired(t) == source.last[t] = 0 \/ Now - source.last[t] > Timeout
PublishTopics ==
  LET value == [t \in Topics |-> IF Expired(t) THEN Absent ELSE source.value[t]]
  IN  /\ source' = [source EXCEPT !.value = value]
      /\ held' = [kind |-> source.kind, time |-> Now, last |-> source.last, value |-> value]
      /\ UNCHANGED <<lead, wall, position>>
\* Time passes, also while a bag is paused; playing moves the position at
\* any rate.
TimePasses == wall < LastMoment /\ wall' = wall + 1 /\ UNCHANGED <<lead, position, source, held>>
PlayOn == /\ source.kind = "Ros2Bag" /\ position < LastMoment /\ position' = position + 1
        /\ UNCHANGED <<lead, wall, source, held>>

From(kind) ==
  /\ source' = SilentSource(kind)
  /\ held' = EmptySnapshot(kind)
  /\ UNCHANGED <<lead, wall>>
\* Another source, a lost connection, or a seek: a seek hears the newest
\* message of every topic again before it publishes.
ResetSnapshot ==
  \/ From("Remote") /\ UNCHANGED position
  \/ From("Ros2Bag") /\ position' = 1

PanelInit ==
  /\ lead \in Leads /\ wall = 2 /\ position = 1
  /\ source = SilentSource("Remote")
  /\ held = EmptySnapshot("Remote")
PanelNext == (\E t \in Topics : Hear(t)) \/ PublishTopics \/ TimePasses \/ PlayOn \/ ResetSnapshot
PanelSpec == PanelInit /\ [][PanelNext]_panelVars
-----------------------------------------------------------------------------
(* Properties                                                              *)
\* The client holds what the source has.
Delivered ==
  /\ held.last = source.last /\ held.value = source.value
  /\ source.kind = "Ros2Bag" => held.time = position
\* The age at the source, as the clock of the client tells it.
Fresh(t) ==
  source.last[t] # 0 /\ Now - source.last[t] <= Timeout + (IF source.kind = "Remote" THEN lead ELSE 0)

\* A topic is called online exactly while its last message is fresh: also
\* when the server has nothing new to send (comment in getSnapshot), and a
\* paused bag does not age.  Unless the server's clock is ahead, a topic that
\* is online has a value.
OnlineIsFresh ==
  /\ Delivered => \A t \in Topics : TopicText(t) = {"online"} <=> Fresh(t)
  /\ source.kind = "Ros2Bag" \/ lead <= 0 =>
       \A t \in Topics : RowText(t) # {"no value"}

Green(key) == Badge(Overview(key)) = "normal"
\* A green badge stands for no trouble: the state's, that the robot is heard
\* and in no emergency, abortion, fault or silence that matters for what it
\* does; the chassis's, that it is heard and reports no fault; another's, that
\* its topic is heard.  What is asked for or at fault is painted as a warning.
\* An ascent that runs unasked is left out: the code paints its badge green.
GreenMeansWell ==
  /\ Green("state") =>
       /\ Online("location") /\ ~Late("chassis") /\ Faults = {}
       /\ ~Reported("task", "stop") /\ ~Reported("action", "aborted")
       /\ ~Reported("chassis", "ascending") /\ ~AscentAsked
       /\ Reported("action", "enabled") => ~Late("command")
       /\ Crawling => ~Late("targets")
  /\ Green("feedback") => Online("chassis") /\ Faults = {}
  /\ \A t \in {"command", "targets"} : Green(t) => Online(t) /\ ~Reported(t, "rejected")
  /\ Badge(Overview("faults")) = "warn" <=> Faults # {}
  /\ Badge(Overview("ascent")) = "warn" <=> AscentAsked
=============================================================================
