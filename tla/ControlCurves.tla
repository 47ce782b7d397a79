--------------------------- MODULE ControlCurves ----------------------------
(***************************************************************************)
(* The control curves: samples that ControlPanelWidget takes of commands   *)
(* and locations when the window refreshes, in its ControlPlotBuffer.  A   *)
(* playback worker in its own thread publishes snapshots, seeks and stops; *)
(* it tells the window by queued signals, so a refresh may come between    *)
(* the reset of a seek, its new snapshot and its signal.                   *)
(*                                                                         *)
(* Time counts ticks; 0 is no time.  Commands and locations are sampled    *)
(* alike: one kind of message stands for both, told apart by its stamp.    *)
(***************************************************************************)
EXTENDS Naturals, Sequences

CONSTANTS Metrics,    \* yaw quantities: of sailing, of crawling and of other modes
          Sessions,   \* runs of a server, positive numbers
          LastTime,   \* bound: last tick of a bag or of a connection
          Window,     \* ControlPlotBuffer::m_windowMs, in ticks
          MaxSignals, \* bound: signals under way
          MaxRequests \* bound: loads, starts and stops under way

ASSUME CurvesAssumption ==
  /\ Sessions \subseteq Nat \ {0} /\ LastTime \in Nat \ {0} /\ Window \in Nat
  /\ MaxSignals \in Nat \ {0} /\ MaxRequests \in Nat \ {0}

VARIABLES
  snapshot,     \* DataManager::m_snapshot
  worker,       \* state, position, cursor; seeking: the snapshot is reset
  requests,     \* the window's calls that come with a new session, queued
  signals,      \* the worker's queued signals to the window
  lastPosition, \* MainWindow::m_lastPlaybackPositionNs
  panel         \* ControlPanelWidget

curvesVars == <<snapshot, worker, requests, signals, lastPosition, panel>>

\* What a snapshot has last: no message, or one of a stamp not after `time'.
NoMessage == [stamp |-> 0, metric |-> "Unknown"]
Messages(time) == {NoMessage} \cup [stamp : 1 .. time, metric : Metrics]
Empty(source) ==
  [source |-> source, session |-> 0, sequence |-> 0, time |-> 0, message |-> NoMessage]
Later(a, b) == IF a > b THEN a - b ELSE 0
-----------------------------------------------------------------------------
(* ControlPanelWidget: the curves                                          *)
Forget(p) == [p EXCEPT !.samples = {}, !.first = 0, !.stamp = 0]
\* Mutant: the buffer is kept when the axis starts anew.
NewMetricKeepsSamples(p, metric) ==
  IF metric \in {"Unknown", p.metric} THEN p ELSE [p EXCEPT !.first = 0, !.metric = metric]
NewMetric(p, metric) ==
  IF metric \in {"Unknown", p.metric} THEN p
  ELSE [p EXCEPT !.samples = {}, !.first = 0, !.metric = metric]
\* sourceReset
NewSource(p, s) ==
  [(IF s.source # p.source \/ s.session # p.session \/ s.sequence < p.sequence
    THEN Forget(p) ELSE p)
   EXCEPT !.source = s.source, !.session = s.session, !.sequence = s.sequence]
\* The axis begins at the time of the first refresh that has a clock; a
\* connection's clock is the wall's, which may be any.
Origins(p, s) ==
  CASE p.first # 0 -> {p.first}
    [] p.first = 0 /\ s.source = "Ros2Bag" -> {s.time}
    [] OTHER -> 1 .. LastTime
Trimmed(samples) ==
  {x \in samples : \A y \in samples : y.elapsed - x.elapsed <= Window}
Pushed(p, s) ==
  IF s.message.stamp \in {0, p.stamp} THEN p
  ELSE [p EXCEPT !.stamp = s.message.stamp,
          !.samples = Trimmed(@ \cup {[at |-> s.message.stamp, metric |-> s.message.metric,
                                       elapsed |-> Later(s.message.stamp, p.first)]})]
UpdatePanel(s) ==
  LET fresh == NewMetric(NewSource(panel, s), s.message.metric)
  IN  \E first \in Origins(fresh, s) :
        \/ panel' = [fresh EXCEPT !.first = first] \* while m_paused
        \/ /\ s.source = "Ros2Bag" => s.time # 0
           /\ panel' = Pushed([fresh EXCEPT !.first = first], s)
-----------------------------------------------------------------------------
(* MainWindow                                                              *)
Refresh ==
  UpdatePanel(snapshot) /\ UNCHANGED <<snapshot, worker, requests, signals, lastPosition>>

\* Mutant: a position before the last one is only noted.
HandlePositionNoted(position) == lastPosition' = position /\ UNCHANGED panel
HandlePosition(position) ==
  /\ lastPosition' = position
  /\ panel' = IF position < lastPosition THEN Forget(panel) ELSE panel
HandleSignal ==
  /\ signals # <<>> /\ signals' = Tail(signals)
  /\ IF Head(signals) = <<"Stopped">> THEN panel' = Forget(panel) /\ UNCHANGED lastPosition
     ELSE HandlePosition(Head(signals)[2])
  /\ UNCHANGED <<snapshot, worker, requests>>

NewSession(source) ==
  snapshot' = Empty(source) /\ panel' = Forget(panel)
Ask(request) == Len(requests) < MaxRequests /\ requests' = Append(requests, request)
LoadOrStart ==
  /\ Ask("load") \/ Ask("play")
  /\ NewSession("Ros2Bag") /\ lastPosition' = 0
  /\ UNCHANGED <<worker, signals>>
OpenConnection ==
  Ask("stop") /\ NewSession("Remote") /\ UNCHANGED <<worker, signals, lastPosition>>
ClearPanel == \* m_clearButton
  /\ panel' = Forget(panel)
  /\ UNCHANGED <<snapshot, worker, requests, signals, lastPosition>>
-----------------------------------------------------------------------------
(* The worker, one request or tick at a time; DataManager refuses what it  *)
(* writes while another source is active                                   *)
Write(s) == snapshot' = IF snapshot.source = "Ros2Bag" THEN s ELSE snapshot
At(position) == <<"position", position>>
Emit(list) == Len(signals \o list) <= MaxSignals /\ signals' = signals \o list
Publish(position, sequence) ==
  \E message \in Messages(1 + position) :
    Write([source |-> "Ros2Bag", session |-> 1, sequence |-> sequence, time |-> 1 + position,
           message |-> message])
Advance == {p \in {worker.position, worker.position + 1} : p < LastTime}
Idle == ~worker.seeking
\* The dialog's other calls leave the window as it is: they are taken any time.
Asked(request) ==
  /\ Idle /\ requests # <<>> /\ Head(requests) = request /\ requests' = Tail(requests)
Called == Idle /\ UNCHANGED requests

Load ==
  /\ Asked("load") /\ Write(Empty("Ros2Bag")) /\ Emit(<<At(0)>>)
  /\ worker' = [state |-> "Ready", position |-> 0, cursor |-> FALSE, seeking |-> FALSE,
                sequence |-> 0]
Play ==
  LET resumes == worker.state \in {"Paused", "Ready"} /\ worker.cursor
      resets == ~resumes /\ worker.state \in {"Completed", "Ready", "Stopped"}
  IN  /\ Asked("play") \/ Called
      /\ worker' = IF worker.state = "Empty" THEN worker
                   ELSE [worker EXCEPT !.state = "Playing", !.cursor = TRUE,
                           !.position = IF worker.state = "Completed" THEN 0 ELSE @,
                           !.sequence = IF resets THEN 0 ELSE @]
      /\ IF resets THEN Write(Empty("Ros2Bag")) ELSE UNCHANGED snapshot
      /\ UNCHANGED signals
Stop ==
  /\ (Asked("stop") \/ Called) /\ Write(Empty("Ros2Bag")) /\ Emit(<<At(0), <<"Stopped">>>>)
  /\ worker' = [worker EXCEPT !.state = IF @ = "Empty" THEN @ ELSE "Stopped", !.position = 0,
                              !.cursor = FALSE, !.sequence = 0]
\* tick and pause bring the snapshot to the present position and tell it; what
\* setRate publishes without telling it, up to the next tick, is left out.
TickOrPause ==
  /\ Called /\ worker.state = "Playing" /\ worker.sequence < LastTime
  /\ \E position \in Advance, state \in {"Playing", "Paused", "Completed"} :
       /\ state = "Completed" => position = LastTime - 1
       /\ worker' = [worker EXCEPT !.position = position, !.sequence = @ + 1, !.state = state]
       /\ Emit(<<At(position)>>) /\ Publish(position, worker.sequence + 1)
SeekReset ==
  /\ Called /\ worker.state # "Empty" /\ UNCHANGED signals
  /\ \E position \in 0 .. LastTime - 1 :
       worker' = [worker EXCEPT !.position = position, !.seeking = TRUE, !.sequence = 0]
  /\ Write(Empty("Ros2Bag"))
SeekPublish ==
  /\ worker.seeking /\ Publish(worker.position, 1) /\ Emit(<<At(worker.position)>>)
  /\ worker' = [worker EXCEPT !.seeking = FALSE, !.sequence = 1, !.cursor = TRUE]
  /\ UNCHANGED requests
WorkerStep == /\ Load \/ Play \/ Stop \/ TickOrPause \/ SeekReset \/ SeekPublish
              /\ UNCHANGED <<lastPosition, panel>>

\* A snapshot of a server, and the reset when its connection is lost.
RemotePublish ==
  /\ snapshot.source = "Remote"
  /\ \E message \in Messages(LastTime), session \in Sessions, sequence \in 1 .. LastTime :
       /\ session = snapshot.session => sequence > snapshot.sequence
       /\ snapshot' = [source |-> "Remote", session |-> session, sequence |-> sequence,
                       time |-> LastTime, message |-> message]
  /\ UNCHANGED <<worker, requests, signals, lastPosition, panel>>
RemoteReset ==
  /\ snapshot.source = "Remote" /\ snapshot' = Empty("Remote")
  /\ UNCHANGED <<worker, requests, signals, lastPosition, panel>>

CurvesInit ==
  /\ snapshot = Empty("Remote") /\ requests = <<>> /\ signals = <<>> /\ lastPosition = 0
  /\ worker = [state |-> "Empty", position |-> 0, cursor |-> FALSE, seeking |-> FALSE,
               sequence |-> 0]
  /\ panel = [source |-> "Remote", session |-> 0, sequence |-> 0,
              first |-> 0, stamp |-> 0, metric |-> "Unknown", samples |-> {}]
CurvesNext == Refresh \/ HandleSignal \/ LoadOrStart \/ OpenConnection \/ ClearPanel
        \/ WorkerStep \/ RemotePublish \/ RemoteReset
CurvesSpec == CurvesInit /\ [][CurvesNext]_curvesVars
-----------------------------------------------------------------------------
(* Properties                                                              *)
\* All samples of the curves are placed from the one origin the axis has, and
\* are of one yaw quantity (topic times, a heading is no angular velocity).
CurvesOneAxis ==
  \A x \in panel.samples : /\ x.elapsed = Later(x.at, panel.first)
                           /\ x.metric \in {"Unknown", panel.metric}

\* Once the window has heard of a seek, the curves hold nothing later than the
\* place sought, and their axis does not begin after it: however refreshes
\* came between the seek, its snapshot and its signal.
CurvesAfterSeek ==
  snapshot.source = "Ros2Bag" /\ snapshot.time > 0 /\ signals = <<>>
    => panel.first <= snapshot.time /\ \A x \in panel.samples : x.at <= snapshot.time
=============================================================================
