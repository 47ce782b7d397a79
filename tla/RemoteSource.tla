---------------------------- MODULE RemoteSource ----------------------------
(***************************************************************************)
(* The live side of AutoVizClient: RemoteVisualizationSource (one          *)
(* QTcpSocket, a watchdog, automatic reconnection), the DataManager it     *)
(* writes to, and the two MainWindow operations that hand DataManager over *)
(* between the server and a local bag.  All of it runs on the GUI thread,  *)
(* one event at a time; the playback worker is another thread and writes   *)
(* to DataManager at any moment, so a handover is two steps here (`pc').   *)
(* The loop of the readyRead handler over the envelopes of one read is     *)
(* taken one envelope at a time (`batch').                                 *)
(*                                                                         *)
(* External: the server, QTcpSocket (as Qt documents it: disconnectFromHost*)
(* may finish at once or wait for output, abort() and the end of a         *)
(* connection emit disconnected, a refused connection only emits an error) *)
(* and the playback worker.                                                *)
(***************************************************************************)
EXTENDS Naturals, Sequences

CONSTANTS Sessions, \* session ids of the servers that can be reached
          Lenient   \* TRUE: a server goes on after a fatal error or after a
                    \* ServerHello of another major version

ASSUME RemoteAssumption == /\ {"none", "bag"} \cap Sessions = {}
                           /\ Lenient \in BOOLEAN

None == "none"
Bag == "bag"

VARIABLES
  sock,         \* m_socket->state()
  pendingClose, \* QAbstractSocket: disconnectFromHost called while connecting
  manual,       \* m_manualDisconnect
  auto,         \* m_autoReconnect
  asked,        \* connectToServer was called once (observed, not in the code)
  timers,       \* m_heartbeatTimer and m_watchdogTimer are active
  quiet,        \* m_lastReceive.elapsed() > 5000
  retry,        \* m_reconnectTimer is active
  shot,         \* a singleShot(0) of the error handler is pending
  sessionId,    \* m_sessionId
  ui,           \* MainWindow::m_serverConnected
  peer,         \* what the server said on this connection
  batch,        \* envelopes of the current read still to be handled
  active,       \* DataManager::m_activeInputSource
  shown,        \* session, or the bag, that m_snapshot comes from
  trail,        \* where the points of m_snapshot.historyTrail come from
  pc,           \* the handover MainWindow is in the middle of
  worker        \* a bag was given to the playback worker

link == <<sock, pendingClose, manual, auto, asked>>
clocks == <<timers, quiet, retry, shot>>
data == <<active, shown, trail, pc, worker>>
vars == <<sock, pendingClose, manual, auto, asked, timers, quiet, retry, shot,
          sessionId, ui, peer, batch, active, shown, trail, pc, worker>>

GuiIdle == pc = "idle" /\ batch = <<>>
-----------------------------------------------------------------------------
(* The server: what it can send next, and what it has said after that.     *)

Envelope == [kind : {"hello", "foreignHello", "snapshot", "fatal", "other"},
             session : Sessions]
Peer == [session : Sessions, said : {"nothing", "greeted", "over"}]

\* A server that was not greeted yet sends its hello first; a stream may move
\* to another session; after a fatal error only a lenient server goes on.
Legal(p, e) ==
  \/ /\ p.said = "nothing"
     /\ e.kind \in {"hello", "foreignHello", "fatal", "other"}
     /\ e.session = p.session
  \/ p.said = "greeted" /\ e.kind \in {"hello", "snapshot"}
  \/ p.said = "greeted" /\ e.kind \in {"fatal", "other"} /\ e.session = p.session
  \/ p.said = "over" /\ e.kind \in {"fatal", "other"} /\ e.session = p.session
  \/ Lenient /\ p.said = "over" /\ e.kind = "snapshot" /\ e.session = p.session

Says(p, e) ==
  [session |-> e.session,
   said |-> CASE e.kind = "hello" -> "greeted"
              [] e.kind \in {"fatal", "foreignHello"} -> "over"
              [] OTHER -> p.said]
-----------------------------------------------------------------------------
(* DataManager                                                             *)

\* resetVisualizationData(src) leaves the data alone unless src is active.
Reset(src) ==
  IF active = src
  THEN shown' = None /\ trail' = {}
  ELSE UNCHANGED <<shown, trail>>

\* Mutant: a snapshot is accepted from any source.
ReplaceFromAny(src, origin, history) ==
  /\ shown' = origin
  /\ trail' \in {history, history \cup {origin}}

\* replaceVisualizationSnapshot(.., src) of data from `origin': the trail is
\* kept, and may grow by the new location.
Replace(src, origin, history) ==
  IF active = src
  THEN /\ shown' = origin
       /\ trail' \in {history, history \cup {origin}}
  ELSE UNCHANGED <<shown, trail>>
-----------------------------------------------------------------------------
(* Slots of the socket                                                     *)

\* The `disconnected' slot, without its reset of DataManager: `armed' tells
\* whether m_reconnectTimer already runs.
Disconnected(isManual, isAuto, armed) ==
  /\ sock' = "unconnected"
  /\ timers' = FALSE
  /\ sessionId' = None
  /\ ui' = FALSE
  /\ retry' = (armed \/ (isAuto /\ ~isManual))

\* The connection ends: abort() on a live socket, or Qt's own close.
DropConnection ==
  /\ Disconnected(manual, auto, retry)
  /\ Reset("remote")

\* disconnectFromHost() from a slot: a live connection ends at once, or when
\* its output is flushed; a connection that is already going is left alone.
DisconnectFromHost ==
  \/ sock = "connected" /\ DropConnection
  \/ /\ sock = "connected"
     /\ sock' = "closing"
     /\ UNCHANGED <<timers, sessionId, ui, retry, shown, trail>>
  \/ /\ sock # "connected"
     /\ UNCHANGED <<sock, timers, sessionId, ui, retry, shown, trail>>

\* Mutant: the watchdog is not started with the connection.
ConnectedUnwatched ==
  /\ GuiIdle
  /\ sock = "connecting"
  /\ sock' = IF pendingClose THEN "closing" ELSE "connected"
  /\ pendingClose' = FALSE
  /\ quiet' = FALSE
  /\ ui' = FALSE
  /\ peer' \in [session : Sessions, said : {"nothing"}]
  /\ UNCHANGED <<manual, auto, asked, timers, retry, shot, sessionId, batch,
                 data>>

\* The `connected' slot.  ClientHello is not flushed yet when a pending close
\* is carried out.
Connected ==
  /\ GuiIdle
  /\ sock = "connecting"
  /\ sock' = IF pendingClose THEN "closing" ELSE "connected"
  /\ pendingClose' = FALSE
  /\ timers' = TRUE
  /\ quiet' = FALSE
  /\ ui' = FALSE
  /\ peer' \in [session : Sessions, said : {"nothing"}]
  /\ UNCHANGED <<manual, auto, asked, retry, shot, sessionId, batch, data>>

\* Mutant: an error only changes the status text.
ErrorOccurredNoRetry == ui' = FALSE /\ UNCHANGED shot

\* The error slot: the window shows the error, and the state of the socket
\* is looked at again in the next round of the event loop.
ErrorOccurred == ui' = FALSE /\ shot' = TRUE

\* The connection is refused or times out: an error, no `disconnected'.
ConnectFails ==
  /\ GuiIdle
  /\ sock = "connecting"
  /\ sock' = "unconnected"
  /\ ErrorOccurred
  /\ UNCHANGED <<pendingClose, manual, auto, asked, timers, quiet, retry,
                 sessionId, peer, batch, data>>

\* The server closes or resets the connection: an error, then `disconnected'.
PeerCloses ==
  /\ GuiIdle
  /\ sock \in {"connected", "closing"}
  /\ DropConnection
  /\ ErrorOccurred
  /\ UNCHANGED <<pendingClose, manual, auto, asked, quiet, peer, batch,
                 active, pc, worker>>

\* The output of a closing socket is flushed.
OutputFlushed ==
  /\ GuiIdle
  /\ sock = "closing"
  /\ DropConnection
  /\ UNCHANGED <<pendingClose, manual, auto, asked, quiet, shot, peer, batch,
                 active, pc, worker>>

\* readyRead with bytes that FrameDecoder refuses: abort().
BadFrame ==
  /\ GuiIdle
  /\ sock = "connected"
  /\ DropConnection
  /\ UNCHANGED <<pendingClose, manual, auto, asked, quiet, shot, peer, batch,
                 active, pc, worker>>

\* readyRead with one or two whole envelopes.
ReadyRead ==
  /\ GuiIdle
  /\ sock = "connected"
  /\ quiet' = FALSE
  /\ \E e \in Envelope :
       /\ Legal(peer, e)
       /\ \/ batch' = <<e>> /\ peer' = Says(peer, e)
          \/ \E f \in Envelope :
               /\ Legal(Says(peer, e), f)
               /\ batch' = <<e, f>>
               /\ peer' = Says(Says(peer, e), f)
  /\ UNCHANGED <<link, timers, retry, shot, sessionId, ui, data>>
-----------------------------------------------------------------------------
(* handleEnvelope                                                          *)

\* A ServerHello of another session than the current one clears the view.
HandleHello(e) ==
  /\ IF sessionId \notin {None, e.session}
     THEN Reset("remote")
     ELSE UNCHANGED <<shown, trail>>
  /\ sessionId' = e.session
  /\ ui' = TRUE
  /\ UNCHANGED <<sock, timers, retry>>

\* A snapshot of another session clears the view, then every snapshot
\* replaces it.
HandleSnapshot(e) ==
  LET moved == sessionId # None /\ e.session # sessionId
  IN  /\ sessionId' = IF moved THEN e.session ELSE sessionId
      /\ Replace("remote", e.session, IF moved THEN {} ELSE trail)
      /\ UNCHANGED <<sock, timers, retry, ui>>

HandleEnvelope ==
  /\ batch # <<>>
  /\ batch' = Tail(batch)
  /\ LET e == Head(batch)
     IN  \/ e.kind = "hello" /\ HandleHello(e)
         \/ e.kind = "snapshot" /\ HandleSnapshot(e)
         \/ e.kind \in {"foreignHello", "fatal"} /\ DisconnectFromHost
         \/ /\ e.kind = "other"
            /\ UNCHANGED <<sock, timers, retry, sessionId, ui, shown, trail>>
  /\ UNCHANGED <<pendingClose, manual, auto, asked, quiet, shot, peer, active,
                 pc, worker>>
-----------------------------------------------------------------------------
(* Timers                                                                  *)

\* More than five seconds without a byte from the server.
Elapse ==
  /\ sock \in {"connected", "closing"}
  /\ ~quiet
  /\ quiet' = TRUE
  /\ UNCHANGED <<link, timers, retry, shot, sessionId, ui, peer, batch, data>>

\* The watchdog timer: abort() a connection that fell silent.
Watchdog ==
  /\ GuiIdle
  /\ timers
  /\ quiet
  /\ DropConnection
  /\ UNCHANGED <<pendingClose, manual, auto, asked, quiet, shot, peer, batch,
                 active, pc, worker>>

\* The singleShot(0) of the error slot.
SingleShot ==
  /\ GuiIdle
  /\ shot
  /\ shot' = FALSE
  /\ retry' = (retry \/ (sock = "unconnected" /\ auto /\ ~manual))
  /\ UNCHANGED <<link, timers, quiet, sessionId, ui, peer, batch, data>>

\* The reconnect timer: connectToHost, which is an error on a socket that is
\* not unconnected.
ReconnectFires ==
  /\ GuiIdle
  /\ retry
  /\ retry' = FALSE
  /\ IF manual
     THEN UNCHANGED <<sock, pendingClose, ui, shot>>
     ELSE \/ /\ sock = "unconnected"
             /\ sock' = "connecting"
             /\ pendingClose' = FALSE
             /\ ui' = FALSE
             /\ UNCHANGED shot
          \/ /\ sock # "unconnected"
             /\ ErrorOccurred
             /\ UNCHANGED <<sock, pendingClose>>
  /\ UNCHANGED <<manual, auto, asked, timers, quiet, sessionId, peer, batch,
                 data>>
-----------------------------------------------------------------------------
(* The user, through MainWindow                                            *)

\* Mutant: the reconnect timer is left running.
DisconnectFromServerKeepsTimer ==
  /\ manual' = TRUE
  /\ \/ /\ sock \in {"connected", "unconnected"}
        /\ sock' = "unconnected" /\ timers' = FALSE /\ sessionId' = None
        /\ ui' = FALSE
        /\ UNCHANGED <<pendingClose, retry>>
     \/ /\ sock \in {"connected", "closing"}
        /\ sock' = "closing"
        /\ UNCHANGED <<pendingClose, timers, sessionId, ui, retry>>
     \/ /\ sock = "connecting"
        /\ pendingClose' = TRUE
        /\ UNCHANGED <<sock, timers, sessionId, ui, retry>>

\* disconnectFromServer without its reset of DataManager, which is done when
\* the socket is unconnected afterwards.
DisconnectFromServer ==
  /\ manual' = TRUE
  /\ \/ sock = "connected" /\ Disconnected(TRUE, auto, FALSE)
        /\ UNCHANGED pendingClose
     \/ /\ sock \in {"connected", "closing"}
        /\ sock' = "closing"
        /\ retry' = FALSE
        /\ UNCHANGED <<pendingClose, timers, sessionId, ui>>
     \/ /\ sock = "connecting"
        /\ pendingClose' = TRUE
        /\ retry' = FALSE
        /\ UNCHANGED <<sock, timers, sessionId, ui>>
     \/ /\ sock = "unconnected"
        /\ ui' = FALSE
        /\ retry' = FALSE
        /\ UNCHANGED <<sock, pendingClose, timers, sessionId>>

\* The menu entry, enabled while the window believes it is connected.
MenuDisconnect ==
  /\ GuiIdle
  /\ ui
  /\ DisconnectFromServer
  /\ IF sock' = "unconnected"
     THEN Reset("remote")
     ELSE UNCHANGED <<shown, trail>>
  /\ UNCHANGED <<auto, asked, quiet, shot, peer, batch, active, pc, worker>>

\* connectToServer on any socket: abort() what there is, start over.  The
\* abort of a live connection runs the `disconnected' slot, which may arm the
\* reconnect timer that was stopped just before.
ConnectToServer(isAuto) ==
  /\ manual' = FALSE
  /\ auto' = isAuto
  /\ asked' = TRUE
  /\ sessionId' = None
  /\ retry' = (isAuto /\ sock \in {"connected", "closing"})
  /\ timers' = (timers /\ sock \notin {"connected", "closing"})
  /\ ui' = FALSE
  /\ sock' = "connecting"
  /\ pendingClose' = FALSE

\* The application starts with auto_connect set: nothing was shown before.
ConnectAtStart ==
  /\ GuiIdle
  /\ ~asked
  /\ active = "remote"
  /\ ConnectToServer(TRUE)
  /\ Reset("remote")
  /\ UNCHANGED <<quiet, shot, peer, batch, active, pc, worker>>

\* openConnectionDialog, first step: the playback is told to stop (later, in
\* its own thread) and the server becomes the active source.
SwitchToRemote ==
  /\ GuiIdle
  /\ active' = "remote"
  /\ pc' = "toRemote"
  /\ UNCHANGED <<link, clocks, sessionId, ui, peer, batch, shown, trail, worker>>

\* openConnectionDialog, second step: reset, then connectToServer.
FinishRemote ==
  /\ pc = "toRemote"
  /\ pc' = "idle"
  /\ \E isAuto \in BOOLEAN : ConnectToServer(isAuto)
  /\ Reset("remote")
  /\ UNCHANGED <<quiet, shot, peer, batch, active, worker>>

\* activatePlayback, first step.
SwitchToBag ==
  /\ GuiIdle
  /\ active' = Bag
  /\ pc' = "toBag"
  /\ UNCHANGED <<link, clocks, sessionId, ui, peer, batch, shown, trail, worker>>

\* Mutant: the playback starts on top of what the server showed.
FinishBagNoReset ==
  /\ pc = "toBag"
  /\ pc' = "idle"
  /\ worker' = TRUE
  /\ DisconnectFromServer
  /\ UNCHANGED <<auto, asked, quiet, shot, peer, batch, active, shown, trail>>

\* activatePlayback, second step: end the connection, clear what it showed.
\* The dialog then gives the bag to the worker.
FinishBag ==
  /\ pc = "toBag"
  /\ pc' = "idle"
  /\ worker' = TRUE
  /\ DisconnectFromServer
  /\ Reset(Bag)
  /\ UNCHANGED <<auto, asked, quiet, shot, peer, batch, active>>

\* The menu entry that clears the history trail.
ClearHistoryTrail ==
  /\ GuiIdle
  /\ trail' = {}
  /\ UNCHANGED <<link, clocks, sessionId, ui, peer, batch, active, shown, pc,
                 worker>>

\* The playback worker publishes a frame or resets the view, in its own
\* thread: also between the two steps of a handover, and after it was told to
\* stop.
WorkerWrites ==
  /\ worker
  /\ \/ Replace(Bag, Bag, trail)
     \/ Reset(Bag)
  /\ UNCHANGED <<link, clocks, sessionId, ui, peer, batch, active, pc, worker>>
-----------------------------------------------------------------------------
Init ==
  /\ sock = "unconnected"
  /\ pendingClose = FALSE
  /\ manual = FALSE
  /\ auto = TRUE
  /\ asked = FALSE
  /\ timers = FALSE
  /\ quiet = FALSE
  /\ retry = FALSE
  /\ shot = FALSE
  /\ sessionId = None
  /\ ui = FALSE
  /\ peer \in [session : Sessions, said : {"nothing"}]
  /\ batch = <<>>
  /\ active = "remote"
  /\ shown = None
  /\ trail = {}
  /\ pc = "idle"
  /\ worker = FALSE

Next ==
  \/ Connected \/ ConnectFails \/ PeerCloses \/ OutputFlushed
  \/ BadFrame \/ ReadyRead \/ HandleEnvelope
  \/ Elapse \/ Watchdog \/ SingleShot \/ ReconnectFires
  \/ ConnectAtStart \/ SwitchToRemote \/ FinishRemote
  \/ MenuDisconnect \/ SwitchToBag \/ FinishBag
  \/ ClearHistoryTrail \/ WorkerWrites

Spec == Init /\ [][Next]_vars

\* The event loop runs: handlers and handovers end, timers that are active
\* fire, a connection attempt ends one way or the other (Qt bounds it), and
\* the watchdog timer repeats until it is stopped.
Fairness == /\ WF_vars(HandleEnvelope)
            /\ WF_vars(FinishRemote)
            /\ WF_vars(FinishBag)
            /\ WF_vars(SingleShot)
            /\ WF_vars(ReconnectFires)
            /\ WF_vars(Watchdog)
            /\ WF_vars(Connected \/ ConnectFails)

FairSpec == Spec /\ Fairness
-----------------------------------------------------------------------------
(* Properties                                                              *)

\* Types of the variables.
TypeOK ==
  /\ sock \in {"unconnected", "connecting", "connected", "closing"}
  /\ pendingClose \in BOOLEAN
  /\ manual \in BOOLEAN
  /\ auto \in BOOLEAN
  /\ asked \in BOOLEAN
  /\ timers \in BOOLEAN
  /\ quiet \in BOOLEAN
  /\ retry \in BOOLEAN
  /\ shot \in BOOLEAN
  /\ sessionId \in Sessions \cup {None}
  /\ ui \in BOOLEAN
  /\ peer \in Peer
  /\ batch \in Seq(Envelope)
  /\ active \in {"remote", Bag}
  /\ shown \in Sessions \cup {None, Bag}
  /\ trail \subseteq Sessions \cup {Bag}
  /\ pc \in {"idle", "toRemote", "toBag"}
  /\ worker \in BOOLEAN

\* While the server is the active source the view comes from the session of
\* the live connection, the history trail from nothing else, and both are
\* empty when the connection is down ("old session trails are not spliced",
\* memory/ARCHITECTURE.md).
SessionPurity ==
  active = "remote" /\ pc = "idle" =>
    /\ trail \subseteq {shown}
    /\ shown # None => shown = sessionId /\ sock \in {"connected", "closing"}

\* While a bag is the active source nothing of a server is in the view,
\* although the connection may end, fail or be set up later than the handover.
PlaybackPurity ==
  active = Bag /\ pc = "idle" => shown \in {None, Bag} /\ trail \subseteq {Bag}

\* Once the user disconnected, the client does not come back by itself: no
\* reconnect timer, and a connection that is still being set up will be closed
\* when it is made.
ManualHolds ==
  manual => /\ ~retry
            /\ sock # "connected"
            /\ sock = "connecting" => pendingClose

\* A playback keeps the client offline: the active source is the bag only
\* after the connection was given up as by the user.
PlaybackOffline == active = Bag /\ pc = "idle" => manual

Wanted == asked /\ auto /\ ~manual

\* Automatic reconnection never stalls: whenever the socket is unconnected and
\* a connection is wanted, the reconnect timer runs or is about to be armed,
\* whichever way the connection or the attempt ended (the comment on
\* connectToHost in RemoteVisualizationSource).
RetryPending == Wanted /\ sock = "unconnected" => retry \/ shot

\* The window claims a connection only after a handshake on a connection that
\* has not ended.
ClaimJustified ==
  ui => sock \in {"connected", "closing"} /\ sessionId # None

\* A wanted connection is tried again and again, as long as it is wanted.
Reconnects ==
  (Wanted /\ sock = "unconnected") ~> (sock # "unconnected" \/ ~Wanted)

\* A connection on which the server fell silent is given up.
QuietDropped ==
  (sock = "connected" /\ quiet) ~> (sock # "connected" \/ ~quiet)

\* A reconnection is attempted only on a socket that went back to unconnected
\* (the comment in the error slot).  Fails: connectToServer on a live
\* connection arms the timer by its own abort(), the timer fires on the new
\* connection, and the window shows it as lost.
ConnectedIsShown ==
  GuiIdle /\ sock = "connected" /\ sessionId # None => ui
=============================================================================
