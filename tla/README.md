# AutoViz in TLA+

AutoViz shows the state of an underwater robot.  A server on the robot collects
ROS 2 topics into one snapshot and streams it over TCP; a Qt client displays it,
or plays a recorded bag instead.  This directory models the parts of the two
programs that keep state, checks them with TLC and proves what matters most with
TLAPS.

Source paths are relative to the repository; `memory/*.md`, the READMEs and the
comments of the code are its documentation.

## 1. Inventory

| Component | State | Operations | Hard behaviour | What makes it correct |
|---|---|---|---|---|
| `TcpSession` | write queue, closeAfterOutput, closed, decoder | send, read and write completion, closeAfterOutput, close | replacing a snapshot in a queue whose head is being written; completions after close | order of frames, no lost control frame, one waiting snapshot, the newest one survives |
| `VisualizationServer` | client table, count, sequence, latest snapshot, timers, acceptor | start, stop, publishSnapshot, accept, handleEnvelope, heartbeat | handlers of many clients interleave; every way a session ends; start after stop | table = open sessions ≤ maxClients; ServerHello first; silent clients leave |
| `SnapshotStore` | snapshot, topic monitors, center-turn flag, recent terminal action, dirty | one update per topic, expire, build, markPublished | order of commands and paths; expiry of what other fields depend on | nothing stale published, nothing unpublished |
| `AutoVizServerNode` | latest action, diagnostics cache, last client count | one callback per topic, publish timer, start | hidden action topics in any order; full cache | facts merged in any order, cache bounded |
| `RobotWsProtoConverter` | none | one conversion per message | lossy UUIDs, mode decisions, target sets with a fault | fields keep their name, value and absence |
| `FrameCodec` | receive buffer | encode, decode, reset | frames cut anywhere, bad lengths | decoded = sent, whatever the cuts |
| `RemoteVisualizationSource` | socket, session, manual/auto flags, three timers | connectToServer, disconnectFromServer, slots | signals inside calls, errors without `disconnected`, retry, silent server | one session in view, retry chain unbroken, manual stays manual |
| `DataManager` | snapshot, active source, trail | activate, reset, replace, clear trail | called from the GUI and the playback thread | only the active source writes |
| `MainWindow` | chosen and effective view, connection text | switch source, menus, refresh timer | two-step handover, queued signals | the window tells the truth |
| `LocalRosbagPlaybackSource` | cursor, position, clock, snapshot, counts | load, play, pause, stop, seek, setRate, tick | bounded ticks, rebuilding a position, another thread | seek shows what playing would |
| `RobotWsCdrDecoder` | diagnostics cache, per bag | decode per topic | alignment, layouts of older bags, fields of the message before, a fault in the middle | a bag shows what the live link would |
| `ProtocolModelConverter` | none | toModelSnapshot | absent fields, defaults | the same snapshot is shown alike |
| `SceneManager` | main view, fitted region, vertical segment | updateScene, setMainViewMode, refit, centering, layers, session reset | missed snapshots, seeks, views that come back | a profile is of one action; the data are in view |
| `VisualizationView` | viewport, automatic fit on or off | fit, reset, zoom, pan, resize | automatic and manual moves in every order | the user's viewport stays |
| Control panel | buffer of samples, axis, yaw quantity | updateSnapshot, clearHistory, pause | seeks that reach the window late | one axis, nothing from after a seek |
| `BottomStatusPanel` | none that lasts | updateSnapshot | two clocks, values that are gone, words that decide a colour | the texts tell the truth |
| Dialogs, themes, logging | little | | | not modelled |

Interactions: topic callbacks call `SnapshotStore`; the publish timer posts the
snapshot into the server's I/O thread; `VisualizationServer` calls its
`TcpSession`s, which call back (`handleEnvelope`, `removeClient`); the client's
slots call `DataManager`, which the playback thread calls, too, under one mutex;
`MainWindow` reads it on a timer and drives both sources.

Threads: the server has one ROS executor thread and one I/O thread, which share
`m_running`, `m_clientCount` and posted handlers.  The client has the GUI thread
and the playback thread, which share `DataManager` and queued signals.

`PROJECT.json` lists every component with its status and every hazard with its
line.

## 2. Order of the work

| # | Module | Subject | State |
|---|---|---|---|
| 1 | `VizServer`, `SnapshotFeed` | sessions and server while running; the abstract feed they implement | checked, proved |
| 2 | `RemoteSource` | connection, retry, handover between sources | checked, all safety proved |
| 3 | `SnapshotStore`, `ActionTracker` | the node's data path | checked, proved |
| 4 | `PlaybackWorker` | play, pause, seek, speed, bounded ticks; seek and play against one reference | checked, all safety proved |
| 5 | `RobotWsMessages`, `TopicLinks` | every topic down both links to the model that is shown | checked, proved |
| 6 | `FrameCodec` | stream decoder against what was sent, on all cuts | checked, proved |
| 7 | `RunMode`, `MainView` | choice of the view, viewport | checked, safety proved |
| 8 | `DepthProfile`, `HistoryTrail` | what the client keeps of a motion | checked, proved |
| 9 | `ControlCurves`, `StatusPanel` | what the client derives from snapshots, seeks and clocks | checked, proved |

What composes what: `MCVizServer` takes the server with its abstract
specification; `RemoteSource` joins the connection, the window's handover and
the playback worker's writes; `TopicLinks` joins converter, store, node, decoder
and display; `MCTopicLinks` adds the action tracker and the frames, `MCPanels` puts the four parts of
the display side by side.  Runs are sized for minutes at most: every actor
appears the smallest number of times at which it can interfere with itself.
Worth having beyond this: start and stop of the server with a model of the I/O
context's queue.

## 3. Modules

A module `X` has `MCX` (instances for TLC), `MCX_*.cfg` (runs) and, where there
are theorems, `XProofs`.  Small ones share: `MCTopicLinks` explores the links, the
action tracker and the frames, one at a time (`part`), `LinksProofs` takes the links
and the frames, `MCPanels` and `PanelsProofs` the four parts of the display.
Operators named *Mutant* in a comment are plausible mistakes, used only to see that
the properties notice them.

### VizServer and SnapshotFeed (`TcpSession.cpp`, `VisualizationServer.cpp`)

One action is one completion handler of the I/O thread.  The loop over the
envelopes of one read is taken step by step (`batch`), and no other handler runs
until it ends.  A frame is its kind and number.  `got` records what the peer
received; it is not in the code.  A session that closes notifies the server in
the same step (`CloseSessions`).  A snapshot of more bytes than a frame may have
(`Oversized`) is dropped by `send` without notice; what waits stays.  A read may be handled after the session was
closed: its completion was queued.  Peers may send anything, stop reading,
vanish or fall silent (`silent`: the age of `lastReceive` exceeds the timeout).

`SnapshotFeed` is what the server promises: snapshots are numbered upwards,
clients come and go, a subscriber receives only published snapshots, never an
older after a newer one, and in the end the newest, if it can be delivered.  `ImplementsFeed` maps
subscribers to ready clients of the table.

Properties: the table is exactly the open sessions and agrees with the count
(`ClientTable`); one waiting snapshot (`NoSnapshotBacklog`); the newest snapshot,
if it fits a frame, is received or queued (`NewestPending`); a frame in flight is not touched
(`HeadUntouched`); every waiting frame stays in its place until the head is
written, a snapshot at most made newer (`ControlFramesKept`); silent clients leave (`SilentRemoved`).  ServerHello comes
first (`HelloFirst`) and numbers do not go back (`SnapshotOrder`): proved, and
the second is part of the feed, so no run repeats them.

Bounds: `MaxSeq` numbers (snapshots and heartbeats share the counter),
`MaxSends` envelopes per connection, each connection used once.  Four numbers
allow a frame in flight, a waiting snapshot, its replacement and one more;
replacement depends on the head and the first waiting snapshot only.  The second
number, if a snapshot takes it, is too large: one before it may wait, one behind
it must get through.  When
heartbeats would exceed `MaxSeq` the tick sends none; it still removes silent
clients.

Fairness (`FairSpec`): a read handler runs to its end; the heartbeat timer is
re-armed by every tick; an open connection's write completes (TCP delivers or
fails).  Nothing is assumed of peers otherwise.

### RemoteSource (`RemoteVisualizationSource.cpp`, parts of `MainWindow.cpp`, `DataManager.cpp`)

The client's GUI thread: slots of the socket, the watchdog, the reconnect timer
and the zero timer of the error slot, the user's connect, disconnect and switch
to playback.  Signals that Qt emits inside a call are part of the action
(`abort()` on a live socket runs `Disconnected` inside `ConnectToServer`);
`disconnectFromHost` may finish at once or leave the socket closing.  The
playback worker writes at any moment, also between the two steps of a handover
and after it was told to stop.  `shown` and `trail` tell from which session or
bag the view and the points of the trail come.

The server at the other end is abstract: it greets before it sends snapshots,
each connection is one session.  With `Lenient = FALSE` it sends nothing behind
a message that ends the connection; with `TRUE` it does, as the real one can
(section 5).

Properties: `SessionPurity`, `PlaybackPurity` (views do not mix),
`ManualHolds`, `RetryPending`; live: `Reconnects`, `QuietDropped`.
`PlaybackOffline` and `ClaimJustified` are proved.

No bound is needed: the state space is finite.  Two sessions are enough to tell
"the current" from "another".  Symmetry is used in the
runs without liveness only.

Fairness: the event loop runs pending slots and timers; a connection attempt
ends (Qt bounds it by a timeout).

### SnapshotStore (`SnapshotStore.cpp`, `AutoVizServerNode.cpp`)

One action is one callback of the executor thread: a topic message or the
publish timer (expire, decide, publish, clear dirty in one step).  A message is
"stored" or, for commands, "turn".  `entries` and `arrival` are observers: which
center turn came last, and which was the last when a path arrived.  The client
count is changed by the I/O thread at any moment.

Properties: `TurnFollowsCommand`, `PathsAfterTurn`, `PublishedCurrent`, and under
a fair timer `FieldTimesOut`; `PerceptionPresence` and `PublishedAlive` are proved.
One run holds every group of kinds that interact: the command with a path, and
the two requests that share a message.

Bounds: `MaxClients` clients, of which only the number matters, and `MaxEntries`
center turns; two allow a path from before the last but one.

### ActionTracker (`AutoVizServerNode.cpp`, `SnapshotStore.cpp`)

The action topics.  Hidden facts are reduced to their receive times.  A public
goal id is empty, canonical or lossy; each action is assumed to have its own
lossy form.  A status message with several items is modelled as several
messages: nothing runs between the items, and the intermediate states only add
behaviours.  The state starts as `start()` left it.

Properties: `FactsInAnyOrder` (the reason for the cache), `NeverForgets` (the
reason for keeping facts of the previous state); `CacheBounded`,
`MetadataOfPublic`, `PublishedCurrent` and `RecentIsNewest` are proved.

Bounds: messages of each kind.  Three actions compete for a cache of two, 128 in
the code; what matters is that it is full or not, and the theorems hold for
every size.  Actions are interchangeable, and the run takes them so.

### PlaybackWorker (`LocalRosbagPlaybackSource.cpp`)

The worker thread of the local playback.  One action is one slot or timer
handler, but `processUntil` is taken row by row: `Tick`, `Pause` and `SetRate`
advance the clock and enter it, `ProcessRow` is a round of its loop,
`TargetReached` and `BudgetSpent` leave it, publish and finish the handler.  The
time budget may be spent after any row.

A bag is its rows, in the order of the cursor: a time and a kind.  The kinds
stand for what the code tells apart: turning and other commands, paths (the two
path topics behave alike), final targets that decode and that do not, and a
topic of which one batch decodes only the last row.  Rows of the last kind are
applied at once: nothing reads the snapshot before the batch is published.
Positions are absolute.  Message counts, the speed and the clock's base are left
out: the clock may show any later time.

`Seek` does in one step what `rebuildAt` does with one query per topic: the
latest decodable row of each (`Candidates`, `RebuiltRow`), center turns from the
transitions found when the bag was validated (`Exits`, `PathAllowed`).  Without
a database, after a load that failed, the queries fail and an empty view is
published (`RebuildNothing`).

With `Hasty = FALSE` the user does not seek in a stopped bag (the dialog would
allow it), nor press "start" again before the window has learned that the bag is
played; `playback_hasty` shows why.

Properties: `ViewFollowsPosition` compares every frame with `Due`, the reference
"latest message of the topic among a prefix of the bag", whichever of the two
algorithms made it; `PathsAfterTurn`: no path from before a turning command
comes back; `FramesForward`: frames go back in time by seeks only;
`PlaybackEnds`: a bag left alone completes or stops, whatever was done before.
When a turning command is followed by silence for longer than the timeout,
playing ends the center turn at its next frame, a seek at the nanosecond;
`ViewFollowsPosition` makes no statement about paths then (`TurnsHeard`).

Bounds: all bags of three rows with times up to three and a timeout of one: two
rows at one time, a row at the begin and at the end, a turn with its end and a
path in each order, a topic that times out.  Longer bags repeat these.

Fairness: the 20 ms timer finds the clock advanced again and again while the bag
is played (the clock is monotone; a tick within its resolution is only a delay),
and `processUntil` ends.

### RobotWsMessages and TopicLinks (`RobotWsProtoConverter.cpp`, `RobotWsCdrDecoder.cpp`, `ProtocolModelConverter.cpp`)

A robot message reaches the display in two ways: live (conversion in the
server, `SnapshotStore`, the node's diagnostics) or from a bag (CDR decoder,
the worker's snapshot).  One action passes one message down both; `Shown` is what
`toModelSnapshot` makes of either.  A plain field is `<<its name, the number of
its message>>`: a field that is shifted by a wrong alignment, kept from an older
message or read twice shows as another value.  Fields that decide something
(modes, buoyancy, tanks, stamps, boundaries) carry the value.
`RobotWsMessages` has the declarations of `custom_msgs` as the decoder's tests
write them, five layouts of the chassis states and the older ones of the command;
`Reading` walks the aligned offsets as `CdrReader` does, `DetectedLayout` guesses
the layout from the length, as the code does.

Properties: `BothLinksAgree` (`memory/PROTOCOL_DESIGN.md:121` and the field
matrix) for the present layouts, without the recent terminal's hidden facts,
which the decoder copies before it merges them; `OldBagsAligned` for the older
layouts; `FieldsOfLastMessage` for both; `TargetsAgree` fails (section 5).
`TablesAligned` says of the code's tables alone, no message given, that every
layout is recognized, read to its end and read where its fields lie, and that the
decoder keeps of a message what the server copies: an assumption that TLC
evaluates before a run, and on which the theorems rest.
A value that is not finite is not in the model: the decoder refuses the bag,
the live link shows it.

Bounds: two messages of any topics, so that each follows each, with every mode
and code the conversions tell apart; two points and two targets.

### FrameCodec (`FrameCodec.cpp`)

Payloads are put on a stream behind a header of four bytes with their length,
reads cut it anywhere.  `FrameDecoder::decode` is a loop: `Read` hands it the bytes
of a read, each round that finds a frame is a step (`DecodeFrame`), and it ends
waiting for more (`DecodeReturns`, which hands over what it found) or with a fault
(`DecodeFails`, which hands over nothing).  No other handler runs meanwhile.
Whether a payload parses is given by the set `Payloads`.

`WholeFrames`: the reader gets what was sent, in order, all of it once the stream
is read; a connection is given up for a broken frame only.  How many whole frames
in front of a broken one reach the reader depends on the cut, since a failed read
gives none: the property leaves it open.

Bounds: a byte has `Base` values, two in the run, 256 in the code; lengths up to
the limit of 2 are sound, and a faulty peer sends an empty frame, an oversized
one, one that is no envelope or one that never becomes complete.  Three frames
give one in the buffer, one cut and one under way.

### RunMode and MainView (`MainWindow.cpp`, `SceneManager.cpp`, `VisualizationView.cpp`)

`Mode` is `inferRunVisualizationMode`.  `MainView` is the GUI thread: the refresh
timer, the automatic choice with its debounce, the user's choice, the automatic
fit, centering, zooming and resizing, sessions.  A viewport is the region last
fitted, the vehicle's place, the user's or the origin.  Clocks are ages that stop
where the code stops looking.

Properties: `VerticalNeverWaits`, `AutoSwitchSettled`, `AutoCatchesUp` (the
choice), `UserViewKept`, `FollowsVehicle` (the viewport); `FittedToData` fails
(section 5).  `SceneShowsChoice` is proved.  `dived` is an observer: ticks since
a refresh saw a vertical motion.

Bounds: a debounce of two ticks lets the mode flicker within it; two places of
the vehicle, drawn with a path or with nothing.

Fairness: the refresh timer is started once and never stopped, and time passes.

### DepthProfile, ControlCurves, HistoryTrail, StatusPanel (the display)

* `DepthProfile` (`SceneManager.cpp`): the vertical segment as snapshot after
  snapshot is drawn; which ones is left open, time may go back.  A frozen profile
  stays until the next one.  Depth and height have targets by the command, else by
  the action if there is one, else none (`Targets`).  `ProfileOneAction`;
  `NothingMissed`: new targets and stops are sampled at once, the loss of a target
  as soon as a sample is due.  `TimeoutKeepsProfile`, what a comment says,
  fails (section 5).
* `ControlCurves` (`ControlPanelWidget.cpp`, `ControlPlotBuffer.cpp`): samples,
  axis and yaw quantity, with the playback worker in its own thread, its queued
  signals, and refreshes between a seek's reset, its snapshot and its signal.
  `CurvesOneAxis`; `CurvesAfterSeek`: when no signal of the worker is under way and
  a frame of the bag is shown, no sample and no origin lies behind its time.
* `HistoryTrail` (`DataManager.cpp`): `appendHistoryTrailPointLocked` with its
  thresholds, on a line.  `TrailKeepsUp`.
* `StatusPanel` (`DataManager.cpp`, `BottomStatusPanel.cpp`): ages on two clocks,
  and the texts as operators of the snapshot; a text is the set of words the
  badges look for.  `OnlineIsFresh`; `GreenMeansWell`: what a green badge excludes,
  and what alone may paint a warning.

`MCPanels` explores one part at a time (`part`); they have no state in common.

Bounds: three ticks of the profile, and room for three samples, so that an
action, its successor and a stop in between fit and the oldest sample falls out;
two ticks of a bag with a window of one, two signals under way, so that a seek
meets an older signal; three places and levels, with thresholds of two units,
and a trail of two points; three messages to a source, clocks one unit
ahead or behind, a timeout of one.  Targets change, one by one or both, and are
lost during a stop.  The run's messages always name a yaw quantity; the theorems
take any set of quantities, `Unknown` too.  The status panel counts whole
milliseconds, as the client does: the server expires a topic by the nanosecond,
and what the two may differ in within the last millisecond is not modelled.

## 4. Runs

| Run | Checks | Shows |
|---|---|---|
| `server` | 3 invariants, 3 action properties and refinements, 2 liveness | two connections for one place, all orders of reads, writes, publications, heartbeats and endings |
| `client_all` | 4 invariants, 2 liveness | connection, retry, handover; retries for ever, silent servers are given up |
| `client_shown` | expected violation | a live connection shown as lost |
| `store` | 3 invariants, 1 liveness | center turns, independent expiry, publication |
| `playback` | 2 invariants, 1 action property, 1 liveness | every bag of three rows under every order of user commands and interrupted ticks |
| `playback_hasty` | expected violation | stop, seek, play: position ahead of the control state |
| `links` | 5 invariants, 1 action property | two messages of any topics and layouts down both links; hidden facts of actions in any order, with a full cache; three frames, cut and broken anywhere |
| `links_targets` | expected violation | a fault before the last target: the links differ |
| `view` | 2 invariants, 2 action properties, 1 liveness | choice of the view and viewport under flickering modes and every order of the user's actions |
| `view_fit` | expected violation | the plan view comes back at the origin |
| `panels` | 7 invariants | depth profile, curves, trail and status panel |
| `panels_timeout` | expected violation | a profile frozen by the timeout of the action topic |

Deadlock is checked except in `server`, whose connections are used once and
whose numbers are bounded, and in the two `links` runs, whose messages and frames
are bounded: when all are spent they rest.

## 5. Findings

Shown by a run:

* **A live connection shown as lost** (`client_shown`).  `connectToServer` on a
  live connection stops the reconnect timer and then, through `abort()`, starts
  it again; it fires on the new connection.
* **Position ahead of the control state** (`playback_hasty`).
  `AutoVizClient/README.md:33` excludes it for seeks.  A seek in a stopped bag
  rebuilds state and position; `play()` empties the state (line 61) and goes on
  from the position.
* **Rejected target sets in a bag** (`links_targets`).
  `memory/CUSTOM_MSG_FIELD_MATRIX.md:43` wants the same rules on both links and the
  reason shown.  `decodeFinalTargets` returns at the first fault without reading
  what is behind it, the decoder finds unread bytes and skips the message.
* **The plan view at the origin** (`view_fit`).  `setMainViewMode` resets the
  viewport but keeps the region of the last fit; if the data have not moved when
  the view comes back, nothing is fitted (`SceneManager.cpp:187`, comments at 229
  and 732).
* **A timeout ends a profile** (`panels_timeout`).  The comment at
  `SceneManager.cpp:463` excludes it; without an action the mode is unknown, line
  466 freezes the profile, and the action begins a new one when its topic is back.

Seen in the models, without a run:

* `AutoVizServer/README.md:56` says a fatal error is followed by the disconnection;
  the session goes on reading and queueing until its queue happens to be empty,
  and the client applies the envelopes behind the error in the same read, so that
  a view stays on a closed connection (`memory/PROTOCOL_DESIGN.md:68`).
* `control.proto:62` keeps the recent terminal action for the session; a silent
  period of the topic clears it.
* A seek backward within one vertical action keeps the later samples of its
  profile if no refresh sees the reset (`memory/ARCHITECTURE.md:77` has them cleared).
* Loading a bag while another plays leaves a frame of the old one during the
  validation.
* An `Idle` in between does not reset the debounce of the main view; a profile
  that was begun with an empty goal takes samples of later goals; a frozen
  profile of a height hold is drawn by depth.
* The comment at `SceneManager.cpp:390` wants a sample whenever the targets differ;
  `targetChanged` asks for a target that is there, so that one which vanishes waits
  for the next regular sample, after a seek back until the profile's clock has
  caught up (`NothingMissed` says so much).
* `setRate` publishes a frame without telling the window its position.
* The badge of an ascent that runs unasked is green; a missing location hides an
  emergency stop in the state line; a topic is "online" without a value while a
  clock ahead of the client's has expired it.

## 6. Proofs

All theorems hold for every value of the constants under the named assumptions
of the modules (positive limits, finite sets where cardinalities are taken, the
kinds as the code groups them).  Every invariant and action property of the
passing runs has one.

* `VizServerProofs`: `IInv` adds to types and table what links a client's flags
  to its frames: a client that is not ready has no snapshot queued (`ReadyOnly`),
  a ready one has received the hello or has it queued before any snapshot or
  heartbeat (`StreamInv`), and every ready client of the table has the newest
  snapshot received or queued (`Fresh`).  Without the first, greeting a client
  could break the order; without the second, publishing could.  The key lemmas
  are about `Enqueue`: what replacing in place keeps.  For the two action properties
  `Kept` says of two queues that one is the other's rest or has its frames in their
  places (`FramesKept`); it is transitive (`KeptTransitive`), every enqueueing keeps it
  (`EnqueueKeeps`), and `KeptStep` goes through the actions, the loop over a read's
  envelopes included.  The refinement maps every action to a step of `SnapshotFeed`
  or a stutter.
* `RemoteSourceProofs`: `ConnectionInv` adds to the safety properties which source
  is active during each step of a handover (`HandoverInv`) and that a session is
  known only while its connection lasts (`HelloInv`).  For the view of a session
  (`SessionPurity`) `SnapshotInv` adds that snapshots being handled come behind the
  hello of their connection; this needs a server that is silent behind a final
  message (`~Lenient`), the assumption of `ViewCorrect`.  That nothing of a server is
  shown with a bag (`PlaybackCorrect`) needs no such assumption: the handover ends
  with an empty view, and what is written for another source is dropped.
* `SnapshotStoreProofs`: `StoreInv` adds that a field is present only while its
  topic has received and is not marked timed out (`AliveInv`): only then does an
  expiry that raises no flag leave nothing stale behind.
* `ActionTrackerProofs`: `TrackerInv` relates what was told of each action, the
  cache and the node's latest state: the cache holds all that was told as long as
  no more than `MaxDiagnostics` actions were (`CacheTold`), and the latest state
  has all of the cache's facts of its action (`LatestCovers`).  `ToldStep` is the
  core: an entry leaves the cache only if more than `MaxDiagnostics` actions have
  been told of, by the pigeonhole principle.
* `PlaybackWorkerProofs`: `PlaybackInv` adds that the next row is never before the
  last frame, nor before the position while no handler runs (`CursorInv`), and
  that a path in the snapshot is newer than every turning command read
  (`PathInv`).  The first makes the rollback of the position safe
  (`FramesCorrect`); the second holds of played rows by induction and of rebuilt
  ones by `RebuiltPath`: behind the last turning command there is a first other
  one, which is an end of a center turn, and the path came after it.  The least
  and greatest elements this needs come from the well-founded order of finite
  sets (`Least`, `Greatest`).  These theorems hold for hasty users, too.

  `ViewCorrect` (`ViewFollowsPosition`, for users who are not hasty) has a further
  invariant, `FollowInv`: the worker's view, times and center turn are `Synced` with
  the rows before the cursor at the time of the last frame, and a bag that will
  start with an empty snapshot is at its begin; the second is what a hasty user
  breaks.  Four lemmas carry it: an empty snapshot is in step before the first row
  (`SyncedEmpty`), a row more keeps it in step (`RowSynced`, with `PathSynced` for the
  paths), so does publishing at a later time (`PublishSynced`: fields only time out),
  and a seek leaves what playing there would have left (`RebuildSynced`).  For paths
  playing and seeking agree because a center turn that goes on has not timed
  out (`TurnFresh`, where `TurnsHeard`), and a command ends a center turn exactly if
  the one before it is a turning command (`ExitAfterTurn`).
* `MainViewProofs`: `ViewInv` says that a running wait is for the plan view, runs
  in automatic mode and is not older than the last vertical motion seen
  (`ChoiceInv`), and that the viewport is the vehicle's if it is followed
  (`Follows`), and never the user's while fits are automatic (`OwnFits`).  The
  second needs the region of the last fit, which a resize takes again.  Every
  operation on the display has a lemma; `StepKeeps` combines them and gives the
  action properties.  The theorems are of `Spec`, the run's fairness is not used.
* `PanelsProofs`, a section for each part of the display.
  Depth profile: `ProfileInv` relates the running profile to the snapshot drawn last:
  the last sample shows all targets that are there, and if one was lost, the next
  sample is not due yet (`ShowsLast`);
  that all of its samples are of its goal or of a stop follows from when a new one
  is begun.
  Trail: `TrailInv` says that the last point is within the thresholds of the last
  location, and consecutive points differ; trimming keeps both.
  Curves: a seek takes effect in the snapshot before the window hears of it, so that
  samples may lie behind the place sought for a while.  `CurvesTold` says how long:
  samples and origin never go beyond some place that the window was told last or
  that a signal under way will tell; `SnapshotTold`, that the last of these is the
  place shown.  With no signal left, the two give `CurvesAfterSeek`.
  Status panel: `PanelInv` says that a topic has lost its value only if it had
  expired, at the source now (`RemovedLate`) and in the snapshot by its own time
  (`MissingLate`).  So the words for silence and absence can be told apart
  (`OnlineCorrect`), and what a green badge excludes follows case by case from the
  texts (`GreenCorrect`).
* `LinksProofs`, the frames: `FrameInv` says that the bytes held and under way are exactly
  those behind the frames decoded so far (`InStep`: there is a sequence of rests of
  the stream, each a frame longer than the next), and that a decoder that does not
  run is waiting for more.  `AtFrame` and `AtBroken` say what the loop finds where a
  frame begins, `HeaderBack` that four digits give the length back for every base
  and every length below the base's fourth power.  They need that what a faulty
  peer sends is not a whole frame.
  The links: `LinksInv` says that of every topic with plain messages both slots
  are what the newest message makes of nothing (`PlainHeld`), that the paths are
  equal, the newest, and absent while a turn goes on (`PathsHeld`), that the actions
  tell their message with the same hidden facts from equal caches and recent
  terminals that differ in such facts only (`ActionHeld`), that the live link holds the
  newest set of targets, and so does the bag if the decoder reads that set to its end
  (`TargetsHeld`), and that no bag is refused (`LinksTypeOK`).  It is needed because a message meets what is stored: a command
  is compared with the one before it to find the begin of a turn, an action takes
  facts from the one before it, repeated fields are appended to what is left in the
  snapshot.  `LocationAgrees` to `ActionDecoded` show for each topic that the two
  conversions of one message agree, from `SameEnumerations` (the enumerations are
  written once per program) and `ReadTrue` (a field read is the field of that name);
  `PlainStep` to `HiddenStep` show that a message keeps the slots together, and
  `PlainAgrees` and `ActionAgrees` that the display shows such slots alike.
  They rest on `TablesAligned`, an assumption with no constant in it: TLC evaluates
  it completely whenever it starts a run of the module, so nothing is left to the
  size of an instance; the provers cannot, since it joins names from strings and lays
  out declarations recursively.  `LinksAgree` alone has a hypothesis, `TargetsDecode`: no
  set of targets has bytes behind a target that rejects it.  `links_targets` shows the
  links differ otherwise; without it there remain `AgreeButTargets`, all other topics,
  and `TargetsWhole`, the targets whenever the newest set is one that decodes.

Only model-checked: liveness (`SilentRemoved`, `ImplementsFeedProgress`,
`Reconnects`, `QuietDropped`, `FieldTimesOut`, `PlaybackEnds`, `AutoCatchesUp`), which is
out of the prover's reach; the tables of the links (`TablesAligned`), an evaluation and
not an argument; and the runs that expect a violation.

## 7. Not modelled

* Start, stop and restart of the server: what a stopped `io_context` still runs is
  decided by Boost.Asio's queue, and the node starts the server once and stops it
  at its end.  `PROJECT.json` lists the hazard.
* Reading and validating bags (SQLite), message counts and the playback's speed.
* ROS parameters, subscriptions and QoS: set-up without later changes.
* Widgets, painting, themes, dialogs, logging, saved settings, and the status
  panel's texts that only format a number or translate an enumeration: they keep
  no state whose order matters.
* Values that are not finite, byte order, and the wording of texts.
