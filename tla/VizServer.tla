----------------------------- MODULE VizServer ------------------------------
(***************************************************************************)
(* The TCP side of AutoVizServer while it runs: VisualizationServer (the   *)
(* client table, handshake, heartbeats and snapshot publication) over its  *)
(* TcpSessions (one write queue per client).  Everything below executes on *)
(* the single I/O thread of the io_context; an action is one completion    *)
(* handler, except that the loop of the read handler over the envelopes of *)
(* one read is taken one envelope at a time: `batch' holds those that are  *)
(* still to be handled, and no other handler runs meanwhile.               *)
(*                                                                         *)
(* Peers are the environment: they send any envelopes, stop reading, fall  *)
(* silent or vanish.  Starting and stopping the server is not here.        *)
(***************************************************************************)
EXTENDS Naturals, Sequences, FiniteSets

CONSTANTS Conn,        \* TCP connections, each used once (++m_nextClientId)
          MaxClients,  \* m_config.maxClients
          Oversized,   \* numbers of snapshots with more than kMaxFrameSize bytes
          MaxSeq,      \* bound of the model: last value of m_sequence
          MaxSends     \* bound of the model: envelopes read per connection

ASSUME ConstantsAssumption ==
  /\ IsFiniteSet(Conn)
  /\ MaxClients \in Nat \ {0}
  /\ Oversized \subseteq Nat
  /\ MaxSeq \in Nat
  /\ MaxSends \in Nat

VARIABLES
  clients,     \* keys of m_clients
  clientCount, \* m_clientCount, read by the ROS thread
  ready,       \* ClientState::ready
  silent,      \* now - ClientState::lastReceive exceeds clientTimeout
  session,     \* socket of the connection: "none" before it is accepted
  queue,       \* TcpSession::m_writeQueue
  closing,     \* TcpSession::m_closeAfterOutput
  batch,       \* <<connection, envelope>> pairs of the read being handled
  sequence,    \* m_sequence
  latest,      \* m_latestSnapshot.sequence; 0: m_hasSnapshot is false
  got,         \* what the peer received so far (observed, not in the code)
  sends        \* envelopes read per connection (bound of the model)

tableVars == <<clients, clientCount>>
streamVars == <<sequence, latest>>
vars == <<clients, clientCount, ready, silent, session, queue, closing, batch,
          sequence, latest, got, sends>>
-----------------------------------------------------------------------------
(* Envelopes a peer can send, and frames the server sends.                 *)

Msg == {"hello",      \* ClientHello of a compatible major version
        "badHello",   \* ClientHello of another major version
        "beat",       \* heartbeat with no session id or the server's
        "badBeat",    \* heartbeat with another session id
        "other"}      \* any other envelope

Kind == {"hello", "snapshot", "beat", "error", "fatal"}
Frame == [kind : Kind, seq : Nat]

Plain(k) == [kind |-> k, seq |-> 0]
Snapshot(s) == [kind |-> "snapshot", seq |-> s]
Beat(s) == [kind |-> "beat", seq |-> s]

IoIdle == batch = <<>>
-----------------------------------------------------------------------------
(* TcpSession                                                              *)

\* encodeFrame succeeds: control frames and heartbeats are small.
Encodes(f) == f.kind = "snapshot" => f.seq \notin Oversized

\* Mutant: the search starts at the head.
PendingSnapshotsFromHead(q) ==
  {i \in 1 .. Len(q) : Len(q) > 1 /\ q[i].kind = "snapshot"}

\* Mutant: any waiting frame may be replaced.
PendingSnapshotsAnyKind(q) == {i \in 2 .. Len(q) : TRUE}

\* Frames of the queue that a new snapshot may replace: never the head,
\* whose bytes async_write may be using.
PendingSnapshots(q) == {i \in 2 .. Len(q) : q[i].kind = "snapshot"}

\* Mutant: snapshots are queued like any other frame.
EnqueueNoReplacement(q, f) == IF Encodes(f) THEN Append(q, f) ELSE q

\* Mutant: a snapshot is dropped while an older one waits.
EnqueueKeepsOldest(q, f) ==
  IF Encodes(f) /\ (f.kind = "snapshot" => PendingSnapshots(q) = {})
  THEN Append(q, f) ELSE q

\* TcpSession::send on an open session: a snapshot overwrites the first one
\* that waits behind the head, any other frame is appended; what does not
\* encode is dropped without notice, and what waits is left alone.
Enqueue(q, f) ==
  LET pending == PendingSnapshots(q)
  IN  CASE ~Encodes(f) -> q
        [] Encodes(f) /\ f.kind = "snapshot" /\ pending # {} ->
             [q EXCEPT ![CHOOSE i \in pending : \A j \in pending : i <= j] = f]
        [] OTHER -> Append(q, f)

\* Mutant: close() does not report the end of the session.
CloseSessionsNoNotify(S) ==
  /\ session' = [c \in Conn |-> IF c \in S /\ session[c] = "open"
                                THEN "closed" ELSE session[c]]
  /\ UNCHANGED <<clients, clientCount>>

\* TcpSession::close and VisualizationServer::removeClient of the sessions of
\* S that are open.
CloseSessions(S) ==
  /\ session' = [c \in Conn |-> IF c \in S /\ session[c] = "open"
                                THEN "closed" ELSE session[c]]
  /\ clients' = clients \ S
  /\ clientCount' = Cardinality(clients')

\* What the peer knows after it receives frame f.
Received(g, f) ==
  [greeted |-> g.greeted \/ f.kind = "hello",
   snap    |-> IF f.kind = "snapshot" THEN f.seq ELSE g.snap]

\* The write of the head completes.  An emptied queue ends a session that
\* closeAfterOutput marked.
WriteDone(c) ==
  /\ IoIdle
  /\ session[c] = "open"
  /\ queue[c] # <<>>
  /\ got' = [got EXCEPT ![c] = Received(@, Head(queue[c]))]
  /\ queue' = [queue EXCEPT ![c] = Tail(@)]
  /\ IF Len(queue[c]) = 1 /\ closing[c]
     THEN CloseSessions({c})
     ELSE UNCHANGED <<session, tableVars>>
  /\ UNCHANGED <<ready, silent, closing, batch, streamVars, sends>>

\* A read or write error, or bytes that FrameDecoder refuses: the session is
\* closed; envelopes decoded before the bad bytes of that read are dropped.
SessionFails(c) ==
  /\ IoIdle
  /\ session[c] = "open"
  /\ CloseSessions({c})
  /\ UNCHANGED <<ready, silent, queue, closing, batch, streamVars, got, sends>>

\* A read completes with the envelopes es.  It may have completed before the
\* session was closed and be handled after.
ReadDone(c, es) ==
  /\ IoIdle
  /\ session[c] \in {"open", "closed"}
  /\ sends[c] + Len(es) <= MaxSends
  /\ batch' = [i \in 1 .. Len(es) |-> <<c, es[i]>>]
  /\ sends' = [sends EXCEPT ![c] = @ + Len(es)]
  /\ UNCHANGED <<tableVars, ready, silent, session, queue, closing,
                 streamVars, got>>
-----------------------------------------------------------------------------
(* VisualizationServer                                                     *)

\* The accept handler: one more client, or one too many.
Accept(c) ==
  /\ IoIdle
  /\ session[c] = "none"
  /\ IF Cardinality(clients) < MaxClients
     THEN /\ clients' = clients \cup {c}
          /\ clientCount' = Cardinality(clients')
          /\ session' = [session EXCEPT ![c] = "open"]
     ELSE /\ session' = [session EXCEPT ![c] = "rejected"]
          /\ UNCHANGED tableVars
  /\ UNCHANGED <<ready, silent, queue, closing, batch, streamVars, got, sends>>

\* Mutant: a new client waits for the next publication.
GreetingNoSnapshot(q) == Enqueue(q, Plain("hello"))

\* ServerHello, followed by the latest snapshot if there is one.
Greeting(q) == IF latest = 0
               THEN Enqueue(q, Plain("hello"))
               ELSE Enqueue(Enqueue(q, Plain("hello")), Snapshot(latest))

HandleHello(c) ==
  /\ ready' = [ready EXCEPT ![c] = TRUE]
  /\ queue' = [queue EXCEPT ![c] = Greeting(@)]
  /\ UNCHANGED closing

\* sendError(client, ..., fatal = true): the queue is not empty after send, so
\* closeAfterOutput only sets its flag.
SendFatal(c) ==
  /\ queue' = [queue EXCEPT ![c] = Enqueue(@, Plain("fatal"))]
  /\ closing' = [closing EXCEPT ![c] = TRUE]
  /\ UNCHANGED ready

SendError(c) ==
  /\ queue' = [queue EXCEPT ![c] = Enqueue(@, Plain("error"))]
  /\ UNCHANGED <<ready, closing>>

\* The branches of handleEnvelope for a client of the table.
Dispatch(c, m) ==
  \/ m = "hello" /\ HandleHello(c)
  \/ m = "badHello" /\ SendFatal(c)
  \/ m = "beat" /\ ready[c] /\ UNCHANGED <<ready, queue, closing>>
  \/ m = "badBeat" /\ ready[c] /\ SendFatal(c)
  \/ m \in {"beat", "badBeat"} /\ ~ready[c] /\ SendError(c)
  \/ m = "other" /\ SendError(c)

HandleEnvelope ==
  /\ batch # <<>>
  /\ batch' = Tail(batch)
  /\ LET c == Head(batch)[1]
     IN  IF c \in clients
         THEN /\ silent' = [silent EXCEPT ![c] = FALSE]
              /\ Dispatch(c, Head(batch)[2])
         ELSE UNCHANGED <<silent, ready, queue, closing>>
  /\ UNCHANGED <<tableVars, session, streamVars, got, sends>>

\* The posted handler of publishSnapshot: number the snapshot, keep it, send
\* it to every client that completed the handshake.
PublishSnapshot ==
  /\ IoIdle
  /\ sequence < MaxSeq
  /\ sequence' = sequence + 1
  /\ latest' = sequence + 1
  /\ queue' = [c \in Conn |-> IF c \in clients /\ ready[c]
                              THEN Enqueue(queue[c], Snapshot(sequence + 1))
                              ELSE queue[c]]
  /\ UNCHANGED <<tableVars, ready, silent, session, closing, batch, got, sends>>

\* The clients the heartbeat timer serves.  Bound of the model: no heartbeat
\* frames when they would take m_sequence beyond MaxSeq.
BeatClients ==
  LET due == {c \in clients : ready[c] /\ ~silent[c]}
  IN  IF sequence + Cardinality(due) <= MaxSeq THEN due ELSE {}

\* Heartbeats are numbered from the same counter as snapshots, in the order
\* in which m_clients (unordered) is traversed.
Numberings(S) == {r \in [S -> 1 .. Cardinality(S)] :
                    \A c, d \in S : r[c] = r[d] => c = d}

\* Mutant: only clients that completed the handshake can time out.
HeartbeatTickReadyOnly ==
  /\ IoIdle
  /\ \E rank \in Numberings(BeatClients) :
       queue' = [c \in Conn |-> IF c \in BeatClients
                                THEN Enqueue(queue[c], Beat(sequence + rank[c]))
                                ELSE queue[c]]
  /\ sequence' = sequence + Cardinality(BeatClients)
  /\ CloseSessions({c \in clients : silent[c] /\ ready[c]})
  /\ UNCHANGED <<ready, silent, closing, batch, latest, got, sends>>

\* The heartbeat timer: clients that were silent too long are closed, the
\* others that are ready get a heartbeat.
HeartbeatTick ==
  /\ IoIdle
  /\ \E rank \in Numberings(BeatClients) :
       queue' = [c \in Conn |-> IF c \in BeatClients
                                THEN Enqueue(queue[c], Beat(sequence + rank[c]))
                                ELSE queue[c]]
  /\ sequence' = sequence + Cardinality(BeatClients)
  /\ CloseSessions({c \in clients : silent[c]})
  /\ UNCHANGED <<ready, silent, closing, batch, latest, got, sends>>

\* Time passes: clientTimeout has elapsed since the last envelope of c.
Elapse(c) ==
  /\ c \in clients
  /\ ~silent[c]
  /\ silent' = [silent EXCEPT ![c] = TRUE]
  /\ UNCHANGED <<tableVars, ready, session, queue, closing, batch, streamVars,
                 got, sends>>
-----------------------------------------------------------------------------
Init ==
  /\ clients = {}
  /\ clientCount = 0
  /\ ready = [c \in Conn |-> FALSE]
  /\ silent = [c \in Conn |-> FALSE]
  /\ session = [c \in Conn |-> "none"]
  /\ queue = [c \in Conn |-> <<>>]
  /\ closing = [c \in Conn |-> FALSE]
  /\ batch = <<>>
  /\ sequence = 0
  /\ latest = 0
  /\ got = [c \in Conn |-> [greeted |-> FALSE, snap |-> 0]]
  /\ sends = [c \in Conn |-> 0]

\* A read returns one or two envelopes.
Reads == {<<m>> : m \in Msg} \cup (Msg \X Msg)

Next ==
  \/ \E c \in Conn : \/ Accept(c)
                     \/ WriteDone(c)
                     \/ SessionFails(c)
                     \/ Elapse(c)
                     \/ \E es \in Reads : ReadDone(c, es)
  \/ HandleEnvelope
  \/ PublishSnapshot
  \/ HeartbeatTick

Spec == Init /\ [][Next]_vars

\* The read handler runs to its end, the heartbeat timer is re-armed by each
\* tick, and a peer that is connected reads, however slowly.
Fairness == /\ WF_vars(HandleEnvelope)
            /\ WF_vars(HeartbeatTick)
            /\ \A c \in Conn : WF_vars(WriteDone(c))

FairSpec == Spec /\ Fairness
-----------------------------------------------------------------------------
(* Properties                                                              *)

\* Types of the variables.
TypeOK ==
  /\ clients \subseteq Conn
  /\ clientCount \in Nat
  /\ ready \in [Conn -> BOOLEAN]
  /\ silent \in [Conn -> BOOLEAN]
  /\ session \in [Conn -> {"none", "open", "closed", "rejected"}]
  /\ queue \in [Conn -> Seq(Frame)]
  /\ closing \in [Conn -> BOOLEAN]
  /\ batch \in Seq(Conn \X Msg)
  /\ sequence \in Nat
  /\ latest \in Nat
  /\ got \in [Conn -> [greeted : BOOLEAN, snap : Nat]]
  /\ sends \in [Conn -> Nat]

\* The client table holds exactly the open sessions and never more than
\* maxClients, and the count that AutoVizServerNode reads agrees with it:
\* every way a session ends (write error, read error, timeout, end of output)
\* gives its place back.
ClientTable ==
  /\ clients = {c \in Conn : session[c] = "open"}
  /\ clientCount = Cardinality(clients)
  /\ clientCount <= MaxClients

\* A slow client has at most one snapshot waiting behind the frame in flight:
\* no unbounded queue of snapshots (TcpSession::send).
NoSnapshotBacklog ==
  \A c \in Conn : \A i, j \in PendingSnapshots(queue[c]) : i = j

\* In what a client has received and will receive, no snapshot and no
\* heartbeat comes before ServerHello.
HelloFirst ==
  \A c \in Conn : \A i \in 1 .. Len(queue[c]) :
    queue[c][i].kind \in {"snapshot", "beat"} /\ ~got[c].greeted
      => \E j \in 1 .. i - 1 : queue[c][j].kind = "hello"

\* A client never gets an older snapshot after a newer one, although a
\* waiting frame is overwritten in place: the sequence numbers of the
\* snapshots received and queued do not decrease.
SnapshotOrder ==
  \A c \in Conn :
    \A i \in 1 .. Len(queue[c]) : queue[c][i].kind = "snapshot" =>
      /\ got[c].snap <= queue[c][i].seq
      /\ \A j \in i + 1 .. Len(queue[c]) :
           queue[c][j].kind = "snapshot" => queue[c][i].seq <= queue[c][j].seq

\* The newest snapshot is never lost unless it is too large for a frame: each
\* client of the table that completed the handshake has received it or has it
\* in its queue, whatever was dropped before it.
NewestPending ==
  \A c \in clients : ready[c] /\ latest \notin Oversized \cup {0} =>
    \/ got[c].snap = latest
    \/ \E i \in 1 .. Len(queue[c]) : queue[c][i] = Snapshot(latest)

\* The frame in flight is not touched until its write completes: a queue
\* changes at its head only by losing it.
HeadUntouched ==
  [][\A c \in Conn : queue[c] # <<>> =>
       \/ queue'[c] = Tail(queue[c])
       \/ queue'[c] # <<>> /\ Head(queue'[c]) = Head(queue[c])]_queue

\* Queue p holds the frames of q at their places, and may hold more: only a
\* snapshot may have become another one, not older than it.
FramesKept(q, p) ==
  /\ Len(q) <= Len(p)
  /\ \A i \in 1 .. Len(q) :
       IF q[i].kind = "snapshot"
       THEN p[i].kind = "snapshot" /\ q[i].seq <= p[i].seq
       ELSE p[i] = q[i]

\* Handshake, heartbeat and error frames are not lost or reordered in the
\* queue (AutoVizServer/README.md): a step of the server writes the head out
\* or leaves every waiting frame in its place, a snapshot at most made newer.
ControlFramesKept ==
  [][\A c \in Conn : \/ queue[c] # <<>> /\ queue'[c] = Tail(queue[c])
                     \/ FramesKept(queue[c], queue'[c])]_queue

\* A client that stays silent is removed, even when it does not read its
\* frames (scheduleHeartbeat).
SilentRemoved ==
  \A c \in Conn : (c \in clients /\ silent[c]) ~> (c \notin clients \/ ~silent[c])

\* The server implements the snapshot feed: a subscriber is a client of the
\* table that completed the handshake.
Feed == INSTANCE SnapshotFeed WITH
          published <- latest,
          subscribers <- {c \in clients : ready[c]},
          seen <- [c \in Conn |-> got[c].snap]

\* Safety part of the refinement.
ImplementsFeed == Feed!FeedSafety

\* Progress part of the refinement, under the fairness of FairSpec: a client
\* that stays connected and reads gets the newest snapshot that fits a frame.
ImplementsFeedProgress == Feed!FeedProgress
=============================================================================
