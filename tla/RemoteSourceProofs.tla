------------------------- MODULE RemoteSourceProofs -------------------------
(***************************************************************************)
(* Theorems about RemoteSource for every set of sessions.  Those about the *)
(* connection hold whatever the server sends; the one about the view needs *)
(* a server that ends its stream with a fatal error.                       *)
(***************************************************************************)
EXTENDS RemoteSource, TLAPS

USE RemoteAssumption
-----------------------------------------------------------------------------
(* The inductive invariant of the connection.                              *)

\* A handover has chosen its source, and no read is being handled meanwhile.
HandoverInv ==
  /\ pc = "toRemote" => active = "remote"
  /\ pc = "toBag" => active = Bag
  /\ pc # "idle" => batch = <<>>

\* A session is known only while its connection lasts, and a hello is handled
\* only on such a connection: nothing that ends it comes before the hello.
HelloInv ==
  /\ sessionId # None => sock \in {"connected", "closing"}
  /\ \A i \in 1 .. Len(batch) : batch[i].kind = "hello" =>
       /\ sock = "connected"
       /\ \A j \in 1 .. i - 1 : batch[j].kind \notin {"fatal", "foreignHello"}

ConnectionInv ==
  /\ TypeOK
  /\ HandoverInv
  /\ HelloInv
  /\ ManualHolds
  /\ PlaybackOffline
  /\ RetryPending
  /\ ClaimJustified

\* Definitions that nearly every step needs.
USE DEF None, Bag, GuiIdle, Reset, link, clocks, data

LEMMA ConnectionInit == Init => ConnectionInv
<1> SUFFICES ASSUME Init PROVE ConnectionInv
  OBVIOUS
<1>1. peer \in Peer
  BY DEF Init, Peer
<1>a. batch \in Seq(Envelope)
  BY DEF Init
<1>2. TypeOK
  BY <1>1, <1>a DEF Init, TypeOK
<1>3. HandoverInv /\ HelloInv
  BY DEF Init, HandoverInv, HelloInv
<1>4. ManualHolds /\ PlaybackOffline /\ RetryPending /\ ClaimJustified
  BY DEF Init, ManualHolds, PlaybackOffline, RetryPending, ClaimJustified,
         Wanted
<1>. QED BY <1>2, <1>3, <1>4 DEF ConnectionInv

\* What a read leaves in `batch'.
LEMMA ReadCases ==
  ASSUME TypeOK, ReadyRead
  PROVE  /\ batch' \in Seq(Envelope)
         /\ peer' \in Peer
         /\ \E e \in Envelope :
              /\ Legal(peer, e)
              /\ \/ /\ batch' = <<e>>
                    /\ peer' = Says(peer, e)
                 \/ \E f \in Envelope :
                      /\ Legal(Says(peer, e), f)
                      /\ batch' = <<e, f>>
                      /\ peer' = Says(Says(peer, e), f)
<1>1. \A p \in Peer, e \in Envelope : Says(p, e) \in Peer
  BY DEF Says, Peer, Envelope
<1>2. PICK e \in Envelope :
        /\ Legal(peer, e)
        /\ \/ batch' = <<e>> /\ peer' = Says(peer, e)
           \/ \E f \in Envelope : /\ Legal(Says(peer, e), f)
                                 /\ batch' = <<e, f>>
                                 /\ peer' = Says(Says(peer, e), f)
  BY DEF ReadyRead
<1>3. peer \in Peer
  BY DEF TypeOK
<1>4. CASE batch' = <<e>> /\ peer' = Says(peer, e)
  BY <1>1, <1>2, <1>3, <1>4
<1>5. ASSUME NEW f \in Envelope, Legal(Says(peer, e), f), batch' = <<e, f>>,
             peer' = Says(Says(peer, e), f)
      PROVE  /\ batch' \in Seq(Envelope)
             /\ peer' \in Peer
  BY <1>1, <1>3, <1>5
<1>. QED BY <1>2, <1>4, <1>5

\* What handling the first envelope leaves in `batch'.
LEMMA TailFacts ==
  ASSUME NEW b \in Seq(Envelope), b # <<>>
  PROVE  /\ Head(b) = b[1]
         /\ Head(b) \in Envelope
         /\ Tail(b) \in Seq(Envelope)
         /\ Len(Tail(b)) = Len(b) - 1
         /\ Len(b) \in Nat
         /\ Len(b) > 0
         /\ \A i \in 1 .. Len(b) - 1 : Tail(b)[i] = b[i + 1]
OBVIOUS

\* Handlers that touch the connection keep the types.
LEMMA SocketTypes ==
  ASSUME TypeOK,
         sock' \in {"unconnected", "connecting", "connected", "closing"},
         pendingClose' \in BOOLEAN, timers' \in BOOLEAN, quiet' \in BOOLEAN,
         retry' \in BOOLEAN, shot' \in BOOLEAN, ui' \in BOOLEAN,
         sessionId' \in {sessionId, None},
         batch' \in Seq(Envelope), peer' \in Peer,
         shown' \in Sessions \cup {None, Bag}, trail' \subseteq Sessions \cup {Bag},
         UNCHANGED <<manual, auto, asked, active, pc, worker>>
  PROVE  TypeOK'
BY DEF TypeOK

\* Every step keeps the invariant of the connection.
LEMMA ConnectionStep == ConnectionInv /\ [Next]_vars => ConnectionInv'
<1> SUFFICES ASSUME ConnectionInv, [Next]_vars PROVE ConnectionInv'
  OBVIOUS
<1> USE DEF ConnectionInv, ManualHolds, PlaybackOffline, RetryPending,
            ClaimJustified, Wanted
<1> DEFINE Rest == /\ ManualHolds'
                   /\ PlaybackOffline'
                   /\ RetryPending'
                   /\ ClaimJustified'
<1>t. /\ sock \in {"unconnected", "connecting", "connected", "closing"}
      /\ timers \in BOOLEAN /\ quiet \in BOOLEAN /\ retry \in BOOLEAN
      /\ shot \in BOOLEAN /\ ui \in BOOLEAN /\ pendingClose \in BOOLEAN
      /\ batch \in Seq(Envelope) /\ peer \in Peer
      /\ shown \in Sessions \cup {None, Bag} /\ trail \subseteq Sessions \cup {Bag}
  BY DEF TypeOK
<1>1. CASE Connected
  <2>1. peer' \in Peer
    BY <1>1 DEF Connected, Peer
  <2>2. TypeOK'
    BY <1>1, <2>1 DEF Connected, TypeOK
  <2>3. HandoverInv' /\ HelloInv' /\ Rest
    BY <1>1 DEF Connected, TypeOK, HandoverInv, HelloInv
  <2>. QED BY <2>2, <2>3
<1>2. CASE ConnectFails
  <2>a. /\ sock' = "unconnected" /\ ui' = FALSE /\ shot' = TRUE
        /\ UNCHANGED <<pendingClose, manual, auto, asked, timers, quiet, retry,
                       sessionId, peer, batch, active, shown, trail, pc, worker>>
    BY <1>2 DEF ConnectFails, ErrorOccurred
  <2>1. TypeOK'
    BY <1>t, <2>a, SocketTypes
  <2>2. HandoverInv' /\ HelloInv' /\ Rest
    BY <1>2 DEF ConnectFails, ErrorOccurred, TypeOK, HandoverInv, HelloInv
  <2>. QED BY <2>1, <2>2
<1>3. CASE PeerCloses \/ OutputFlushed \/ BadFrame \/ Watchdog
  <2> USE DEF PeerCloses, OutputFlushed, BadFrame, Watchdog, DropConnection,
              Disconnected, ErrorOccurred
  <2>a. /\ sock' = "unconnected" /\ timers' = FALSE /\ ui' = FALSE /\ sessionId' = None
        /\ retry' \in BOOLEAN /\ shot' \in BOOLEAN
    BY <1>3, <1>t DEF TypeOK
  <2>b. shown' \in {shown, None} /\ trail' \in {trail, {}}
    BY <1>3 DEF Reset
  <2>c. UNCHANGED <<pendingClose, manual, auto, asked, quiet, peer, batch, active,
                    pc, worker>>
    BY <1>3
  <2>1. TypeOK'
    BY <1>t, <2>a, <2>b, <2>c, SocketTypes
  <2>2. HandoverInv' /\ HelloInv' /\ Rest
    BY <1>3 DEF TypeOK, HandoverInv, HelloInv
  <2>. QED BY <2>1, <2>2
<1>4. CASE ReadyRead
  <2>a. quiet' = FALSE /\ batch' \in Seq(Envelope) /\ peer' \in Peer
    BY <1>4, ReadCases DEF ReadyRead
  <2>b. UNCHANGED <<sock, pendingClose, manual, auto, asked, timers, retry, shot,
                    sessionId, ui, active, shown, trail, pc, worker>>
    BY <1>4 DEF ReadyRead
  <2>1. TypeOK'
    BY <1>t, <2>a, <2>b, SocketTypes
  <2>2. HandoverInv'
    BY <1>4 DEF ReadyRead, HandoverInv
  <2>3. HelloInv'
    <3>1. /\ sock' = "connected"
          /\ sessionId' = sessionId
      BY <1>4 DEF ReadyRead
    <3>2. PICK e \in Envelope :
            /\ Legal(peer, e)
            /\ \/ batch' = <<e>>
               \/ \E f \in Envelope : Legal(Says(peer, e), f) /\ batch' = <<e, f>>
      BY <1>4, ReadCases
    <3>3. CASE batch' = <<e>>
      BY <3>1, <3>3 DEF HelloInv
    <3>4. ASSUME NEW f \in Envelope, Legal(Says(peer, e), f), batch' = <<e, f>>
          PROVE  HelloInv'
      <4>1. f.kind = "hello" => e.kind \notin {"fatal", "foreignHello"}
        BY <3>4 DEF Legal, Says
      <4>. QED BY <3>1, <3>4, <4>1 DEF HelloInv
    <3>. QED BY <3>2, <3>3, <3>4
  <2>4. Rest
    BY <1>4 DEF ReadyRead
  <2>. QED BY <2>1, <2>2, <2>3, <2>4
<1>5. CASE HandleEnvelope
  <2> DEFINE e == Head(batch)
  <2>1. /\ batch # <<>>
        /\ batch' = Tail(batch)
        /\ UNCHANGED <<pendingClose, manual, auto, asked, quiet, shot, peer,
                       active, pc, worker>>
    BY <1>5 DEF HandleEnvelope
  <2>2. batch \in Seq(Envelope)
    BY DEF TypeOK
  <2>3. /\ e = batch[1]
        /\ e \in Envelope
        /\ batch' \in Seq(Envelope)
        /\ Len(batch') = Len(batch) - 1
        /\ Len(batch) \in Nat
        /\ Len(batch) > 0
        /\ \A i \in 1 .. Len(batch) - 1 : batch'[i] = batch[i + 1]
    BY <2>1, <2>2, TailFacts
  <2>4. e.session \in Sessions
    BY <2>3 DEF Envelope
  <2>5. HandoverInv'
    BY <2>1 DEF HandoverInv
  <2>6. pc = "idle"
    BY <2>1 DEF HandoverInv
  <2>7. ASSUME sock' = sock
        PROVE  \A i \in 1 .. Len(batch') : batch'[i].kind = "hello" =>
                 /\ sock' = "connected"
                 /\ \A j \in 1 .. i - 1 :
                      batch'[j].kind \notin {"fatal", "foreignHello"}
    BY <2>3, <2>7 DEF HelloInv
  <2>8. CASE e.kind = "hello" /\ HandleHello(e)
    <3>1. sock = "connected"
      BY <2>3, <2>8 DEF HelloInv
    <3>2. TypeOK'
      BY <2>1, <2>3, <2>4, <2>8 DEF HandleHello, TypeOK
    <3>3. HelloInv'
      BY <2>7, <2>8, <3>1 DEF HandleHello, HelloInv
    <3>4. Rest
      BY <2>1, <2>4, <2>8, <3>1 DEF HandleHello
    <3>. QED BY <2>5, <3>2, <3>3, <3>4
  <2>9. CASE e.kind = "snapshot" /\ HandleSnapshot(e)
    <3>1. TypeOK'
      BY <2>1, <2>3, <2>4, <2>9 DEF HandleSnapshot, Replace, TypeOK
    <3>2. HelloInv'
      BY <2>7, <2>9 DEF HandleSnapshot, HelloInv
    <3>3. Rest
      BY <2>1, <2>4, <2>9 DEF HandleSnapshot
    <3>. QED BY <2>5, <3>1, <3>2, <3>3
  <2>10. CASE e.kind \in {"foreignHello", "fatal"} /\ DisconnectFromHost
    <3> USE DEF DisconnectFromHost, DropConnection, Disconnected
    <3>a. /\ sock' \in {"unconnected", "closing", sock}
          /\ timers' \in {timers, FALSE}
          /\ ui' \in {ui, FALSE}
          /\ sessionId' \in {sessionId, None}
          /\ retry' \in {retry, TRUE, FALSE}
          /\ shown' \in {shown, None}
          /\ trail' \in {trail, {}}
      BY <2>10 DEF TypeOK
    <3>1. TypeOK'
      <4>1. /\ retry' \in BOOLEAN
            /\ timers' \in BOOLEAN
            /\ ui' \in BOOLEAN
        BY <3>a DEF TypeOK
      <4>2. /\ sock' \in {"unconnected", "connecting", "connected", "closing"}
            /\ sessionId' \in Sessions \cup {None}
            /\ shown' \in Sessions \cup {None, Bag}
            /\ trail' \subseteq Sessions \cup {Bag}
        BY <3>a DEF TypeOK
      <4>. QED BY <2>1, <2>3, <4>1, <4>2 DEF TypeOK
    <3>2. \A i \in 1 .. Len(batch') : batch'[i].kind # "hello"
      BY <2>3, <2>10 DEF HelloInv
    <3>3. HelloInv'
      BY <2>10, <3>2 DEF HelloInv, TypeOK
    <3>4. Rest
      BY <2>1, <2>10 DEF TypeOK
    <3>. QED BY <2>5, <3>1, <3>3, <3>4
  <2>11. CASE /\ e.kind = "other"
              /\ UNCHANGED <<sock, timers, retry, sessionId, ui, shown, trail>>
    <3>1. TypeOK'
      BY <2>1, <2>3, <2>11 DEF TypeOK
    <3>2. HelloInv'
      BY <2>7, <2>11 DEF HelloInv
    <3>3. Rest
      BY <2>1, <2>11
    <3>. QED BY <2>5, <3>1, <3>2, <3>3
  <2>. QED BY <1>5, <2>8, <2>9, <2>10, <2>11 DEF HandleEnvelope
<1>6. CASE Elapse
  BY <1>6 DEF Elapse, TypeOK, HandoverInv, HelloInv
<1>7. CASE SingleShot
  <2>a. retry' \in BOOLEAN
    BY <1>7 DEF SingleShot, TypeOK
  <2>b. /\ shot' \in BOOLEAN
        /\ UNCHANGED <<sock, pendingClose, manual, auto, asked, timers, quiet,
                       sessionId, ui, peer, batch, active, shown, trail, pc,
                       worker>>
    BY <1>7 DEF SingleShot
  <2>1. TypeOK'
    BY <2>a, <2>b DEF TypeOK
  <2>2. HandoverInv' /\ HelloInv' /\ Rest
    BY <1>7 DEF SingleShot, TypeOK, HandoverInv, HelloInv
  <2>. QED BY <2>1, <2>2
<1>8. CASE ReconnectFires
  <2>a. retry' = FALSE /\ pendingClose' \in BOOLEAN /\ sock' \in {sock, "connecting"}
    BY <1>8 DEF ReconnectFires, TypeOK
  <2>b. ui' \in BOOLEAN /\ shot' \in BOOLEAN
    BY <1>8 DEF ReconnectFires, ErrorOccurred, TypeOK
  <2>c. UNCHANGED <<manual, auto, asked, timers, quiet, sessionId, peer, batch,
                    active, shown, trail, pc, worker>>
    BY <1>8 DEF ReconnectFires
  <2>1. TypeOK'
    BY <1>t, <2>a, <2>b, <2>c, SocketTypes
  <2>2. HandoverInv' /\ HelloInv' /\ Rest
    BY <1>8 DEF ReconnectFires, ErrorOccurred, TypeOK, HandoverInv, HelloInv
  <2>. QED BY <2>1, <2>2
<1>9. CASE ConnectAtStart \/ FinishRemote
  <2> USE DEF ConnectAtStart, FinishRemote, ConnectToServer
  <2>1. TypeOK'
    BY <1>9 DEF TypeOK
  <2>2. HandoverInv' /\ HelloInv' /\ Rest
    BY <1>9 DEF TypeOK, HandoverInv, HelloInv
  <2>. QED BY <2>1, <2>2
<1>10. CASE SwitchToRemote \/ SwitchToBag
  <2>1. TypeOK'
    BY <1>10 DEF SwitchToRemote, SwitchToBag, TypeOK
  <2>2. HandoverInv' /\ HelloInv' /\ Rest
    BY <1>10 DEF SwitchToRemote, SwitchToBag, HandoverInv, HelloInv
  <2>. QED BY <2>1, <2>2
<1>11. CASE MenuDisconnect \/ FinishBag
  <2> USE DEF MenuDisconnect, FinishBag, DisconnectFromServer, Disconnected
  <2>a. /\ sock' \in {"unconnected", "closing", "connecting"}
        /\ pendingClose' \in {pendingClose, TRUE}
        /\ timers' \in {timers, FALSE}
        /\ ui' \in {ui, FALSE}
        /\ sessionId' \in {sessionId, None}
        /\ retry' = FALSE
    BY <1>11 DEF TypeOK
  <2>b. /\ manual' = TRUE
        /\ shown' \in {shown, None}
        /\ trail' \in {trail, {}}
        /\ pc' = "idle"
        /\ worker' \in {worker, TRUE}
        /\ UNCHANGED <<auto, asked, quiet, shot, peer, batch, active>>
    BY <1>11
  <2>1. TypeOK'
    <3>1. /\ retry' \in BOOLEAN
          /\ timers' \in BOOLEAN
          /\ ui' \in BOOLEAN
          /\ pendingClose' \in BOOLEAN
          /\ manual' \in BOOLEAN
          /\ worker' \in BOOLEAN
      BY <2>a, <2>b DEF TypeOK
    <3>2. /\ sock' \in {"unconnected", "connecting", "connected", "closing"}
          /\ sessionId' \in Sessions \cup {None}
          /\ shown' \in Sessions \cup {None, Bag}
          /\ trail' \subseteq Sessions \cup {Bag}
      BY <2>a, <2>b DEF TypeOK
    <3>. QED BY <2>b, <3>1, <3>2 DEF TypeOK
  <2>2. HandoverInv'
    BY <1>11 DEF HandoverInv
  <2>3. batch' = <<>>
    BY <1>11 DEF HandoverInv
  <2>4. HelloInv'
    BY <1>11, <2>3 DEF TypeOK, HelloInv
  <2>5. Rest
    BY <1>11 DEF TypeOK
  <2>. QED BY <2>1, <2>2, <2>4, <2>5
<1>12. CASE ClearHistoryTrail \/ WorkerWrites
  <2>1. TypeOK'
    BY <1>12 DEF ClearHistoryTrail, WorkerWrites, Replace, TypeOK
  <2>2. HandoverInv' /\ HelloInv' /\ Rest
    BY <1>12 DEF ClearHistoryTrail, WorkerWrites, HandoverInv, HelloInv
  <2>. QED BY <2>1, <2>2
<1>13. CASE UNCHANGED vars
  BY <1>13 DEF vars, TypeOK, HandoverInv, HelloInv
<1>. QED BY <1>1, <1>2, <1>3, <1>4, <1>5, <1>6, <1>7, <1>8, <1>9, <1>10,
            <1>11, <1>12, <1>13 DEF Next

\* The invariant of the connection holds whatever the server sends.
THEOREM ConnectionCorrect == Spec => []ConnectionInv
BY ConnectionInit, ConnectionStep, PTL DEF Spec

\* Type correctness.
THEOREM TypeCorrect == Spec => []TypeOK
<1>1. ConnectionInv => TypeOK
  BY DEF ConnectionInv
<1>. QED BY <1>1, ConnectionCorrect, PTL

\* A user's disconnection holds: no reconnection is armed, no live connection
\* is kept, and one that is being set up will be closed.
THEOREM ManualKept == Spec => []ManualHolds
<1>1. ConnectionInv => ManualHolds
  BY DEF ConnectionInv
<1>. QED BY <1>1, ConnectionCorrect, PTL

\* A playback keeps the client offline.
THEOREM PlaybackKeepsOffline == Spec => []PlaybackOffline
<1>1. ConnectionInv => PlaybackOffline
  BY DEF ConnectionInv
<1>. QED BY <1>1, ConnectionCorrect, PTL

\* Automatic reconnection is never left without a timer.
THEOREM RetryKept == Spec => []RetryPending
<1>1. ConnectionInv => RetryPending
  BY DEF ConnectionInv
<1>. QED BY <1>1, ConnectionCorrect, PTL

\* The window claims a connection only after a handshake on a live one.
THEOREM ClaimKept == Spec => []ClaimJustified
<1>1. ConnectionInv => ClaimJustified
  BY DEF ConnectionInv
<1>. QED BY <1>1, ConnectionCorrect, PTL
-----------------------------------------------------------------------------
(* The view.                                                               *)

\* A snapshot is handled only on a live connection whose session is known by
\* then.
SnapshotInv ==
  /\ \A i \in 1 .. Len(batch) : batch[i].kind = "snapshot" =>
       /\ sock = "connected"
       /\ \A j \in 1 .. i - 1 : batch[j].kind \notin {"fatal", "foreignHello"}
       /\ \/ sessionId # None
          \/ \E j \in 1 .. i - 1 : batch[j].kind = "hello"
  /\ sock = "connected" /\ peer.said = "greeted" =>
       \/ sessionId # None
       \/ \E j \in 1 .. Len(batch) : batch[j].kind = "hello"

ViewInv == SnapshotInv /\ SessionPurity

LEMMA ViewInit == Init => ViewInv
BY DEF Init, ViewInv, SnapshotInv, SessionPurity

LEMMA ViewStep ==
  ASSUME ~Lenient
  PROVE  ConnectionInv /\ ViewInv /\ [Next]_vars => ViewInv'
<1> SUFFICES ASSUME ConnectionInv, ViewInv, [Next]_vars PROVE ViewInv'
  OBVIOUS
<1>a. TypeOK /\ HandoverInv /\ HelloInv
  BY DEF ConnectionInv
<1> USE <1>a DEF ViewInv, SessionPurity
<1> DEFINE Pure == SessionPurity'
<1>1. CASE Connected
  <2>1. batch' = <<>> /\ peer'.said = "nothing"
    BY <1>1 DEF Connected
  <2>2. SnapshotInv'
    BY <2>1 DEF SnapshotInv
  <2>3. Pure
    BY <1>1 DEF Connected, HelloInv, TypeOK
  <2>. QED BY <2>2, <2>3
<1>2. CASE ConnectFails
  <2>1. SnapshotInv'
    BY <1>2 DEF ConnectFails, SnapshotInv
  <2>2. Pure
    BY <1>2 DEF ConnectFails, HelloInv, TypeOK
  <2>. QED BY <2>1, <2>2
<1>3. CASE PeerCloses \/ OutputFlushed \/ BadFrame \/ Watchdog
  <2> USE DEF PeerCloses, OutputFlushed, BadFrame, Watchdog, DropConnection,
              Disconnected
  <2>1. SnapshotInv'
    BY <1>3 DEF SnapshotInv
  <2>2. Pure
    BY <1>3 DEF TypeOK
  <2>. QED BY <2>1, <2>2
<1>4. CASE ReadyRead
  <2>1. /\ sock = "connected"
        /\ batch = <<>>
        /\ UNCHANGED <<sock, sessionId, active, shown, trail, pc>>
    BY <1>4 DEF ReadyRead
  <2>2. Pure
    BY <2>1
  <2>3. sessionId = None => peer.said # "greeted"
    BY <2>1 DEF SnapshotInv
  <2>4. PICK e \in Envelope :
          /\ Legal(peer, e)
          /\ \/ batch' = <<e>> /\ peer' = Says(peer, e)
             \/ \E f \in Envelope : /\ Legal(Says(peer, e), f)
                                   /\ batch' = <<e, f>>
                                   /\ peer' = Says(Says(peer, e), f)
    BY <1>4, ReadCases
  <2>5. /\ e.kind = "snapshot" => sessionId # None
        /\ sessionId = None /\ Says(peer, e).said = "greeted" => e.kind = "hello"
    BY <2>3, <2>4 DEF Legal, Says
  <2>6. CASE batch' = <<e>> /\ peer' = Says(peer, e)
    BY <2>1, <2>5, <2>6 DEF SnapshotInv
  <2>7. ASSUME NEW f \in Envelope, Legal(Says(peer, e), f), batch' = <<e, f>>,
               peer' = Says(Says(peer, e), f)
        PROVE  SnapshotInv'
    <3>1. f.kind = "snapshot" => /\ sessionId # None \/ e.kind = "hello"
                                 /\ e.kind \notin {"fatal", "foreignHello"}
      BY <2>5, <2>7 DEF Legal, Says
    <3>2. sessionId = None /\ peer'.said = "greeted" =>
            e.kind = "hello" \/ f.kind = "hello"
      BY <2>5, <2>7 DEF Says
    <3>3. Len(batch') = 2 /\ batch'[1] = e /\ batch'[2] = f
      BY <2>7
    <3>. QED BY <2>1, <2>5, <3>1, <3>2, <3>3 DEF SnapshotInv
  <2>. QED BY <2>2, <2>4, <2>6, <2>7
<1>5. CASE HandleEnvelope
  <2> DEFINE e == Head(batch)
  <2>1. /\ batch # <<>>
        /\ batch' = Tail(batch)
        /\ UNCHANGED <<peer, active, pc>>
    BY <1>5 DEF HandleEnvelope
  <2>2. batch \in Seq(Envelope)
    BY DEF TypeOK
  <2>3. /\ e = batch[1]
        /\ e \in Envelope
        /\ Len(batch') = Len(batch) - 1
        /\ Len(batch) \in Nat
        /\ Len(batch) > 0
        /\ \A i \in 1 .. Len(batch) - 1 : batch'[i] = batch[i + 1]
    BY <2>1, <2>2, TailFacts
  <2>4. e.session \in Sessions
    BY <2>3 DEF Envelope
  <2>5. pc = "idle"
    BY <2>1 DEF HandoverInv
  <2>6. ASSUME sock' = sock, sessionId' # None \/ (sessionId' = sessionId /\ e.kind # "hello")
        PROVE  SnapshotInv'
    <3>1. \A i \in 1 .. Len(batch') : batch'[i].kind = "snapshot" =>
            /\ sock' = "connected"
            /\ \A j \in 1 .. i - 1 :
                 batch'[j].kind \notin {"fatal", "foreignHello"}
      <4>1. ASSUME NEW i \in 1 .. Len(batch'), batch'[i].kind = "snapshot"
            PROVE  /\ sock' = "connected"
                   /\ \A j \in 1 .. i - 1 :
                        batch'[j].kind \notin {"fatal", "foreignHello"}
        <5>1. i + 1 \in 1 .. Len(batch) /\ batch[i + 1].kind = "snapshot"
          BY <2>3, <4>1
        <5>2. /\ sock = "connected"
              /\ \A j \in 1 .. i : batch[j].kind \notin {"fatal", "foreignHello"}
          BY <5>1 DEF SnapshotInv
        <5>3. \A j \in 1 .. i - 1 : batch'[j] = batch[j + 1] /\ j + 1 \in 1 .. i
          BY <2>3
        <5>. QED BY <2>6, <5>2, <5>3
      <4>. QED BY <4>1
    <3>2. CASE sessionId' # None
      BY <3>1, <3>2 DEF SnapshotInv
    <3>3. CASE sessionId' = None /\ sessionId' = sessionId /\ e.kind # "hello"
      <4>1. \A i \in 1 .. Len(batch) : batch[i].kind = "hello" =>
              i - 1 \in 1 .. Len(batch') /\ batch'[i - 1].kind = "hello"
        BY <2>3, <3>3
      <4>2. ASSUME NEW i \in 1 .. Len(batch'), batch'[i].kind = "snapshot"
            PROVE  \E j \in 1 .. i - 1 : batch'[j].kind = "hello"
        <5>1. i + 1 \in 1 .. Len(batch) /\ batch[i + 1].kind = "snapshot"
          BY <2>3, <4>2
        <5>2. PICK j \in 1 .. i : batch[j].kind = "hello"
          BY <3>3, <5>1 DEF SnapshotInv
        <5>3. j \in 1 .. Len(batch)
          BY <2>3, <5>1
        <5>. QED BY <4>1, <5>2, <5>3
      <4>3. sock' = "connected" /\ peer'.said = "greeted" =>
              \E j \in 1 .. Len(batch') : batch'[j].kind = "hello"
        BY <2>1, <2>6, <3>3, <4>1 DEF SnapshotInv
      <4>. QED BY <3>1, <4>2, <4>3 DEF SnapshotInv
    <3>. QED BY <2>6, <3>2, <3>3
  <2>7. CASE e.kind = "hello" /\ HandleHello(e)
    <3>1. SnapshotInv'
      BY <2>4, <2>6, <2>7 DEF HandleHello
    <3>2. sock = "connected"
      BY <2>3, <2>7 DEF HelloInv
    <3>3. Pure
      BY <2>1, <2>4, <2>5, <2>7, <3>2 DEF HandleHello, TypeOK
    <3>. QED BY <3>1, <3>3
  <2>8. CASE e.kind = "snapshot" /\ HandleSnapshot(e)
    <3>1. sock = "connected" /\ sessionId # None
      BY <2>3, <2>8 DEF SnapshotInv
    <3>2. sessionId' = e.session
      BY <2>8, <3>1 DEF HandleSnapshot
    <3>3. SnapshotInv'
      BY <2>4, <2>6, <2>8, <3>2 DEF HandleSnapshot
    <3>4. CASE active = "remote"
      <4>1. trail \subseteq {shown} /\ shown \in {None, sessionId}
        BY <2>5, <3>4
      <4>2. shown' = e.session /\ trail' \subseteq {e.session}
        BY <2>8, <3>1, <3>4, <4>1, <2>4 DEF HandleSnapshot, Replace, TypeOK
      <4>. QED BY <2>1, <2>5, <2>8, <3>1, <3>2, <3>3, <3>4, <4>2 DEF HandleSnapshot
    <3>5. CASE active # "remote"
      BY <2>1, <2>8, <3>3, <3>5 DEF HandleSnapshot, Replace
    <3>. QED BY <3>4, <3>5
  <2>9. CASE e.kind \in {"foreignHello", "fatal"} /\ DisconnectFromHost
    <3> USE DEF DisconnectFromHost, DropConnection, Disconnected
    <3>1. \A i \in 1 .. Len(batch') : batch'[i].kind # "snapshot"
      BY <2>3, <2>9 DEF SnapshotInv
    <3>2. sock' # "connected" \/ (sock' = sock /\ sock # "connected")
      BY <2>9
    <3>3. SnapshotInv'
      BY <3>1, <3>2 DEF SnapshotInv
    <3>4. Pure
      BY <2>1, <2>9 DEF TypeOK
    <3>. QED BY <3>3, <3>4
  <2>10. CASE /\ e.kind = "other"
              /\ UNCHANGED <<sock, timers, retry, sessionId, ui, shown, trail>>
    BY <2>1, <2>6, <2>10
  <2>. QED BY <1>5, <2>7, <2>8, <2>9, <2>10 DEF HandleEnvelope
<1>6. CASE Elapse \/ SingleShot
  BY <1>6 DEF Elapse, SingleShot, SnapshotInv
<1>7. CASE ReconnectFires
  <2>1. SnapshotInv'
    BY <1>7 DEF ReconnectFires, SnapshotInv
  <2>2. Pure
    BY <1>7 DEF ReconnectFires, HelloInv, TypeOK
  <2>. QED BY <2>1, <2>2
<1>8. CASE ConnectAtStart \/ FinishRemote
  <2> USE DEF ConnectAtStart, FinishRemote, ConnectToServer
  <2>1. batch' = <<>> /\ sock' = "connecting"
    BY <1>8 DEF HandoverInv
  <2>2. SnapshotInv'
    BY <2>1 DEF SnapshotInv
  <2>3. Pure
    BY <1>8 DEF HandoverInv
  <2>. QED BY <2>2, <2>3
<1>9. CASE SwitchToRemote \/ SwitchToBag
  BY <1>9 DEF SwitchToRemote, SwitchToBag, SnapshotInv
<1>10. CASE MenuDisconnect \/ FinishBag
  <2> USE DEF MenuDisconnect, FinishBag, DisconnectFromServer, Disconnected
  <2>1. batch' = <<>> /\ sock' # "connected"
    BY <1>10 DEF HandoverInv, TypeOK
  <2>2. SnapshotInv'
    BY <2>1 DEF SnapshotInv
  <2>3. Pure
    BY <1>10 DEF HandoverInv, HelloInv, TypeOK
  <2>. QED BY <2>2, <2>3
<1>11. CASE ClearHistoryTrail \/ WorkerWrites
  <2>1. SnapshotInv'
    BY <1>11 DEF ClearHistoryTrail, WorkerWrites, SnapshotInv
  <2>2. Pure
    BY <1>11 DEF ClearHistoryTrail, WorkerWrites, Replace, TypeOK
  <2>. QED BY <2>1, <2>2
<1>12. CASE UNCHANGED vars
  BY <1>12 DEF vars, SnapshotInv
<1>. QED BY <1>1, <1>2, <1>3, <1>4, <1>5, <1>6, <1>7, <1>8, <1>9, <1>10,
            <1>11, <1>12 DEF Next

\* The view and the history trail never mix sessions, nor a session with the
\* bag, if servers end their streams with a fatal error.
THEOREM ViewCorrect ==
  ASSUME ~Lenient
  PROVE  Spec => []SessionPurity
<1>1. ConnectionInv /\ ViewInv /\ [Next]_vars => (ConnectionInv /\ ViewInv)'
  BY ConnectionStep, ViewStep
<1>2. Init => ConnectionInv /\ ViewInv
  BY ConnectionInit, ViewInit
<1>3. ConnectionInv /\ ViewInv => SessionPurity
  BY DEF ViewInv
<1>. QED BY <1>1, <1>2, <1>3, PTL DEF Spec

\* What the socket's events write while a bag is the active source is dropped
\* by DataManager, and the handover ends with an empty view.
LEMMA PlaybackPurityStep == ConnectionInv /\ PlaybackPurity /\ [Next]_vars => PlaybackPurity'
<1> SUFFICES ASSUME ConnectionInv, PlaybackPurity, [Next]_vars PROVE PlaybackPurity'
  OBVIOUS
<1> USE DEF PlaybackPurity
<1>a. TypeOK /\ HandoverInv
  BY DEF ConnectionInv
<1>1. CASE Connected \/ ConnectFails \/ ReadyRead \/ Elapse \/ SingleShot \/ ReconnectFires
  BY <1>1 DEF Connected, ConnectFails, ReadyRead, Elapse, SingleShot, ReconnectFires
<1>2. CASE PeerCloses \/ OutputFlushed \/ BadFrame \/ Watchdog
  BY <1>2 DEF PeerCloses, OutputFlushed, BadFrame, Watchdog, DropConnection
<1>3. CASE HandleEnvelope
  <2>1. UNCHANGED <<active, pc>>
    BY <1>3 DEF HandleEnvelope
  <2>2. active = Bag => UNCHANGED <<shown, trail>>
    BY <1>3 DEF HandleEnvelope, HandleHello, HandleSnapshot, DisconnectFromHost,
                DropConnection, Replace
  <2>. QED BY <2>1, <2>2
<1>4. CASE ConnectAtStart \/ SwitchToRemote \/ FinishRemote
  BY <1>4, <1>a DEF ConnectAtStart, SwitchToRemote, FinishRemote, HandoverInv
<1>5. CASE MenuDisconnect \/ SwitchToBag
  BY <1>5 DEF MenuDisconnect, SwitchToBag
<1>6. CASE FinishBag
  BY <1>6, <1>a DEF FinishBag, HandoverInv
<1>7. CASE ClearHistoryTrail \/ WorkerWrites
  BY <1>7 DEF ClearHistoryTrail, WorkerWrites, Replace
<1>8. CASE UNCHANGED vars
  BY <1>8 DEF vars
<1>. QED BY <1>1, <1>2, <1>3, <1>4, <1>5, <1>6, <1>7, <1>8 DEF Next

\* While a bag is played, nothing of a server is in the view or in the trail,
\* whatever a server sends and however late its connection ends.
THEOREM PlaybackCorrect == Spec => []PlaybackPurity
<1>1. Init => PlaybackPurity
  BY DEF Init, PlaybackPurity
<1>. QED BY <1>1, ConnectionCorrect, PlaybackPurityStep, PTL DEF Spec
=============================================================================
