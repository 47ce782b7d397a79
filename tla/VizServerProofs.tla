--------------------------- MODULE VizServerProofs --------------------------
(***************************************************************************)
(* Theorems about VizServer for every number of connections, every limit   *)
(* of clients and every bound of the model.                                *)
(***************************************************************************)
EXTENDS VizServer, FiniteSetTheorems, SequenceTheorems, TLAPS

USE ConstantsAssumption
-----------------------------------------------------------------------------
(* One client's stream: its queue q, what its peer received g, whether it  *)
(* completed the handshake r, and the newest snapshot hi.                  *)

OneWaiting(q) == \A i, j \in PendingSnapshots(q) : i = j

HelloBefore(q, greeted) ==
  \A i \in 1 .. Len(q) : q[i].kind \in {"snapshot", "beat"} /\ ~greeted
    => \E j \in 1 .. i - 1 : q[j].kind = "hello"

HelloSent(q, greeted) ==
  greeted \/ \E i \in 1 .. Len(q) : q[i].kind = "hello"

Ordered(q, snap, hi) ==
  /\ snap <= hi
  /\ \A i \in 1 .. Len(q) : q[i].kind = "snapshot" =>
       /\ 1 <= q[i].seq
       /\ snap <= q[i].seq
       /\ q[i].seq <= hi
       /\ \A j \in i + 1 .. Len(q) :
            q[j].kind = "snapshot" => q[i].seq <= q[j].seq

Fresh(q, snap, hi) ==
  hi \notin Oversized \cup {0} => snap = hi \/ \E i \in 1 .. Len(q) : q[i] = Snapshot(hi)

Fits(q) == \A i \in 1 .. Len(q) : Encodes(q[i])

ReadyOnly(q, r) == ~r => \A i \in 1 .. Len(q) : q[i].kind # "snapshot"

StreamInv(q, g, r, hi) ==
  /\ OneWaiting(q)
  /\ HelloBefore(q, g.greeted)
  /\ Ordered(q, g.snap, hi)
  /\ r => HelloSent(q, g.greeted)
  /\ ReadyOnly(q, r)
  /\ Fits(q)

Peer == [greeted : BOOLEAN, snap : Nat]
-----------------------------------------------------------------------------
(* What Enqueue does to a queue.                                           *)

\* A frame that encodes is either appended or, if it is a snapshot, overwrites
\* the only waiting snapshot; any other is dropped.
LEMMA EnqueueCases ==
  ASSUME NEW q \in Seq(Frame), NEW f \in Frame, OneWaiting(q)
  PROVE  \/ ~Encodes(f) /\ Enqueue(q, f) = q
         \/ /\ Encodes(f)
            /\ Enqueue(q, f) = Append(q, f)
            /\ f.kind # "snapshot" \/ PendingSnapshots(q) = {}
         \/ \E i \in PendingSnapshots(q) :
              /\ Encodes(f)
              /\ Enqueue(q, f) = [q EXCEPT ![i] = f]
              /\ f.kind = "snapshot"
<1>1. CASE Encodes(f) /\ f.kind = "snapshot" /\ PendingSnapshots(q) # {}
  <2>1. PICK i \in PendingSnapshots(q) : TRUE
    BY <1>1
  <2>2. \A j \in PendingSnapshots(q) : i <= j
    BY <2>1 DEF OneWaiting, PendingSnapshots
  <2> DEFINE first == CHOOSE k \in PendingSnapshots(q) :
                        \A j \in PendingSnapshots(q) : k <= j
  <2>3. first \in PendingSnapshots(q)
    BY <2>1, <2>2
  <2>4. Enqueue(q, f) = [q EXCEPT ![first] = f]
    BY <1>1 DEF Enqueue
  <2>. QED BY <1>1, <2>3, <2>4
<1>2. CASE Encodes(f) /\ ~(f.kind = "snapshot" /\ PendingSnapshots(q) # {})
  BY <1>2 DEF Enqueue
<1>3. CASE ~Encodes(f)
  BY <1>3 DEF Enqueue
<1>. QED BY <1>1, <1>2, <1>3

\* The result is a queue of frames.
LEMMA EnqueueType ==
  ASSUME NEW q \in Seq(Frame), NEW f \in Frame
  PROVE  Enqueue(q, f) \in Seq(Frame)
<1> DEFINE first == CHOOSE k \in PendingSnapshots(q) :
                      \A j \in PendingSnapshots(q) : k <= j
<1>1. Append(q, f) \in Seq(Frame)
  OBVIOUS
<1>2. [q EXCEPT ![first] = f] \in Seq(Frame)
  <2>1. q \in [1 .. Len(q) -> Frame] /\ Len(q) \in Nat
    BY LenProperties
  <2>2. [q EXCEPT ![first] = f] \in [1 .. Len(q) -> Frame]
    BY <2>1
  <2>. QED BY <2>1, <2>2, SeqDef
<1>3. Enqueue(q, f) \in {q, Append(q, f), [q EXCEPT ![first] = f]}
  BY DEF Enqueue
<1>. QED BY <1>1, <1>2, <1>3

\* Appending a frame that is not a snapshot preserves the stream's invariant;
\* a heartbeat needs the handshake.
LEMMA AppendPlain ==
  ASSUME NEW q \in Seq(Frame), NEW f \in Frame, NEW g \in Peer,
         NEW r \in BOOLEAN, NEW hi \in Nat,
         StreamInv(q, g, r, hi), f.kind # "snapshot", f.kind = "beat" => r
  PROVE  /\ StreamInv(Enqueue(q, f), g, r, hi)
         /\ Fresh(q, g.snap, hi) => Fresh(Enqueue(q, f), g.snap, hi)
         /\ f.kind = "hello" => HelloSent(Enqueue(q, f), g.greeted)
<1> DEFINE p == Append(q, f)
<1>1. Encodes(f) /\ Enqueue(q, f) = p
  BY DEF Enqueue, Encodes
<1>2. /\ p \in Seq(Frame)
      /\ Len(p) = Len(q) + 1
      /\ Len(q) \in Nat
      /\ \A i \in 1 .. Len(q) : p[i] = q[i]
      /\ p[Len(q) + 1] = f
  OBVIOUS
<1>3. OneWaiting(p)
  BY <1>2 DEF StreamInv, OneWaiting, PendingSnapshots
<1>4. r => HelloSent(p, g.greeted)
  BY <1>2 DEF StreamInv, HelloSent
<1>5. HelloBefore(p, g.greeted)
  BY <1>2 DEF StreamInv, HelloBefore, HelloSent
<1>6. Ordered(p, g.snap, hi)
  BY <1>2 DEF StreamInv, Ordered
<1>7. Fresh(q, g.snap, hi) => Fresh(p, g.snap, hi)
  BY <1>2 DEF Fresh
<1>8. f.kind = "hello" => HelloSent(p, g.greeted)
  BY <1>2 DEF HelloSent
<1>9. ReadyOnly(p, r)
  BY <1>2 DEF StreamInv, ReadyOnly
<1>10. Fits(p)
  BY <1>1, <1>2 DEF StreamInv, Fits
<1>. QED BY <1>1, <1>3, <1>4, <1>5, <1>6, <1>7, <1>8, <1>9, <1>10 DEF StreamInv
\* Queueing the next snapshot s, or the newest one again, preserves the
\* stream's invariant and leaves s in the queue, if it fits a frame.
LEMMA EnqueueSnapshot ==
  ASSUME NEW q \in Seq(Frame), NEW g \in Peer, NEW r \in BOOLEAN,
         NEW hi \in Nat, NEW s \in Nat \ {0}, hi <= s,
         StreamInv(q, g, r, hi), r
  PROVE  /\ StreamInv(Enqueue(q, Snapshot(s)), g, r, s)
         /\ Fresh(Enqueue(q, Snapshot(s)), g.snap, s)
<1> DEFINE f == Snapshot(s)
           p == Enqueue(q, f)
<1>1. f \in Frame /\ f.kind = "snapshot" /\ f.seq = s
  BY DEF Snapshot, Frame, Kind
<1>2. q \in [1 .. Len(q) -> Frame] /\ Len(q) \in Nat
  BY LenProperties
<1>a. \A i \in 1 .. Len(q) : q[i].seq \in Nat
  BY <1>2 DEF Frame
<1>b. g.snap \in Nat
  BY DEF Peer
<1>3. CASE Encodes(f) /\ p = Append(q, f) /\ PendingSnapshots(q) = {}
  <2>1. /\ p \in Seq(Frame)
        /\ Len(p) = Len(q) + 1
        /\ \A i \in 1 .. Len(q) : p[i] = q[i]
        /\ p[Len(q) + 1] = f
    BY <1>1, <1>2, <1>3
  <2>2. OneWaiting(p)
    BY <1>1, <1>2, <1>3, <2>1 DEF OneWaiting, PendingSnapshots
  <2>3. HelloBefore(p, g.greeted)
    BY SMTT(20), <1>1, <1>2, <2>1 DEF StreamInv, HelloBefore, HelloSent
  <2>4. Ordered(p, g.snap, s)
    BY SMTT(20), <1>1, <1>2, <1>a, <1>b, <2>1 DEF StreamInv, Ordered
  <2>5. HelloSent(p, g.greeted)
    BY <1>2, <2>1 DEF StreamInv, HelloSent
  <2>6. Fresh(p, g.snap, s)
    BY <1>2, <2>1 DEF Fresh
  <2>7. Fits(p)
    BY <1>2, <1>3, <2>1 DEF StreamInv, Fits
  <2>. QED BY <2>2, <2>3, <2>4, <2>5, <2>6, <2>7 DEF StreamInv, ReadyOnly
<1>4. ASSUME NEW k \in PendingSnapshots(q), Encodes(f), p = [q EXCEPT ![k] = f]
      PROVE  StreamInv(p, g, r, s) /\ Fresh(p, g.snap, s)
  <2>1. k \in 2 .. Len(q) /\ q[k].kind = "snapshot"
    BY DEF PendingSnapshots
  <2>2. /\ p \in Seq(Frame)
        /\ Len(p) = Len(q)
        /\ \A i \in 1 .. Len(q) : p[i] = IF i = k THEN f ELSE q[i]
    BY <1>1, <1>2, <1>4, <2>1, ExceptSeq
  <2>3. OneWaiting(p)
    BY <1>1, <1>2, <2>1, <2>2 DEF StreamInv, OneWaiting, PendingSnapshots
  <2>4. HelloBefore(p, g.greeted)
    <3>1. \A i \in 1 .. Len(q) :
            /\ p[i].kind = q[i].kind
            /\ \A j \in 1 .. i - 1 : j \in 1 .. Len(q)
      BY <1>1, <1>2, <2>1, <2>2
    <3>2. HelloBefore(q, g.greeted)
      BY DEF StreamInv
    <3>3. ASSUME NEW i \in 1 .. Len(p), p[i].kind \in {"snapshot", "beat"}, ~g.greeted
          PROVE  \E j \in 1 .. i - 1 : p[j].kind = "hello"
      <4>1. i \in 1 .. Len(q) /\ q[i].kind \in {"snapshot", "beat"}
        BY <2>2, <3>1, <3>3
      <4>2. PICK j \in 1 .. i - 1 : q[j].kind = "hello"
        BY <3>2, <3>3, <4>1 DEF HelloBefore
      <4>. QED BY <3>1, <4>1, <4>2
    <3>. QED BY <3>3 DEF HelloBefore
  <2>5. Ordered(p, g.snap, s)
    <3>1. \A j \in k + 1 .. Len(q) : q[j].kind # "snapshot"
      BY <1>2, <2>1 DEF StreamInv, OneWaiting, PendingSnapshots
    <3>2. g.snap <= s
      BY <1>b DEF StreamInv, Ordered
    <3>3. ASSUME NEW i \in 1 .. Len(p), p[i].kind = "snapshot", i # k
          PROVE  /\ 1 <= p[i].seq
                 /\ g.snap <= p[i].seq
                 /\ p[i].seq <= s
                 /\ \A j \in i + 1 .. Len(p) :
                      p[j].kind = "snapshot" => p[i].seq <= p[j].seq
      <4>1. p[i] = q[i] /\ i \in 1 .. Len(q)
        BY <2>2, <3>3
      <4>2. 1 <= q[i].seq /\ g.snap <= q[i].seq /\ q[i].seq <= hi
        BY <3>3, <4>1 DEF StreamInv, Ordered
      <4>3. q[i].seq <= s
        BY <1>a, <4>1, <4>2
      <4>4. ASSUME NEW j \in i + 1 .. Len(p), p[j].kind = "snapshot"
            PROVE  p[i].seq <= p[j].seq
        <5>1. CASE j = k
          BY <1>1, <2>1, <2>2, <4>1, <4>3, <5>1
        <5>2. CASE j # k
          BY <1>2, <2>2, <3>3, <4>1, <4>4, <5>2 DEF StreamInv, Ordered
        <5>. QED BY <5>1, <5>2
      <4>. QED BY <4>1, <4>2, <4>3, <4>4
    <3>4. p[k] = f /\ k \in 1 .. Len(q)
      BY <1>2, <2>1, <2>2
    <3>5. 1 <= p[k].seq /\ g.snap <= p[k].seq /\ p[k].seq <= s
      BY <1>1, <3>2, <3>4
    <3>6. ASSUME NEW j \in k + 1 .. Len(p)
          PROVE  p[j].kind # "snapshot"
      <4>1. j \in 1 .. Len(q) /\ j # k
        BY <1>2, <2>1, <2>2
      <4>. QED BY <2>2, <3>1, <4>1
    <3>. QED BY <3>2, <3>3, <3>5, <3>6 DEF Ordered
  <2>6. HelloSent(p, g.greeted)
    BY <1>1, <1>2, <2>1, <2>2 DEF StreamInv, HelloSent
  <2>7. Fresh(p, g.snap, s)
    BY <1>2, <2>1, <2>2 DEF Fresh
  <2>8. Fits(p)
    BY <1>4, <2>2 DEF StreamInv, Fits
  <2>. QED BY <2>3, <2>4, <2>5, <2>6, <2>7, <2>8 DEF StreamInv, ReadyOnly
<1>5. CASE ~Encodes(f) /\ p = q
  <2>1. Ordered(q, g.snap, s)
    BY SMTT(20), <1>2, <1>a, <1>b DEF StreamInv, Ordered
  <2>2. s \in Oversized
    BY <1>1, <1>5 DEF Encodes
  <2>. QED BY <1>5, <2>1, <2>2 DEF StreamInv, ReadyOnly, Fresh
<1>. QED BY <1>1, <1>3, <1>4, <1>5, EnqueueCases DEF StreamInv

\* The write of the head hands it to the peer.
LEMMA WriteHead ==
  ASSUME NEW q \in Seq(Frame), q # <<>>, NEW g \in Peer, NEW r \in BOOLEAN,
         NEW hi \in Nat, StreamInv(q, g, r, hi)
  PROVE  /\ Received(g, Head(q)) \in Peer
         /\ StreamInv(Tail(q), Received(g, Head(q)), r, hi)
         /\ Fresh(q, g.snap, hi)
              => Fresh(Tail(q), Received(g, Head(q)).snap, hi)
<1> DEFINE p == Tail(q)
           h == Received(g, Head(q))
<1>1. /\ p \in Seq(Frame)
      /\ Len(p) = Len(q) - 1
      /\ Len(q) \in Nat \ {0}
      /\ \A i \in 1 .. Len(p) : p[i] = q[i + 1]
      /\ Head(q) = q[1]
      /\ \A i \in 1 .. Len(q) : q[i] \in Frame
  OBVIOUS
<1>2. /\ q[1] \in Frame
      /\ q[1].kind \in Kind /\ q[1].seq \in Nat
  BY <1>1 DEF Frame
<1>3. /\ h \in Peer
      /\ h.greeted <=> g.greeted \/ q[1].kind = "hello"
      /\ h.snap = IF q[1].kind = "snapshot" THEN q[1].seq ELSE g.snap
  BY <1>1, <1>2 DEF Received, Peer
<1>4. OneWaiting(p)
  <2> SUFFICES ASSUME NEW i \in PendingSnapshots(p), NEW j \in PendingSnapshots(p)
               PROVE  i = j
    BY DEF OneWaiting
  <2>1. i + 1 \in PendingSnapshots(q) /\ j + 1 \in PendingSnapshots(q)
    BY <1>1 DEF PendingSnapshots
  <2>2. i + 1 = j + 1
    BY <2>1 DEF StreamInv, OneWaiting
  <2>. QED BY <2>2, <1>1 DEF PendingSnapshots
<1>5. HelloBefore(p, h.greeted)
  <2> SUFFICES ASSUME NEW i \in 1 .. Len(p), p[i].kind \in {"snapshot", "beat"},
                      ~h.greeted
               PROVE  \E j \in 1 .. i - 1 : p[j].kind = "hello"
    BY DEF HelloBefore
  <2>1. /\ i + 1 \in 1 .. Len(q)
        /\ q[i + 1].kind \in {"snapshot", "beat"}
        /\ ~g.greeted
    BY <1>1, <1>3
  <2>2. PICK j \in 1 .. (i + 1) - 1 : q[j].kind = "hello"
    BY <2>1 DEF StreamInv, HelloBefore
  <2>3. j # 1
    BY <1>3, <2>2
  <2>4. j - 1 \in 1 .. i - 1 /\ p[j - 1] = q[j]
    <3>1. j - 1 \in 1 .. i - 1 /\ j - 1 \in 1 .. Len(p) /\ (j - 1) + 1 = j
      BY <1>1, <2>2, <2>3
    <3>. QED BY <1>1, <3>1
  <2>. QED BY <2>2, <2>4
<1>6. Ordered(p, h.snap, hi)
  <2>1. ASSUME NEW i \in 1 .. Len(p), p[i].kind = "snapshot"
        PROVE  /\ 1 <= p[i].seq
               /\ h.snap <= p[i].seq
               /\ p[i].seq <= hi
               /\ \A j \in i + 1 .. Len(p) :
                    p[j].kind = "snapshot" => p[i].seq <= p[j].seq
    <3>1. i + 1 \in 1 .. Len(q) /\ i + 1 \in 1 + 1 .. Len(q) /\ p[i] = q[i + 1]
      BY <1>1
    <3>2. 1 <= p[i].seq /\ g.snap <= p[i].seq /\ p[i].seq <= hi
      BY <2>1, <3>1 DEF StreamInv, Ordered
    <3>3. h.snap <= p[i].seq
      BY <1>1, <1>3, <2>1, <3>1, <3>2 DEF StreamInv, Ordered
    <3>4. ASSUME NEW j \in i + 1 .. Len(p), p[j].kind = "snapshot"
          PROVE  p[i].seq <= p[j].seq
      <4>1. j + 1 \in (i + 1) + 1 .. Len(q) /\ p[j] = q[j + 1]
        BY <1>1
      <4>. QED BY <2>1, <3>1, <3>4, <4>1 DEF StreamInv, Ordered
    <3>. QED BY <3>2, <3>3, <3>4
  <2>2. h.snap <= hi
    BY <1>1, <1>2, <1>3 DEF StreamInv, Ordered
  <2>. QED BY <2>1, <2>2 DEF Ordered
<1>7. r => HelloSent(p, h.greeted)
  <2> SUFFICES ASSUME r, ~h.greeted PROVE \E i \in 1 .. Len(p) : p[i].kind = "hello"
    BY DEF HelloSent
  <2>1. PICK i \in 1 .. Len(q) : q[i].kind = "hello"
    BY <1>3 DEF StreamInv, HelloSent
  <2>2. i # 1
    BY <1>3, <2>1
  <2>3. i - 1 \in 1 .. Len(p) /\ p[i - 1] = q[i]
    <3>1. i - 1 \in 1 .. Len(p) /\ (i - 1) + 1 = i
      BY <1>1, <2>2
    <3>. QED BY <1>1, <3>1
  <2>. QED BY <2>1, <2>3
<1>8. Fresh(q, g.snap, hi) => Fresh(p, h.snap, hi)
  <2> SUFFICES ASSUME Fresh(q, g.snap, hi), hi \notin Oversized \cup {0}, h.snap # hi
               PROVE  \E i \in 1 .. Len(p) : p[i] = Snapshot(hi)
    BY DEF Fresh
  <2>1. CASE g.snap = hi
    BY <1>1, <1>2, <1>3, <2>1 DEF StreamInv, Ordered
  <2>2. ASSUME NEW i \in 1 .. Len(q), q[i] = Snapshot(hi)
        PROVE  \E k \in 1 .. Len(p) : p[k] = Snapshot(hi)
    <3>1. i # 1
      BY <1>3, <2>2 DEF Snapshot
    <3>2. i - 1 \in 1 .. Len(p) /\ (i - 1) + 1 = i
      BY <1>1, <3>1
    <3>3. p[i - 1] = q[i]
      BY <1>1, <3>2
    <3>. QED BY <2>2, <3>2, <3>3
  <2>. QED BY <2>1, <2>2 DEF Fresh
<1>9. ReadyOnly(p, r)
  BY <1>1 DEF StreamInv, ReadyOnly
<1>10. Fits(p)
  <2>1. \A i \in 1 .. Len(p) : i + 1 \in 1 .. Len(q)
    BY <1>1
  <2>. QED BY <1>1, <2>1 DEF StreamInv, Fits
<1>. QED BY <1>3, <1>4, <1>5, <1>6, <1>7, <1>8, <1>9, <1>10 DEF StreamInv
-----------------------------------------------------------------------------
(* Type correctness.                                                       *)

LEMMA PlainFrames ==
  /\ \A k \in Kind : Plain(k) \in Frame
  /\ \A s \in Nat : Snapshot(s) \in Frame /\ Beat(s) \in Frame
BY DEF Plain, Snapshot, Beat, Frame, Kind

\* Sets of clients are finite, so their cardinality is a number.
LEMMA ClientsFinite ==
  ASSUME NEW S, S \subseteq Conn
  PROVE  IsFiniteSet(S) /\ Cardinality(S) \in Nat
BY FS_Subset, FS_CardinalityType DEF ConstantsAssumption

LEMMA CloseType ==
  ASSUME TypeOK, NEW S, CloseSessions(S)
  PROVE  /\ session' \in [Conn -> {"none", "open", "closed", "rejected"}]
         /\ clients' \subseteq Conn
         /\ clientCount' \in Nat
<1>1. clients' \subseteq Conn
  BY DEF TypeOK, CloseSessions
<1>2. clientCount' \in Nat
  BY <1>1, ClientsFinite DEF CloseSessions
<1>3. session' \in [Conn -> {"none", "open", "closed", "rejected"}]
  BY DEF TypeOK, CloseSessions
<1>. QED BY <1>1, <1>2, <1>3

\* The number of heartbeats of a tick, and their sequence numbers.
LEMMA BeatType ==
  ASSUME TypeOK
  PROVE  /\ BeatClients \subseteq clients
         /\ Cardinality(BeatClients) \in Nat
         /\ \A r \in Numberings(BeatClients) : \A c \in BeatClients :
              sequence + r[c] \in Nat
<1>1. BeatClients \subseteq clients
  BY DEF BeatClients
<1>2. Cardinality(BeatClients) \in Nat
  BY <1>1, ClientsFinite DEF TypeOK
<1>3. ASSUME NEW r \in Numberings(BeatClients), NEW c \in BeatClients
      PROVE  sequence + r[c] \in Nat
  <2>1. r[c] \in 1 .. Cardinality(BeatClients)
    BY <1>3 DEF Numberings
  <2>. QED BY <1>2, <2>1 DEF TypeOK
<1>. QED BY <1>1, <1>2, <1>3

LEMMA TypeStep == TypeOK /\ [Next]_vars => TypeOK'
<1> SUFFICES ASSUME TypeOK, [Next]_vars PROVE TypeOK'
  OBVIOUS
<1> USE PlainFrames
<1>1. ASSUME NEW c \in Conn, Accept(c) PROVE TypeOK'
  <2>1. clients' \subseteq Conn /\ clientCount' \in Nat
    BY <1>1, ClientsFinite DEF Accept, TypeOK, tableVars
  <2>2. session' \in [Conn -> {"none", "open", "closed", "rejected"}]
    BY <1>1 DEF Accept, TypeOK
  <2>. QED BY <1>1, <2>1, <2>2 DEF Accept, TypeOK, streamVars
<1>2. ASSUME NEW c \in Conn, WriteDone(c) PROVE TypeOK'
  <2>1. /\ session' \in [Conn -> {"none", "open", "closed", "rejected"}]
        /\ clients' \subseteq Conn
        /\ clientCount' \in Nat
    BY <1>2, CloseType DEF WriteDone, TypeOK, tableVars
  <2>2. queue[c] \in Seq(Frame) /\ queue[c] # <<>> /\ got[c] \in Peer
    BY <1>2 DEF WriteDone, TypeOK, Peer
  <2>3. Head(queue[c]) \in Frame /\ Tail(queue[c]) \in Seq(Frame)
    BY <2>2
  <2>4. Received(got[c], Head(queue[c])) \in Peer
    BY <2>2, <2>3 DEF Received, Peer, Frame
  <2>5. queue' \in [Conn -> Seq(Frame)] /\ got' \in [Conn -> Peer]
    BY <1>2, <2>3, <2>4 DEF WriteDone, TypeOK, Peer
  <2>. QED BY <1>2, <2>1, <2>5 DEF WriteDone, TypeOK, Peer, streamVars
<1>3. ASSUME NEW c \in Conn, SessionFails(c) PROVE TypeOK'
  BY <1>3, CloseType DEF SessionFails, TypeOK, streamVars
<1>4. ASSUME NEW c \in Conn, Elapse(c) PROVE TypeOK'
  BY <1>4 DEF Elapse, TypeOK, tableVars, streamVars
<1>5. ASSUME NEW c \in Conn, NEW es \in Reads, ReadDone(c, es) PROVE TypeOK'
  <2>1. es \in Seq(Msg)
    <3>1. ASSUME NEW k \in Msg, es = <<k>>
          PROVE  es \in Seq(Msg)
      BY <3>1
    <3>2. ASSUME NEW k \in Msg, NEW l \in Msg, es = <<k, l>>
          PROVE  es \in Seq(Msg)
      BY <3>2
    <3>. QED BY <3>1, <3>2 DEF Reads
  <2>2. batch' \in [1 .. Len(es) -> Conn \X Msg] /\ Len(es) \in Nat
    BY <1>5, <2>1 DEF ReadDone
  <2>3. batch' \in Seq(Conn \X Msg)
    BY <2>2, SeqDef
  <2>4. sends' \in [Conn -> Nat]
    BY <1>5, <2>2 DEF ReadDone, TypeOK
  <2>. QED BY <1>5, <2>3, <2>4 DEF ReadDone, TypeOK, tableVars, streamVars
<1>6. CASE HandleEnvelope
  <2> DEFINE c == Head(batch)[1]
             k == Head(batch)[2]
  <2>1. Head(batch) \in Conn \X Msg /\ batch' \in Seq(Conn \X Msg)
    BY <1>6 DEF HandleEnvelope, TypeOK
  <2>2. c \in Conn
    BY <2>1
  <2>3. CASE c \in clients
    <3>1. Dispatch(c, k) /\ silent' = [silent EXCEPT ![c] = FALSE]
      BY <1>6, <2>3 DEF HandleEnvelope
    <3>2. \/ HandleHello(c) \/ SendFatal(c) \/ SendError(c)
          \/ UNCHANGED <<ready, queue, closing>>
      BY <3>1 DEF Dispatch
    <3>3. Greeting(queue[c]) \in Seq(Frame)
      <4>1. Enqueue(queue[c], Plain("hello")) \in Seq(Frame)
        BY <2>2, EnqueueType DEF TypeOK, Kind
      <4>2. Enqueue(Enqueue(queue[c], Plain("hello")), Snapshot(latest)) \in Seq(Frame)
        BY <4>1, EnqueueType DEF TypeOK
      <4>. QED BY <4>1, <4>2 DEF Greeting
    <3>4. /\ Enqueue(queue[c], Plain("fatal")) \in Seq(Frame)
          /\ Enqueue(queue[c], Plain("error")) \in Seq(Frame)
      BY <2>2, EnqueueType DEF TypeOK, Kind
    <3>5. /\ ready' \in [Conn -> BOOLEAN]
          /\ closing' \in [Conn -> BOOLEAN]
          /\ queue' \in [Conn -> Seq(Frame)]
      <4> HIDE DEF c
      <4>1. CASE HandleHello(c)
        BY <3>3, <4>1 DEF HandleHello, TypeOK
      <4>2. CASE SendFatal(c)
        BY <3>4, <4>2 DEF SendFatal, TypeOK
      <4>3. CASE SendError(c)
        BY <3>4, <4>3 DEF SendError, TypeOK
      <4>4. CASE UNCHANGED <<ready, queue, closing>>
        BY <4>4 DEF TypeOK
      <4>. QED BY <3>2, <4>1, <4>2, <4>3, <4>4
    <3>6. silent' \in [Conn -> BOOLEAN]
      BY <3>1 DEF TypeOK
    <3>. QED BY <1>6, <2>1, <3>5, <3>6
             DEF HandleEnvelope, TypeOK, tableVars, streamVars
  <2>4. CASE c \notin clients
    BY <1>6, <2>1, <2>4 DEF HandleEnvelope, TypeOK, tableVars, streamVars
  <2>. QED BY <2>3, <2>4
<1>7. CASE PublishSnapshot
  <2>1. \A c \in Conn : Enqueue(queue[c], Snapshot(sequence + 1)) \in Seq(Frame)
    BY EnqueueType DEF TypeOK
  <2>2. queue' \in [Conn -> Seq(Frame)]
    BY <1>7, <2>1 DEF PublishSnapshot, TypeOK
  <2>. QED BY <1>7, <2>2 DEF PublishSnapshot, TypeOK, tableVars
<1>8. CASE HeartbeatTick
  <2>1. /\ session' \in [Conn -> {"none", "open", "closed", "rejected"}]
        /\ clients' \subseteq Conn
        /\ clientCount' \in Nat
    BY <1>8, CloseType DEF HeartbeatTick
  <2>2. PICK r \in Numberings(BeatClients) :
          queue' = [c \in Conn |-> IF c \in BeatClients
                                   THEN Enqueue(queue[c], Beat(sequence + r[c]))
                                   ELSE queue[c]]
    BY <1>8 DEF HeartbeatTick
  <2>3. \A c \in BeatClients : Enqueue(queue[c], Beat(sequence + r[c])) \in Seq(Frame)
    BY EnqueueType, BeatType DEF TypeOK
  <2>4. queue' \in [Conn -> Seq(Frame)]
    BY <2>2, <2>3 DEF TypeOK
  <2>5. sequence' \in Nat
    BY <1>8, BeatType DEF HeartbeatTick, TypeOK
  <2>. QED BY <1>8, <2>1, <2>4, <2>5 DEF HeartbeatTick, TypeOK
<1>9. CASE UNCHANGED vars
  BY <1>9 DEF vars, TypeOK
<1>. QED BY <1>1, <1>2, <1>3, <1>4, <1>5, <1>6, <1>7, <1>8, <1>9 DEF Next

\* Every variable keeps its type.
THEOREM TypeCorrect == Spec => []TypeOK
<1>1. Init => TypeOK
  BY DEF Init, TypeOK
<1>. QED BY <1>1, TypeStep, PTL DEF Spec
-----------------------------------------------------------------------------
(* The client table.                                                       *)

LEMMA CloseTable ==
  ASSUME TypeOK, ClientTable, NEW S \in SUBSET Conn, CloseSessions(S)
  PROVE  ClientTable'
<1>1. clients' = {c \in Conn : session'[c] = "open"}
  BY DEF TypeOK, ClientTable, CloseSessions
<1>2. clientCount' = Cardinality(clients')
  BY DEF CloseSessions
<1>3. Cardinality(clients') <= Cardinality(clients)
  BY FS_Subset, ClientsFinite DEF CloseSessions, TypeOK
<1>4. clientCount' <= MaxClients
  <2>1. clients' \subseteq Conn /\ clients \subseteq Conn
    BY DEF CloseSessions, TypeOK
  <2>2. Cardinality(clients') \in Nat /\ Cardinality(clients) \in Nat
    BY <2>1, ClientsFinite
  <2>. QED BY <1>2, <1>3, <2>2 DEF ClientTable, ConstantsAssumption
<1>. QED BY <1>1, <1>2, <1>4 DEF ClientTable

LEMMA TableStep == TypeOK /\ ClientTable /\ [Next]_vars => ClientTable'
<1> SUFFICES ASSUME TypeOK, ClientTable, [Next]_vars PROVE ClientTable'
  OBVIOUS
<1>1. ASSUME NEW c \in Conn, Accept(c) PROVE ClientTable'
  <2>1. CASE Cardinality(clients) < MaxClients
    <3>1. clients' = clients \cup {c} /\ c \notin clients
      BY <1>1, <2>1 DEF Accept, ClientTable
    <3>2. Cardinality(clients') = Cardinality(clients) + 1
      BY <3>1, ClientsFinite, FS_AddElement DEF TypeOK
    <3>3. clients' = {d \in Conn : session'[d] = "open"}
      BY <1>1, <2>1, <3>1 DEF Accept, ClientTable, TypeOK
    <3>4. clientCount' = Cardinality(clients') /\ Cardinality(clients) \in Nat
      BY <1>1, <2>1, ClientsFinite DEF Accept, TypeOK
    <3>. QED BY <2>1, <3>2, <3>3, <3>4 DEF ClientTable, ConstantsAssumption
  <2>2. CASE ~(Cardinality(clients) < MaxClients)
    BY <1>1, <2>2 DEF Accept, ClientTable, TypeOK, tableVars
  <2>. QED BY <2>1, <2>2
<1>2. ASSUME NEW c \in Conn, WriteDone(c) PROVE ClientTable'
  BY <1>2, CloseTable DEF WriteDone, ClientTable, tableVars
<1>3. ASSUME NEW c \in Conn, SessionFails(c) PROVE ClientTable'
  BY <1>3, CloseTable DEF SessionFails
<1>4. ASSUME NEW c \in Conn, Elapse(c) PROVE ClientTable'
  BY <1>4 DEF Elapse, ClientTable, tableVars
<1>5. ASSUME NEW c \in Conn, NEW es \in Reads, ReadDone(c, es) PROVE ClientTable'
  BY <1>5 DEF ReadDone, ClientTable, tableVars
<1>6. CASE HandleEnvelope
  BY <1>6 DEF HandleEnvelope, ClientTable, tableVars
<1>7. CASE PublishSnapshot
  BY <1>7 DEF PublishSnapshot, ClientTable, tableVars
<1>8. CASE HeartbeatTick
  <2>1. {c \in clients : silent[c]} \in SUBSET Conn
    BY DEF TypeOK
  <2>2. CloseSessions({c \in clients : silent[c]})
    BY <1>8 DEF HeartbeatTick
  <2>. QED BY <2>1, <2>2, CloseTable
<1>9. CASE UNCHANGED vars
  BY <1>9 DEF vars, ClientTable
<1>. QED BY <1>1, <1>2, <1>3, <1>4, <1>5, <1>6, <1>7, <1>8, <1>9 DEF Next

\* The client table is exactly the open sessions, within maxClients, and the
\* published count agrees with it.
THEOREM TableCorrect == Spec => []ClientTable
<1>1. Init => ClientTable
  BY FS_EmptySet DEF Init, ClientTable, ConstantsAssumption
<1>2. TypeOK /\ ClientTable /\ [Next]_vars => ClientTable'
  BY TableStep
<1>. QED BY <1>1, <1>2, TypeCorrect, PTL DEF Spec
-----------------------------------------------------------------------------
(* The streams of the clients.                                             *)

\* The inductive invariant: ClientTable and the stream properties are not
\* inductive alone; they need that a client counted as ready was greeted, that
\* only such a client has snapshots in its queue, and that no frame is newer
\* than the latest snapshot.
IInv ==
  /\ TypeOK
  /\ ClientTable
  /\ latest <= sequence
  /\ \A c \in Conn : StreamInv(queue[c], got[c], ready[c], latest)
  /\ \A c \in Conn : ready[c] => session[c] # "none"
  /\ \A c \in clients : ready[c] => Fresh(queue[c], got[c].snap, latest)

\* One client's part of the invariant.
ClientInv(c) ==
  /\ StreamInv(queue[c], got[c], ready[c], latest)
  /\ ready[c] => session[c] # "none"
  /\ c \in clients /\ ready[c] => Fresh(queue[c], got[c].snap, latest)

LEMMA ClientInvSame ==
  ASSUME IInv, NEW c \in Conn,
         queue'[c] = queue[c], got'[c] = got[c], ready'[c] = ready[c],
         latest' = latest,
         c \in clients' => c \in clients, session'[c] = "none" => session[c] = "none"
  PROVE  ClientInv(c)'
BY DEF IInv, ClientInv

LEMMA HelloStep ==
  ASSUME IInv, NEW c \in Conn, c \in clients, HandleHello(c),
         UNCHANGED <<got, latest, clients, session>>
  PROVE  ClientInv(c)'
<1> DEFINE q == queue[c]
           g == got[c]
           q1 == Enqueue(q, Plain("hello"))
<1>1. /\ q \in Seq(Frame) /\ g \in Peer /\ ready[c] \in BOOLEAN /\ latest \in Nat
      /\ StreamInv(q, g, ready[c], latest)
      /\ session[c] = "open"
  BY DEF IInv, TypeOK, Peer, ClientTable
<1>2. Plain("hello") \in Frame /\ Plain("hello").kind = "hello"
  BY PlainFrames DEF Plain, Kind
<1>3. q1 \in Seq(Frame)
  BY <1>1, <1>2, EnqueueType
<1>4. /\ StreamInv(q1, g, ready[c], latest)
      /\ HelloSent(q1, g.greeted)
  BY <1>1, <1>2, AppendPlain
<1>5. StreamInv(q1, g, TRUE, latest)
  BY <1>4 DEF StreamInv, ReadyOnly
<1>6. queue'[c] = Greeting(q) /\ ready'[c] = TRUE
  BY DEF HandleHello, IInv, TypeOK
<1>7. CASE latest = 0
  <2>1. Greeting(q) = q1
    BY <1>7 DEF Greeting
  <2>. QED BY <1>1, <1>5, <1>6, <1>7, <2>1 DEF ClientInv, Fresh
<1>8. CASE latest # 0
  <2>1. Greeting(q) = Enqueue(q1, Snapshot(latest))
    BY <1>8 DEF Greeting
  <2>2. /\ StreamInv(Greeting(q), g, TRUE, latest)
        /\ Fresh(Greeting(q), g.snap, latest)
    <3>1. latest \in Nat \ {0} /\ latest <= latest
      BY <1>1, <1>8
    <3>. QED BY <1>1, <1>3, <1>4, <1>5, <2>1, <3>1, EnqueueSnapshot
  <2>. QED BY <1>1, <1>6, <2>2 DEF ClientInv
<1>. QED BY <1>7, <1>8

\* An error frame, a fatal one or a heartbeat for client c.
LEMMA PlainStep ==
  ASSUME IInv, NEW c \in Conn, NEW f \in Frame,
         f.kind \in {"beat", "error", "fatal"}, f.kind = "beat" => ready[c],
         queue'[c] = Enqueue(queue[c], f), ready'[c] = ready[c],
         UNCHANGED <<got, latest>>, c \in clients' => c \in clients,
         session'[c] = "none" => session[c] = "none"
  PROVE  ClientInv(c)'
<1>1. /\ queue[c] \in Seq(Frame) /\ got[c] \in Peer /\ ready[c] \in BOOLEAN
      /\ latest \in Nat
      /\ ClientInv(c)
  BY DEF IInv, TypeOK, Peer, ClientInv
<1>2. /\ StreamInv(queue'[c], got[c], ready[c], latest)
      /\ Fresh(queue[c], got[c].snap, latest) => Fresh(queue'[c], got[c].snap, latest)
  BY <1>1, AppendPlain DEF ClientInv
<1>. QED BY <1>1, <1>2 DEF ClientInv
LEMMA StreamStep == IInv /\ [Next]_vars => (\A c \in Conn : ClientInv(c))'
<1> SUFFICES ASSUME IInv, [Next]_vars, NEW c \in Conn PROVE ClientInv(c)'
  OBVIOUS
<1>0. /\ TypeOK /\ ClientTable
      /\ queue[c] \in Seq(Frame) /\ got[c] \in Peer /\ ready[c] \in BOOLEAN
      /\ latest \in Nat /\ sequence \in Nat /\ latest <= sequence
      /\ ClientInv(c)
  BY DEF IInv, TypeOK, Peer, ClientInv
<1>1. ASSUME NEW d \in Conn, Accept(d) PROVE ClientInv(c)'
  <2>1. CASE c = d
    <3>1. ~ready[c]
      BY <1>0, <1>1, <2>1 DEF Accept, ClientInv
    <3>. QED BY <1>0, <1>1, <3>1 DEF Accept, ClientInv, streamVars
  <2>2. CASE c # d
    BY <1>0, <1>1, <2>2, ClientInvSame DEF Accept, TypeOK, tableVars, streamVars
  <2>. QED BY <2>1, <2>2
<1>2. ASSUME NEW d \in Conn, WriteDone(d) PROVE ClientInv(c)'
  <2>1. /\ clients' \subseteq clients
        /\ session'[c] = "none" => session[c] = "none"
    BY <1>0, <1>2 DEF WriteDone, CloseSessions, TypeOK, tableVars
  <2>2. CASE c = d
    <3>1. /\ queue[c] # <<>>
          /\ queue'[c] = Tail(queue[c])
          /\ got'[c] = Received(got[c], Head(queue[c]))
          /\ UNCHANGED <<ready, latest>>
      BY <1>0, <1>2, <2>2 DEF WriteDone, TypeOK, streamVars
    <3>2. /\ StreamInv(queue'[c], got'[c], ready[c], latest)
          /\ Fresh(queue[c], got[c].snap, latest)
               => Fresh(queue'[c], got'[c].snap, latest)
      BY <1>0, <3>1, WriteHead DEF ClientInv
    <3>. QED BY <1>0, <2>1, <3>1, <3>2 DEF ClientInv
  <2>3. CASE c # d
    BY <1>0, <1>2, <2>1, <2>3, ClientInvSame DEF WriteDone, TypeOK, streamVars
  <2>. QED BY <2>2, <2>3
<1>3. ASSUME NEW d \in Conn, SessionFails(d) PROVE ClientInv(c)'
  BY <1>0, <1>3, ClientInvSame DEF SessionFails, CloseSessions, TypeOK, streamVars
<1>4. ASSUME NEW d \in Conn, Elapse(d) PROVE ClientInv(c)'
  BY <1>4, ClientInvSame DEF Elapse, tableVars, streamVars
<1>5. ASSUME NEW d \in Conn, NEW es \in Reads, ReadDone(d, es) PROVE ClientInv(c)'
  BY <1>5, ClientInvSame DEF ReadDone, tableVars, streamVars
<1>6. CASE HandleEnvelope
  <2> DEFINE d == Head(batch)[1]
             k == Head(batch)[2]
  <2>1. d \in Conn
    BY SMTT(20), <1>0, <1>6 DEF HandleEnvelope, TypeOK
  <2>2. UNCHANGED <<clients, session, latest, got>>
    BY <1>6 DEF HandleEnvelope, tableVars, streamVars
  <2>3. CASE d \in clients
    <3>1. Dispatch(d, k)
      BY <1>6, <2>3 DEF HandleEnvelope
    <3> HIDE DEF d, k
    <3>2. CASE HandleHello(d)
      <4>1. CASE c = d
        BY <2>2, <2>3, <3>2, <4>1, HelloStep
      <4>2. CASE c # d
        BY <1>0, <2>2, <3>2, <4>2, ClientInvSame DEF HandleHello, TypeOK
      <4>. QED BY <4>1, <4>2
    <3>3. CASE SendFatal(d)
      <4>1. CASE c = d
        <5>1. /\ queue'[c] = Enqueue(queue[c], Plain("fatal"))
              /\ ready'[c] = ready[c]
          BY <1>0, <3>3, <4>1 DEF SendFatal, TypeOK
        <5>2. Plain("fatal") \in Frame /\ Plain("fatal").kind = "fatal"
          BY PlainFrames DEF Plain, Kind
        <5>. QED BY <2>2, <5>1, <5>2, PlainStep
      <4>2. CASE c # d
        BY <1>0, <2>2, <3>3, <4>2, ClientInvSame DEF SendFatal, TypeOK
      <4>. QED BY <4>1, <4>2
    <3>4. CASE SendError(d)
      <4>1. CASE c = d
        <5>1. /\ queue'[c] = Enqueue(queue[c], Plain("error"))
              /\ ready'[c] = ready[c]
          BY <1>0, <3>4, <4>1 DEF SendError, TypeOK
        <5>2. Plain("error") \in Frame /\ Plain("error").kind = "error"
          BY PlainFrames DEF Plain, Kind
        <5>. QED BY <2>2, <5>1, <5>2, PlainStep
      <4>2. CASE c # d
        BY <1>0, <2>2, <3>4, <4>2, ClientInvSame DEF SendError, TypeOK
      <4>. QED BY <4>1, <4>2
    <3>5. CASE UNCHANGED <<ready, queue, closing>>
      BY <2>2, <3>5, ClientInvSame
    <3>. QED BY <3>1, <3>2, <3>3, <3>4, <3>5 DEF Dispatch
  <2>4. CASE d \notin clients
    BY <1>6, <2>2, <2>4, ClientInvSame DEF HandleEnvelope
  <2>. QED BY <2>3, <2>4
<1>7. CASE PublishSnapshot
  <2> DEFINE s == sequence + 1
  <2>1. /\ s \in Nat \ {0} /\ latest <= s
        /\ latest' = s
        /\ UNCHANGED <<got, ready, clients, session>>
    BY <1>0, <1>7 DEF PublishSnapshot, tableVars
  <2>2. CASE c \in clients /\ ready[c]
    <3>1. queue'[c] = Enqueue(queue[c], Snapshot(s))
      BY <1>7, <2>2 DEF PublishSnapshot
    <3>2. /\ StreamInv(queue'[c], got[c], ready[c], s)
          /\ Fresh(queue'[c], got[c].snap, s)
      BY <1>0, <2>1, <2>2, <3>1, EnqueueSnapshot DEF ClientInv
    <3>. QED BY <1>0, <2>1, <3>2 DEF ClientInv
  <2>3. CASE ~(c \in clients /\ ready[c])
    <3>1. queue'[c] = queue[c]
      BY <1>7, <2>3 DEF PublishSnapshot
    <3>2. \A i \in 1 .. Len(queue[c]) : queue[c][i].seq \in Nat
      <4>1. queue[c] \in [1 .. Len(queue[c]) -> Frame]
        BY <1>0, LenProperties
      <4>. QED BY <4>1 DEF Frame
    <3>3. Ordered(queue[c], got[c].snap, s)
      BY <1>0, <2>1, <3>2 DEF ClientInv, StreamInv, Ordered, Peer
    <3>. QED BY <1>0, <2>1, <2>3, <3>1, <3>3 DEF ClientInv, StreamInv
  <2>. QED BY <2>2, <2>3
<1>8. CASE HeartbeatTick
  <2>1. PICK r \in Numberings(BeatClients) :
          queue' = [d \in Conn |-> IF d \in BeatClients
                                   THEN Enqueue(queue[d], Beat(sequence + r[d]))
                                   ELSE queue[d]]
    BY <1>8 DEF HeartbeatTick
  <2>2. /\ UNCHANGED <<got, ready, latest>>
        /\ clients' \subseteq clients
        /\ session'[c] = "none" => session[c] = "none"
    BY <1>0, <1>8 DEF HeartbeatTick, CloseSessions, TypeOK
  <2>3. CASE c \in BeatClients
    <3>1. sequence + r[c] \in Nat
      BY <1>0, <2>3, BeatType
    <3>2. /\ Beat(sequence + r[c]) \in Frame
          /\ Beat(sequence + r[c]).kind = "beat"
      BY <3>1, PlainFrames DEF Beat
    <3>3. ready[c] /\ queue'[c] = Enqueue(queue[c], Beat(sequence + r[c]))
      BY <2>1, <2>3 DEF BeatClients
    <3>. QED BY <2>2, <3>2, <3>3, PlainStep
  <2>4. CASE c \notin BeatClients
    BY <2>1, <2>2, <2>4, ClientInvSame
  <2>. QED BY <2>3, <2>4
<1>9. CASE UNCHANGED vars
  BY <1>9, ClientInvSame DEF vars
<1>. QED BY <1>1, <1>2, <1>3, <1>4, <1>5, <1>6, <1>7, <1>8, <1>9 DEF Next

LEMMA NumberStep == TypeOK /\ latest <= sequence /\ [Next]_vars => latest' <= sequence'
<1> SUFFICES ASSUME TypeOK, latest <= sequence, [Next]_vars
             PROVE  latest' <= sequence'
  OBVIOUS
<1>1. CASE PublishSnapshot
  BY <1>1 DEF PublishSnapshot, TypeOK
<1>2. CASE HeartbeatTick
  BY <1>2, BeatType DEF HeartbeatTick, TypeOK
<1>3. CASE UNCHANGED streamVars
  BY <1>3 DEF streamVars
<1>. QED BY <1>1, <1>2, <1>3
         DEF Next, vars, Accept, WriteDone, SessionFails, Elapse, ReadDone,
             HandleEnvelope, streamVars

LEMMA IInvInductive == IInv /\ [Next]_vars => IInv'
<1> SUFFICES ASSUME IInv, [Next]_vars PROVE IInv'
  OBVIOUS
<1>1. TypeOK' /\ ClientTable' /\ latest' <= sequence'
  BY TypeStep, TableStep, NumberStep DEF IInv
<1>2. \A c \in Conn : ClientInv(c)'
  BY StreamStep
<1>. QED BY <1>1, <1>2 DEF IInv, ClientInv, TypeOK

LEMMA IInvHolds == Spec => []IInv
<1>1. Init => IInv
  <2> SUFFICES ASSUME Init PROVE IInv
    OBVIOUS
  <2>1. TypeOK
    BY DEF Init, TypeOK
  <2>2. ClientTable
    BY FS_EmptySet DEF Init, ClientTable, ConstantsAssumption
  <2>3. ASSUME NEW c \in Conn
        PROVE  StreamInv(queue[c], got[c], ready[c], latest)
    <3>1. queue[c] = <<>> /\ got[c].snap = 0 /\ latest = 0 /\ ~ready[c]
      BY DEF Init
    <3>. QED BY <3>1 DEF StreamInv, OneWaiting, PendingSnapshots, HelloBefore, Ordered,
                     ReadyOnly, Fits
  <2>4. \A c \in Conn : ~ready[c]
    BY DEF Init
  <2>5. latest <= sequence /\ clients = {}
    BY DEF Init
  <2>. QED BY <2>1, <2>2, <2>3, <2>4, <2>5 DEF IInv
<1>. QED BY <1>1, IInvInductive, PTL DEF Spec

\* At most one snapshot waits behind the frame in flight of each client.
THEOREM NoBacklog == Spec => []NoSnapshotBacklog
<1>1. IInv => NoSnapshotBacklog
  BY DEF IInv, StreamInv, OneWaiting, NoSnapshotBacklog
<1>. QED BY <1>1, IInvHolds, PTL

\* ServerHello precedes every snapshot and heartbeat.
THEOREM HandshakeFirst == Spec => []HelloFirst
<1>1. IInv => HelloFirst
  BY DEF IInv, StreamInv, HelloBefore, HelloFirst
<1>. QED BY <1>1, IInvHolds, PTL

\* No client gets an older snapshot after a newer one.
THEOREM OrderKept == Spec => []SnapshotOrder
<1>1. IInv => SnapshotOrder
  BY DEF IInv, StreamInv, Ordered, SnapshotOrder
<1>. QED BY <1>1, IInvHolds, PTL

\* The newest snapshot was received or waits in the queue of every client that
\* completed the handshake.
THEOREM NewestKept == Spec => []NewestPending
<1>1. IInv => NewestPending
  BY DEF IInv, Fresh, NewestPending
<1>. QED BY <1>1, IInvHolds, PTL
-----------------------------------------------------------------------------
(* What a step does to one queue.                                          *)

\* No frame is lost, none moves, and the head is the same frame.
Kept(q, p) == FramesKept(q, p) /\ (q # <<>> => p # <<>> /\ Head(p) = Head(q))

LEMMA QueueFrames ==
  ASSUME NEW q \in Seq(Frame)
  PROVE  Len(q) \in Nat /\ \A i \in 1 .. Len(q) : q[i] \in Frame /\ q[i].seq \in Nat
<1>1. q \in [1 .. Len(q) -> Frame] /\ Len(q) \in Nat
  BY LenProperties
<1>. QED BY <1>1 DEF Frame

\* Enqueue keeps the frames of a queue, if a snapshot is not older than those
\* that wait.
LEMMA EnqueueKeeps ==
  ASSUME NEW q \in Seq(Frame), NEW f \in Frame, OneWaiting(q),
         f.kind = "snapshot" => \A i \in 1 .. Len(q) :
                                  q[i].kind = "snapshot" => q[i].seq <= f.seq
  PROVE  Kept(q, Enqueue(q, f))
<1> DEFINE p == Enqueue(q, f)
<1>0. /\ Len(q) \in Nat
      /\ p \in Seq(Frame)
      /\ \A i \in 1 .. Len(q) : q[i] \in Frame /\ q[i].seq \in Nat
  BY QueueFrames, EnqueueType
<1>1. CASE p = Append(q, f)
  <2>1. Len(p) = Len(q) + 1 /\ \A i \in 1 .. Len(q) : p[i] = q[i]
    BY <1>0, <1>1
  <2>2. q # <<>> => p # <<>> /\ Head(p) = Head(q)
    BY <1>0, <2>1
  <2>. QED BY <1>0, <2>1, <2>2 DEF Kept, FramesKept
<1>2. ASSUME NEW k \in PendingSnapshots(q), p = [q EXCEPT ![k] = f],
             f.kind = "snapshot"
      PROVE  Kept(q, p)
  <2>1. k \in 2 .. Len(q) /\ q[k].kind = "snapshot" /\ q[k].seq <= f.seq
    BY <1>0, <1>2 DEF PendingSnapshots
  <2>2. /\ Len(p) = Len(q)
        /\ \A i \in 1 .. Len(q) : p[i] = IF i = k THEN f ELSE q[i]
    BY <1>0, <1>2, <2>1, ExceptSeq
  <2>3. q # <<>> => p # <<>> /\ Head(p) = Head(q)
    BY <1>0, <2>1, <2>2
  <2>. QED BY <1>0, <1>2, <2>1, <2>2, <2>3 DEF Kept, FramesKept
<1>3. CASE p = q
  BY <1>0, <1>3 DEF Kept, FramesKept
<1>. QED BY <1>1, <1>2, <1>3, EnqueueCases

LEMMA KeptTransitive ==
  ASSUME NEW q \in Seq(Frame), NEW p \in Seq(Frame), NEW t \in Seq(Frame),
         Kept(q, p), Kept(p, t)
  PROVE  Kept(q, t)
<1>1. /\ Len(q) \in Nat /\ Len(p) \in Nat /\ Len(t) \in Nat
      /\ \A i \in 1 .. Len(q) : q[i].seq \in Nat
      /\ \A i \in 1 .. Len(p) : p[i].seq \in Nat
      /\ \A i \in 1 .. Len(t) : t[i].seq \in Nat
  BY QueueFrames
<1>2. Len(q) <= Len(p) /\ Len(p) <= Len(t)
  BY DEF Kept, FramesKept
<1>3. ASSUME NEW i \in 1 .. Len(q)
      PROVE  IF q[i].kind = "snapshot"
             THEN t[i].kind = "snapshot" /\ q[i].seq <= t[i].seq
             ELSE t[i] = q[i]
  <2>1. i \in 1 .. Len(p) /\ i \in 1 .. Len(t)
    BY <1>1, <1>2
  <2>2. IF q[i].kind = "snapshot"
        THEN p[i].kind = "snapshot" /\ q[i].seq <= p[i].seq
        ELSE p[i] = q[i]
    BY DEF Kept, FramesKept
  <2>3. IF p[i].kind = "snapshot"
        THEN t[i].kind = "snapshot" /\ p[i].seq <= t[i].seq
        ELSE t[i] = p[i]
    BY <2>1 DEF Kept, FramesKept
  <2>. QED BY <1>1, <2>1, <2>2, <2>3
<1>4. q # <<>> => t # <<>> /\ Head(t) = Head(q)
  BY DEF Kept
<1>. QED BY <1>1, <1>2, <1>3, <1>4 DEF Kept, FramesKept

\* ServerHello and the newest snapshot keep the frames of a queue.
LEMMA GreetingKeeps ==
  ASSUME NEW q \in Seq(Frame), NEW g \in Peer, NEW r \in BOOLEAN,
         latest \in Nat, StreamInv(q, g, r, latest)
  PROVE  Kept(q, Greeting(q))
<1> DEFINE p == Enqueue(q, Plain("hello"))
<1>1. Plain("hello") \in Frame /\ Plain("hello").kind = "hello"
  BY PlainFrames DEF Plain, Kind
<1>2. p \in Seq(Frame) /\ StreamInv(p, g, r, latest)
  BY <1>1, EnqueueType, AppendPlain
<1>3. Kept(q, p)
  BY <1>1, EnqueueKeeps DEF StreamInv
<1>4. ASSUME latest # 0 PROVE Kept(q, Enqueue(p, Snapshot(latest)))
  <2>1. /\ Snapshot(latest) \in Frame /\ Snapshot(latest).seq = latest
        /\ Enqueue(p, Snapshot(latest)) \in Seq(Frame)
    BY <1>2, PlainFrames, EnqueueType DEF Snapshot
  <2>2. Kept(p, Enqueue(p, Snapshot(latest)))
    BY <1>2, <2>1, EnqueueKeeps DEF StreamInv, Ordered
  <2>. QED BY <1>2, <1>3, <2>1, <2>2, KeptTransitive
<1>. QED BY <1>3, <1>4 DEF Greeting

LEMMA KeptSame == ASSUME NEW q \in Seq(Frame) PROVE Kept(q, q)
<1>1. Len(q) \in Nat /\ \A i \in 1 .. Len(q) : q[i].seq \in Nat
  BY QueueFrames
<1>. QED BY <1>1 DEF Kept, FramesKept

\* Every step either writes the head of a queue out or keeps its frames.
LEMMA KeptStep ==
  ASSUME IInv, [Next]_vars, NEW c \in Conn
  PROVE  \/ queue[c] # <<>> /\ queue'[c] = Tail(queue[c])
         \/ Kept(queue[c], queue'[c])
<1>0. /\ TypeOK
      /\ queue[c] \in Seq(Frame) /\ got[c] \in Peer /\ ready[c] \in BOOLEAN
      /\ latest \in Nat /\ sequence \in Nat /\ latest <= sequence
      /\ StreamInv(queue[c], got[c], ready[c], latest)
  BY DEF IInv, TypeOK, Peer
<1>1. ASSUME queue'[c] = queue[c] PROVE Kept(queue[c], queue'[c])
  BY <1>0, <1>1, KeptSame
<1>2. ASSUME NEW f \in Frame, f.kind # "snapshot", queue'[c] = Enqueue(queue[c], f)
      PROVE  Kept(queue[c], queue'[c])
  BY <1>0, <1>2, EnqueueKeeps DEF StreamInv
<1>3. ASSUME NEW d \in Conn, WriteDone(d)
      PROVE  \/ queue[c] # <<>> /\ queue'[c] = Tail(queue[c])
             \/ Kept(queue[c], queue'[c])
  <2>1. CASE c = d
    BY <1>0, <1>3, <2>1 DEF WriteDone, TypeOK
  <2>2. CASE c # d
    BY <1>0, <1>1, <1>3, <2>2 DEF WriteDone, TypeOK
  <2>. QED BY <2>1, <2>2
<1>4. CASE HandleEnvelope
  <2> DEFINE d == Head(batch)[1]
             k == Head(batch)[2]
  <2>1. CASE d \in clients
    <3>1. Dispatch(d, k)
      BY <1>4, <2>1 DEF HandleEnvelope
    <3> HIDE DEF d, k
    <3>2. CASE HandleHello(d)
      <4>1. CASE c = d
        <5>1. queue'[c] = Greeting(queue[c])
          BY <1>0, <3>2, <4>1 DEF HandleHello, TypeOK
        <5>. QED BY <1>0, <5>1, GreetingKeeps
      <4>2. CASE c # d
        BY <1>0, <1>1, <3>2, <4>2 DEF HandleHello, TypeOK
      <4>. QED BY <4>1, <4>2
    <3>3. CASE SendFatal(d)
      <4>1. Plain("fatal") \in Frame /\ Plain("fatal").kind # "snapshot"
        BY PlainFrames DEF Plain, Kind
      <4>2. queue'[c] \in {queue[c], Enqueue(queue[c], Plain("fatal"))}
        BY <1>0, <3>3 DEF SendFatal, TypeOK
      <4>. QED BY <1>1, <1>2, <4>1, <4>2
    <3>4. CASE SendError(d)
      <4>1. Plain("error") \in Frame /\ Plain("error").kind # "snapshot"
        BY PlainFrames DEF Plain, Kind
      <4>2. queue'[c] \in {queue[c], Enqueue(queue[c], Plain("error"))}
        BY <1>0, <3>4 DEF SendError, TypeOK
      <4>. QED BY <1>1, <1>2, <4>1, <4>2
    <3>. QED BY <1>1, <3>1, <3>2, <3>3, <3>4 DEF Dispatch
  <2>2. CASE d \notin clients
    BY <1>1, <1>4, <2>2 DEF HandleEnvelope
  <2>. QED BY <2>1, <2>2
<1>5. CASE PublishSnapshot
  <2> DEFINE s == sequence + 1
  <2>1. Snapshot(s) \in Frame /\ Snapshot(s).seq = s
    BY <1>0, PlainFrames DEF Snapshot
  <2>2. \A i \in 1 .. Len(queue[c]) :
          queue[c][i].kind = "snapshot" => queue[c][i].seq <= s
    <3>1. \A i \in 1 .. Len(queue[c]) : queue[c][i].seq \in Nat
      BY <1>0, QueueFrames
    <3>. QED BY <1>0, <3>1 DEF StreamInv, Ordered
  <2>3. Kept(queue[c], Enqueue(queue[c], Snapshot(s)))
    BY <1>0, <2>1, <2>2, EnqueueKeeps DEF StreamInv
  <2>4. queue'[c] \in {queue[c], Enqueue(queue[c], Snapshot(s))}
    BY <1>5 DEF PublishSnapshot
  <2>. QED BY <1>1, <2>3, <2>4
<1>6. CASE HeartbeatTick
  <2>1. PICK r \in Numberings(BeatClients) :
          queue' = [d \in Conn |-> IF d \in BeatClients
                                   THEN Enqueue(queue[d], Beat(sequence + r[d]))
                                   ELSE queue[d]]
    BY <1>6 DEF HeartbeatTick
  <2>2. CASE c \in BeatClients
    <3>1. sequence + r[c] \in Nat
      BY <1>0, <2>2, BeatType
    <3>2. /\ Beat(sequence + r[c]) \in Frame
          /\ Beat(sequence + r[c]).kind # "snapshot"
      BY <3>1, PlainFrames DEF Beat
    <3>. QED BY <1>2, <2>1, <2>2, <3>2
  <2>3. CASE c \notin BeatClients
    BY <1>1, <2>1, <2>3
  <2>. QED BY <2>2, <2>3
<1>7. ASSUME queue' = queue PROVE Kept(queue[c], queue'[c])
  BY <1>1, <1>7
<1>. QED BY <1>3, <1>4, <1>5, <1>6, <1>7
         DEF Next, vars, Accept, SessionFails, Elapse, ReadDone

\* The frame in flight is not touched before its write completes.
THEOREM HeadKept == Spec => HeadUntouched
<1>1. ASSUME IInv, [Next]_vars
      PROVE  [\A c \in Conn : queue[c] # <<>> =>
                \/ queue'[c] = Tail(queue[c])
                \/ queue'[c] # <<>> /\ Head(queue'[c]) = Head(queue[c])]_queue
  BY <1>1, KeptStep DEF Kept
<1>. QED BY <1>1, IInvHolds, PTL DEF Spec, HeadUntouched

\* No step drops, moves or changes a waiting frame that is not a snapshot.
THEOREM ControlKept == Spec => ControlFramesKept
<1>1. ASSUME IInv, [Next]_vars
      PROVE  [\A c \in Conn : \/ queue[c] # <<>> /\ queue'[c] = Tail(queue[c])
                              \/ FramesKept(queue[c], queue'[c])]_queue
  BY <1>1, KeptStep DEF Kept
<1>. QED BY <1>1, IInvHolds, PTL DEF Spec, ControlFramesKept
-----------------------------------------------------------------------------
(* The server implements the snapshot feed.                                *)

Subscribers == {c \in clients : ready[c]}
Seen == [c \in Conn |-> got[c].snap]

LEMMA FeedStep == IInv /\ [Next]_vars => [Feed!FeedNext]_(Feed!feedVars)
<1> SUFFICES ASSUME IInv, [Next]_vars
             PROVE  Feed!FeedNext \/ (latest' = latest /\ Subscribers' = Subscribers
                                      /\ Seen' = Seen)
  BY DEF Feed!feedVars, Subscribers, Seen
<1>0. TypeOK /\ clients \subseteq Conn /\ latest <= sequence
  BY DEF IInv, TypeOK
<1>a. ASSUME latest' = latest, got' = got PROVE Feed!FeedNext
  <2>1. Subscribers' \in SUBSET Conn
    BY TypeStep, <1>0 DEF Subscribers, TypeOK
  <2>. QED BY <1>a, <2>1 DEF Feed!FeedNext, Feed!FeedMembership, Subscribers, Seen
<1>1. ASSUME NEW d \in Conn, WriteDone(d) PROVE Feed!FeedNext
  <2> DEFINE f == Head(queue[d])
  <2>1. /\ queue[d] \in Seq(Frame) /\ queue[d] # <<>>
        /\ got[d] \in Peer /\ got \in [Conn -> Peer]
        /\ f = queue[d][1] /\ f \in Frame /\ 1 \in 1 .. Len(queue[d])
    BY <1>0, <1>1 DEF WriteDone, TypeOK, Peer
  <2>2. /\ got' = [got EXCEPT ![d] = Received(got[d], f)]
        /\ latest' = latest /\ ready' = ready
    BY <1>1 DEF WriteDone, streamVars
  <2>3. clients' \in {clients, clients \ {d}}
    BY <1>1 DEF WriteDone, CloseSessions, tableVars
  <2>4. Subscribers' \in {Subscribers, Subscribers \ {d}}
    BY <2>2, <2>3 DEF Subscribers
  <2>5. CASE f.kind = "snapshot"
    <3>1. f.seq \in Nat /\ 1 <= f.seq /\ f.seq <= latest /\ got[d].snap <= f.seq
      BY <1>0, <2>1, <2>5 DEF IInv, StreamInv, Ordered, Frame
    <3>a. f.seq \notin Oversized
      BY <2>1, <2>5 DEF IInv, StreamInv, Fits, Encodes
    <3>2. d \in Subscribers
      <4>1. d \in clients
        BY <1>1 DEF WriteDone, IInv, ClientTable
      <4>2. ready[d]
        BY <2>1, <2>5 DEF IInv, StreamInv, ReadyOnly
      <4>. QED BY <4>1, <4>2 DEF Subscribers
    <3>3. Seen' = [Seen EXCEPT ![d] = f.seq]
      BY <2>1, <2>2, <2>5 DEF Seen, Received
    <3>4. f.seq \in 1 .. latest /\ Seen[d] <= f.seq
      BY <1>0, <3>1 DEF Seen, TypeOK
    <3>. QED BY <2>2, <2>4, <3>2, <3>3, <3>4, <3>a
             DEF Feed!FeedNext, Feed!FeedDeliver, Subscribers, Seen
  <2>6. CASE f.kind # "snapshot"
    <3>1. Seen' = Seen
      BY <2>1, <2>2, <2>6 DEF Seen, Received
    <3>2. Subscribers' \in SUBSET Conn
      BY <1>0, <2>4 DEF Subscribers
    <3>. QED BY <2>2, <3>1, <3>2 DEF Feed!FeedNext, Feed!FeedMembership, Subscribers, Seen
  <2>. QED BY <2>5, <2>6
<1>2. CASE PublishSnapshot
  <2>1. latest' \in latest + 1 .. MaxSeq
    BY <1>0, <1>2 DEF PublishSnapshot, TypeOK, ConstantsAssumption
  <2>2. Subscribers' = Subscribers /\ Seen' = Seen
    BY <1>2 DEF PublishSnapshot, tableVars, Subscribers, Seen
  <2>. QED BY <2>1, <2>2 DEF Feed!FeedNext, Feed!FeedPublish, Subscribers, Seen
<1>3. ASSUME NEW d \in Conn, Accept(d) PROVE Feed!FeedNext
  BY <1>a, <1>3 DEF Accept, streamVars
<1>4. ASSUME NEW d \in Conn, SessionFails(d) PROVE Feed!FeedNext
  BY <1>a, <1>4 DEF SessionFails, streamVars
<1>5. ASSUME NEW d \in Conn, Elapse(d) PROVE Feed!FeedNext
  BY <1>a, <1>5 DEF Elapse, streamVars
<1>6. ASSUME NEW d \in Conn, NEW es \in Reads, ReadDone(d, es) PROVE Feed!FeedNext
  BY <1>a, <1>6 DEF ReadDone, streamVars
<1>7. CASE HandleEnvelope
  BY <1>a, <1>7 DEF HandleEnvelope, streamVars
<1>8. CASE HeartbeatTick
  BY <1>a, <1>8 DEF HeartbeatTick
<1>9. CASE UNCHANGED vars
  BY <1>9 DEF vars, Subscribers, Seen
<1>. QED BY <1>1, <1>2, <1>3, <1>4, <1>5, <1>6, <1>7, <1>8, <1>9 DEF Next

\* A subscriber of the feed sees only published snapshots, in order, after its
\* handshake: every step of the server is a step of the feed or none.
THEOREM Refinement == Spec => ImplementsFeed
<1>1. Init => Feed!FeedInit
  <2> SUFFICES ASSUME Init PROVE Feed!FeedInit
    OBVIOUS
  <2>1. Subscribers = {} /\ Seen = [c \in Conn |-> 0] /\ latest = 0
    BY DEF Init, Subscribers, Seen
  <2>. QED BY <2>1 DEF Feed!FeedInit, Subscribers, Seen
<1>2. IInv /\ [Next]_vars => [Feed!FeedNext]_(Feed!feedVars)
  BY FeedStep
<1>. QED BY <1>1, <1>2, IInvHolds, PTL DEF Spec, ImplementsFeed, Feed!FeedSafety
=============================================================================
