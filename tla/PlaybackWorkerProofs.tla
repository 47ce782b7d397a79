------------------------ MODULE PlaybackWorkerProofs ------------------------
(***************************************************************************)
(* Theorems about PlaybackWorker, for every set of bags, whatever their    *)
(* length, and, but for ViewCorrect, for hasty users as well.              *)
(***************************************************************************)
EXTENDS PlaybackWorker, FiniteSetTheorems, WellFoundedInduction, TLAPS

\* The cursor keeps up with the position and with the last frame.
CursorInv ==
  /\ state = "Playing" => cursorReady
  /\ opened \/ state \in {"Stopped", "Error"}
  /\ pc # "idle" => state = "Playing"
  /\ published.at <= position
  /\ cursorReady /\ cursor <= Len(bag) =>
       /\ bag[cursor].ts >= published.at
       /\ pc = "idle" => bag[cursor].ts >= position
  /\ processed => /\ pc # "idle"
                  /\ cursor > 1
                  /\ bag[cursor - 1].ts \in published.at .. position

\* A path in the snapshot is newer than every turning command read.
PathInv ==
  /\ turning => view["path"] = None
  /\ cursorReady /\ view["path"] # None =>
       \A i \in Rows : bag[i].kind = "turn" /\ i < cursor => i < view["path"]

PlaybackInv == TypeOK /\ CursorInv /\ PathInv /\ PathsAfterTurn

\* When the last message of a topic among the first k rows came.
LatestTime(topic, k) ==
  LET i == LastWithin(Candidates(topic), k) IN IF i = None THEN 0 ELSE bag[i].ts

\* What the worker knows after k rows, at time t: times, center turn and the
\* rows shown are those of the reference.
Synced(v, last, turn, k, t) ==
  /\ \A topic \in Topics : last[topic] = LatestTime(topic, k)
  /\ turn <=> LET command == LastWithin(Commands, k)
              IN  /\ command # None /\ bag[command].kind = "turn"
                  /\ Fresh(bag[command].ts, t)
  /\ \A topic \in Topics : topic # "path" \/ TurnsHeard(t) => v[topic] = Due(topic, k, t)

\* The worker knows what a reader of the rows before the cursor would know at
\* the time of the last frame, and a bag that will start with an empty snapshot
\* is at its begin.
FollowInv ==
  /\ opened /\ cursorReady =>
       /\ Synced(view, lastTime, turning, cursor - 1, published.at)
       /\ \A i \in Rows : i < cursor => bag[i].ts <= position
  /\ opened /\ published # NoFrame =>
       cursorReady /\ (pc = "idle" => published.view = view /\ published.at = position)
  /\ state = "Stopped" \/ (state = "Ready" /\ ~cursorReady) => position = Begin
-----------------------------------------------------------------------------
(* Least and greatest numbers, without an induction theorem                *)

\* A set of naturals that is not empty has a least element.
LEMMA Least ==
  ASSUME NEW S, S \subseteq Nat, S # {}
  PROVE  \E i \in S : \A j \in S : i <= j
<1> DEFINE Below == {0 .. i : i \in S}
<1>1. IsWellFoundedOn(StrictSubsetOrdering(Nat), FiniteSubsetsOf(Nat))
  BY FS_StrictSubsetOrderingWellFounded
<1>2. Below \subseteq FiniteSubsetsOf(Nat) /\ Below # {}
  <2>1. ASSUME NEW i \in S PROVE 0 .. i \in FiniteSubsetsOf(Nat)
    <3>1. IsFiniteSet(0 .. i)
      BY FS_Interval
    <3>. QED BY <3>1 DEF FiniteSubsetsOf
  <2>. QED BY <2>1
<1> HIDE DEF Below
<1>3. PICK b \in Below : \A c \in Below : <<c, b>> \notin StrictSubsetOrdering(Nat)
  BY <1>1, <1>2, WFMin
<1> USE DEF Below
<1>4. PICK i \in S : b = 0 .. i
  OBVIOUS
<1>5. ASSUME NEW j \in S, j < i PROVE FALSE
  <2>1. 0 .. j \subseteq 0 .. i /\ 0 .. j # 0 .. i
    <3>1. i \in 0 .. i /\ i \notin 0 .. j
      BY <1>5
    <3>. QED BY <3>1, <1>5
  <2>2. 0 .. j \in Below /\ 0 .. j \subseteq Nat /\ 0 .. i \subseteq Nat
    OBVIOUS
  <2>. QED BY <2>1, <2>2, <1>3, <1>4 DEF StrictSubsetOrdering
<1>. QED BY <1>5

\* A bounded one has a greatest element.
LEMMA Greatest ==
  ASSUME NEW n \in Nat, NEW S, S \subseteq 0 .. n, S # {}
  PROVE  \E i \in S : \A j \in S : j <= i
<1> DEFINE Mirror == {n - i : i \in S}
<1>1. Mirror \subseteq Nat /\ Mirror # {}
  <2>1. ASSUME NEW i \in S PROVE n - i \in Nat
    <3>1. i \in 0 .. n
      OBVIOUS
    <3>. QED BY <3>1
  <2>. QED BY <2>1
<1> HIDE DEF Mirror
<1>2. PICK k \in Mirror : \A l \in Mirror : k <= l
  BY <1>1, Least
<1> USE DEF Mirror
<1>3. PICK i \in S : k = n - i
  OBVIOUS
<1>4. ASSUME NEW j \in S PROVE j <= i
  <2>1. k <= n - j
    BY <1>2
  <2>. QED BY <2>1, <1>3
<1>. QED BY <1>4
-----------------------------------------------------------------------------
(* Bags and the operators on them                                          *)

\* What the assumption says of the bag that is played.
LEMMA BagFacts ==
  ASSUME bag \in Bags
  PROVE  /\ Len(bag) \in Nat \ {0}
         /\ Rows = 1 .. Len(bag)
         /\ \A i \in Rows : bag[i].ts \in Nat \ {0} /\ bag[i].kind \in Kind
         /\ \A i, j \in Rows : i <= j => bag[i].ts <= bag[j].ts
         /\ Begin \in Nat \ {0} /\ End \in Nat
         /\ \A i \in Rows : bag[i].ts \in Begin .. End
<1>1. bag \in Seq(Row) /\ Len(bag) > 0
  BY BagsAssumption
<1>2. Len(bag) \in Nat \ {0} /\ Rows = 1 .. Len(bag)
  BY <1>1 DEF Rows
<1>3. \A i \in Rows : bag[i] \in Row
  BY <1>1, <1>2
<1>4. \A i \in Rows : bag[i].ts \in Nat \ {0} /\ bag[i].kind \in Kind
  BY <1>3 DEF Row
<1>5. \A i, j \in Rows : i <= j => bag[i].ts <= bag[j].ts
  BY <1>2, BagsAssumption
<1>. QED BY <1>2, <1>4, <1>5 DEF Begin, End

\* The query of prepareCursor finds the first row that is not before t.
LEMMA RowFromFound ==
  ASSUME bag \in Bags, NEW t \in Nat
  PROVE  /\ RowFrom(t) \in 1 .. Len(bag) + 1
         /\ \A j \in Rows : j < RowFrom(t) => bag[j].ts < t
         /\ \A j \in Rows : RowFrom(t) <= j => bag[j].ts >= t
<1> DEFINE Rest == {i \in 1 .. Len(bag) + 1 : \A j \in Rows : i <= j => bag[j].ts >= t}
<1>1. Len(bag) + 1 \in Rest /\ Rest \subseteq Nat
  BY BagFacts
<1> HIDE DEF Rest
<1>2. PICK i \in Rest : \A k \in Rest : i <= k
  BY <1>1, Least
<1> USE DEF Rest
<1>3. ASSUME NEW j \in Rows, j < i PROVE bag[j].ts < t
  <2>1. j \notin Rest
    BY <1>2, <1>3, BagFacts
  <2>2. PICK k \in Rows : j <= k /\ ~(bag[k].ts >= t)
    BY <2>1, BagFacts
  <2>. QED BY <2>2, BagFacts
<1>4. /\ \A j \in 1 .. i - 1 : bag[j].ts < t
      /\ \A j \in i .. Len(bag) : bag[j].ts >= t
  <2>1. i \in 1 .. Len(bag) + 1 /\ Len(bag) \in Nat /\ Rows = 1 .. Len(bag)
    BY BagFacts
  <2>2. \A j \in Rows : i <= j => bag[j].ts >= t
    OBVIOUS
  <2>3. \A j \in 1 .. i - 1 : j \in Rows /\ j < i
    BY <2>1
  <2>4. \A j \in i .. Len(bag) : j \in Rows /\ i <= j
    BY <2>1
  <2>. QED BY <1>3, <2>2, <2>3, <2>4
<1>5. i \in 1 .. Len(bag) + 1
  OBVIOUS
<1>6. /\ RowFrom(t) \in 1 .. Len(bag) + 1
      /\ \A j \in 1 .. RowFrom(t) - 1 : bag[j].ts < t
      /\ \A j \in RowFrom(t) .. Len(bag) : bag[j].ts >= t
  BY <1>4, <1>5 DEF RowFrom
<1>. QED BY <1>6, BagFacts

\* A query for the last row of a set finds one, or there is none.
LEMMA LastOfFound ==
  ASSUME bag \in Bags, NEW S \in SUBSET Rows, NEW t \in Nat
  PROVE  \/ LastOf(S, t) = None /\ \A i \in S : bag[i].ts > t
         \/ /\ LastOf(S, t) \in S
            /\ bag[LastOf(S, t)].ts <= t
            /\ \A i \in S : bag[i].ts <= t => i <= LastOf(S, t)
<1> DEFINE past == {i \in S : bag[i].ts <= t}
<1>1. CASE past = {}
  BY <1>1, BagFacts DEF LastOf
<1>2. CASE past # {}
  <2>1. past \subseteq 0 .. Len(bag) /\ Len(bag) \in Nat
    BY BagFacts
  <2>2. \E i \in past : \A j \in past : j <= i
    <3> HIDE DEF past
    <3>. QED BY <1>2, <2>1, Greatest
  <2>3. LastOf(S, t) = CHOOSE i \in past : \A j \in past : j <= i
    BY <1>2 DEF LastOf
  <2>. QED BY <2>2, <2>3
<1>. QED BY <1>1, <1>2
-----------------------------------------------------------------------------
(* Rebuilding                                                              *)

\* What rebuildAt computes has the types of the snapshot.
LEMMA RebuiltTypes ==
  ASSUME bag \in Bags, NEW t \in Nat, NEW topic \in Topics
  PROVE  RebuiltRow(topic, t) \in 0 .. Len(bag) /\ RebuiltTime(topic, t) \in Nat
<1>1. Candidates(topic) \in SUBSET Rows
  BY DEF Candidates
<1>2. \/ LastOf(Candidates(topic), t) = None
      \/ LastOf(Candidates(topic), t) \in Rows
  BY <1>1, LastOfFound
<1>. QED BY <1>2, BagFacts DEF RebuiltRow, RebuiltTime, None

\* A path that a seek shows came after every turning command up to there, and
\* no center turn is going on.
LEMMA RebuiltPath ==
  ASSUME bag \in Bags, NEW t \in Nat, RebuiltRow("path", t) # None
  PROVE  /\ \A j \in Rows : bag[j].kind = "turn" /\ bag[j].ts <= t =>
                              j < RebuiltRow("path", t)
         /\ LET command == LastOf(Commands, t)
            IN  \/ command = None
                \/ bag[command].kind # "turn"
                \/ t > bag[command].ts + Timeout
<1> DEFINE i == RebuiltRow("path", t)
           command == LastOf(Commands, t)
<1>1. Commands \in SUBSET Rows /\ Exits \in SUBSET Rows /\ Candidates("path") \in SUBSET Rows
  BY DEF Commands, Exits, Candidates
<1>2. PathAllowed(i, t) /\ i \in Rows
  <2>1. i = LastOf(Candidates("path"), t) /\ PathAllowed(i, t)
    BY DEF RebuiltRow
  <2>. QED BY <2>1, <1>1, LastOfFound
<1>3. ASSUME NEW j \in Rows, bag[j].kind = "turn" PROVE j \in Commands
  BY <1>3 DEF Commands, TopicOf
<1>4. ASSUME NEW j \in Rows, bag[j].kind = "turn", bag[j].ts <= t PROVE j < i
  <2>1. j \in Commands
    BY <1>3, <1>4
  <2>2. command \in Commands /\ j <= command /\ bag[command].ts <= t
    <3>1. \/ command = None /\ \A k \in Commands : bag[k].ts > t
          \/ /\ command \in Commands
             /\ bag[command].ts <= t
             /\ \A k \in Commands : bag[k].ts <= t => k <= command
      BY <1>1, LastOfFound
    <3>2. ~(bag[j].ts > t)
      BY <1>4, BagFacts
    <3>. QED BY <3>1, <3>2, <2>1, <1>4
  <2>3. CASE bag[command].kind = "straight" /\ LastOf(Exits, t) < i
    <3> DEFINE Later == {k \in Commands : j < k /\ bag[k].kind = "straight"}
    <3>1. command \in Later /\ Later \subseteq Nat
      BY <2>2, <2>3, <1>1, <1>4, BagFacts
    <3>. HIDE DEF Later
    <3>2. PICK exit \in Later : \A k \in Later : exit <= k
      BY <3>1, Least
    <3>. USE DEF Later
    <3>3. exit \in Exits
      <4> DEFINE Turns == {k \in Commands : k < exit /\ bag[k].kind = "turn"}
      <4>1. j \in Turns /\ Turns \subseteq 0 .. Len(bag) /\ Len(bag) \in Nat
        BY <2>1, <3>2, <1>1, <1>4, BagFacts
      <4>. HIDE DEF Turns
      <4>2. PICK turn \in Turns : \A k \in Turns : k <= turn
        BY <4>1, Greatest
      <4>. USE DEF Turns
      <4>3. ASSUME NEW k \in Commands, turn < k, k < exit PROVE FALSE
        <5>1. bag[k].kind # "turn"
          BY <4>2, <4>3, <1>1, BagFacts
        <5>2. bag[k].kind = "straight"
          BY <5>1, <1>1, BagFacts DEF Commands, TopicOf, Kind
        <5>3. k \in Later
          BY <4>1, <4>2, <4>3, <5>2, <1>1, BagFacts
        <5>. QED BY <3>2, <4>3, <5>3, <1>1, BagFacts
      <4>4. \A k \in Commands : k <= turn \/ k >= exit
        BY <4>3, <1>1, <4>2, BagFacts
      <4>. QED BY <4>4, <4>2, <3>2 DEF Exits
    <3>4. bag[exit].ts <= t
      <4>1. exit <= command /\ exit \in Rows /\ command \in Rows
        BY <3>1, <3>2, <1>1, <2>2
      <4>2. bag[exit].ts <= bag[command].ts
        BY <4>1, BagFacts
      <4>. QED BY <4>1, <4>2, <2>2, BagFacts
    <3>5. exit <= LastOf(Exits, t) /\ LastOf(Exits, t) \in Rows
      BY <3>3, <3>4, <1>1, LastOfFound, BagFacts
    <3>. QED BY <3>2, <3>5, <2>3, <1>1, <1>2, BagFacts
  <2>4. CASE t > bag[command].ts + Timeout /\ bag[i].ts > bag[command].ts + Timeout
    <3>1. bag[i].ts > bag[j].ts
      <4>1. command \in Rows /\ bag[j].ts <= bag[command].ts
        BY <2>2, <1>1, BagFacts
      <4>2. Timeout \in Nat
        BY BagsAssumption
      <4>. HIDE DEF command, i
      <4>3. bag[i].ts \in Nat /\ bag[j].ts \in Nat /\ bag[command].ts \in Nat
        BY <4>1, <1>2, BagFacts
      <4>. QED BY <4>1, <4>2, <4>3, <2>4
    <3>. QED BY <3>1, <1>2, BagFacts
  <2>. QED BY <1>2, <2>2, <2>3, <2>4, <1>1, BagFacts DEF PathAllowed, None
<1>5. \/ command = None
      \/ bag[command].kind # "turn"
      \/ t > bag[command].ts + Timeout
  BY <1>2 DEF PathAllowed
<1>. QED BY <1>4, <1>5
-----------------------------------------------------------------------------
(* Publishing                                                              *)

\* The types of what Publish leaves behind.
LEMMA PublishTypes ==
  ASSUME bag \in Bags, NEW now \in Nat, NEW turn \in BOOLEAN,
         NEW v \in [Topics -> 0 .. Len(bag)], NEW last \in [Topics -> Nat],
         Publish(now, v, last, turn)
  PROVE  /\ view' \in [Topics -> 0 .. Len(bag)]
         /\ lastTime' \in [Topics -> Nat]
         /\ turning' \in BOOLEAN
         /\ published' \in [at : Nat, view : [Topics -> 0 .. Len(bag)]]
<1>1. view' \in [Topics -> 0 .. Len(bag)]
  BY BagFacts DEF Publish, None
<1>2. lastTime' \in [Topics -> Nat] /\ turning' \in BOOLEAN
  BY DEF Publish, Fresh, Topics
<1>3. published' \in [at : Nat, view : [Topics -> 0 .. Len(bag)]]
  BY <1>1 DEF Publish
<1>. QED BY <1>1, <1>2, <1>3

\* An empty snapshot has the types and shows no path.
LEMMA ResetTypes ==
  ASSUME bag \in Bags, ResetSnapshot
  PROVE  /\ view' \in [Topics -> 0 .. Len(bag)]
         /\ lastTime' \in [Topics -> Nat]
         /\ turning' = FALSE
         /\ published' \in [at : Nat, view : [Topics -> 0 .. Len(bag)]]
         /\ published'.at = 0
         /\ view'["path"] = None /\ published'.view["path"] = None
<1>1. Nothing \in [Topics -> 0 .. Len(bag)] /\ Nothing["path"] = None
  BY BagFacts DEF Nothing, None, Topics
<1>2. view' = Nothing /\ turning' = FALSE /\ published' = NoFrame
  BY DEF ResetSnapshot
<1>3. lastTime' \in [Topics -> Nat]
  BY DEF ResetSnapshot
<1>. QED BY <1>1, <1>2, <1>3 DEF NoFrame
-----------------------------------------------------------------------------
(* The invariant                                                           *)

LEMMA PlaybackInit == Init => PlaybackInv
<1> SUFFICES ASSUME Init PROVE PlaybackInv
  OBVIOUS
<1>1. bag \in Bags
  BY DEF Init
<1>2. Nothing \in [Topics -> 0 .. Len(bag)] /\ Nothing["path"] = None
  BY <1>1, BagFacts DEF Nothing, None, Topics
<1>3. TypeOK
  <2>1. published \in [at : Nat, view : [Topics -> 0 .. Len(bag)]]
    BY <1>2 DEF Init, NoFrame
  <2>2. position \in Begin .. End /\ cursor \in 1 .. Len(bag) + 1
    <3>1. Begin <= End
      BY <1>1, BagFacts DEF End
    <3>. QED BY <3>1, <1>1, BagFacts DEF Init
  <2>3. lastTime \in [Topics -> Nat] /\ view \in [Topics -> 0 .. Len(bag)]
    BY <1>2 DEF Init
  <2>. QED BY <2>1, <2>2, <2>3 DEF Init, TypeOK
<1>4. CursorInv
  BY <1>1, BagFacts DEF Init, CursorInv, NoFrame, Begin
<1>5. PathInv /\ PathsAfterTurn
  BY <1>2 DEF Init, PathInv, PathsAfterTurn, NoFrame
<1>. QED BY <1>3, <1>4, <1>5 DEF PlaybackInv

\* The clock and the calls of processUntil.
LEMMA SynchronizeStep ==
  ASSUME PlaybackInv, NEW h \in {"tick", "pause", "rate"}, Synchronize(h)
  PROVE  PlaybackInv'
<1> USE DEF Synchronize, shownVars, cursorVars
<1>1. bag \in Bags /\ bag' = bag /\ position \in Nat /\ position' >= position
  BY BagFacts DEF PlaybackInv, TypeOK
<1>2. TypeOK'
  <2>1. Begin' = Begin /\ End' = End
    BY DEF Begin, End
  <2>2. position' \in Begin .. End
    BY <1>1, BagFacts DEF PlaybackInv, TypeOK
  <2>. QED BY <2>1, <2>2 DEF PlaybackInv, TypeOK
<1>3. CursorInv'
  BY <1>1, BagFacts DEF PlaybackInv, TypeOK, CursorInv
<1>4. PathInv' /\ PathsAfterTurn'
  BY DEF PlaybackInv, PathInv, PathsAfterTurn, Rows
<1>. QED BY <1>2, <1>3, <1>4 DEF PlaybackInv

\* A row read after a turning command began a center turn cannot bring a path.
LEMMA ProcessRowStep ==
  ASSUME PlaybackInv, ProcessRow
  PROVE  PlaybackInv'
<1> USE DEF ProcessRow, RowDue, shownVars, cursorVars
<1>a. TypeOK /\ CursorInv /\ PathInv /\ PathsAfterTurn
  BY DEF PlaybackInv
<1>1. bag \in Bags /\ bag' = bag /\ cursor \in Rows /\ position \in Nat
  BY <1>a, BagFacts DEF TypeOK
<1>2. TopicOf(bag[cursor].kind) \in Topics
  <2>1. bag[cursor].kind \in Kind
    BY <1>1, BagFacts
  <2>. QED BY <2>1 DEF TopicOf, Topics, Kind
<1>3. view' \in [Topics -> 0 .. Len(bag)] /\ lastTime' \in [Topics -> Nat] /\ turning' \in BOOLEAN
  <2>1. CASE bag[cursor].kind = "badTarget"
    BY <1>a, <2>1 DEF ApplyRow, TypeOK
  <2>2. CASE bag[cursor].kind # "badTarget"
    <3> DEFINE p == IF bag[cursor].kind = "turn" /\ ~turning THEN None ELSE view["path"]
               q == IF bag[cursor].kind = "path" /\ turning THEN None ELSE cursor
               cleared == [view EXCEPT !["path"] = p]
    <3>1. view' = [cleared EXCEPT ![TopicOf(bag[cursor].kind)] = q]
      BY <2>2 DEF ApplyRow
    <3>2. p \in 0 .. Len(bag) /\ q \in 0 .. Len(bag)
      <4>1. view["path"] \in 0 .. Len(bag)
        BY <1>a DEF TypeOK, Topics
      <4>. QED BY <4>1, <1>1, BagFacts DEF None
    <3>. HIDE DEF p, q
    <3>3. cleared \in [Topics -> 0 .. Len(bag)]
      BY <1>a, <3>2 DEF TypeOK
    <3>. HIDE DEF cleared
    <3>4. view' \in [Topics -> 0 .. Len(bag)]
      BY <3>1, <3>2, <3>3
    <3>5. bag[cursor].ts \in Nat
      BY <1>1, BagFacts
    <3>6. lastTime' \in [Topics -> Nat]
      BY <1>a, <2>2, <3>5 DEF ApplyRow, TypeOK
    <3>7. turning' \in BOOLEAN
      BY <1>a, <2>2 DEF ApplyRow, TypeOK
    <3>. QED BY <3>4, <3>6, <3>7
  <2>. QED BY <2>1, <2>2
<1>4. TypeOK'
  <2>1. Begin' = Begin /\ End' = End
    BY DEF Begin, End
  <2>2. cursor' \in 1 .. Len(bag) + 1
    BY <1>1, BagFacts
  <2>. QED BY <1>a, <1>3, <2>1, <2>2 DEF TypeOK
<1>5. CursorInv'
  <2>1. cursor + 1 <= Len(bag) => bag[cursor].ts <= bag[cursor + 1].ts /\ bag[cursor + 1].ts \in Nat
    BY <1>1, BagFacts
  <2>2. bag[cursor].ts \in published.at .. position /\ published.at \in Nat
    BY <1>a, <1>1, BagFacts DEF CursorInv, TypeOK
  <2>. QED BY <1>a, <1>1, <2>1, <2>2 DEF CursorInv, TypeOK
<1>6. PathInv'
  <2>1. cursorReady
    BY <1>a DEF CursorInv
  <2>2. CASE bag[cursor].kind = "turn"
    BY <1>a, <2>2 DEF PathInv, ApplyRow, TypeOK, TopicOf, Topics
  <2>3. CASE bag[cursor].kind = "path"
    <3>1. view'["path"] = (IF turning THEN None ELSE cursor) /\ turning' = turning
      BY <1>a, <2>3 DEF ApplyRow, TypeOK, TopicOf, Topics
    <3>2. \A i \in Rows : bag[i].kind = "turn" /\ i < cursor + 1 => i < cursor
      BY <1>1, <2>3, BagFacts
    <3>. QED BY <1>1, <3>1, <3>2 DEF PathInv, Rows
  <2>4. CASE bag[cursor].kind \notin {"turn", "path"}
    <3>1. bag[cursor].kind \in {"straight", "target", "badTarget", "pose"}
      BY <2>4, <1>1, BagFacts DEF Kind
    <3>2. view'["path"] = view["path"] /\ (turning' => turning)
      BY <1>a, <3>1 DEF ApplyRow, TypeOK, TopicOf, Topics
    <3>. QED BY <1>a, <1>1, <2>1, <2>4, <3>2, BagFacts DEF PathInv, TypeOK, Rows
  <2>. QED BY <2>2, <2>3, <2>4
<1>7. PathsAfterTurn'
  BY <1>a DEF PathsAfterTurn, Rows
<1>. QED BY <1>4, <1>5, <1>6, <1>7 DEF PlaybackInv

\* The end of a handler, wherever between the last frame and the clock it
\* leaves the position, as long as it does not pass the next row.
LEMMA FinishStep ==
  ASSUME PlaybackInv, pc # "idle",
         Publish(position', view, lastTime, turning), Return,
         pending' \in BOOLEAN, exhausted' \in BOOLEAN,
         position' \in published.at .. position, position' \in Begin .. End,
         cursor <= Len(bag) => bag[cursor].ts >= position'
  PROVE  PlaybackInv'
<1>a. TypeOK /\ CursorInv /\ PathInv /\ PathsAfterTurn
  BY DEF PlaybackInv
<1>b. /\ bag' = bag /\ opened' = opened /\ cursor' = cursor /\ cursorReady' = cursorReady
      /\ pc' = "idle" /\ processed' = FALSE
  BY DEF Return
<1>1. bag \in Bags /\ position' \in Nat /\ cursorReady
  BY <1>a, BagFacts DEF TypeOK, CursorInv
<1>2. state' \in {"Paused", "Completed", "Playing"} /\ state = "Playing"
  BY <1>a DEF Return, CursorInv
<1>3. TypeOK'
  <2>1. Begin' = Begin /\ End' = End
    BY <1>b DEF Begin, End
  <2>2. /\ view' \in [Topics -> 0 .. Len(bag)]
        /\ lastTime' \in [Topics -> Nat]
        /\ turning' \in BOOLEAN
        /\ published' \in [at : Nat, view : [Topics -> 0 .. Len(bag)]]
    BY <1>a, <1>1, PublishTypes DEF TypeOK
  <2>. QED BY <1>a, <1>b, <1>2, <2>1, <2>2 DEF TypeOK
<1>4. published'.at = position' /\ published'.view = view'
  BY DEF Publish
<1>5. CursorInv'
  BY <1>a, <1>b, <1>1, <1>2, <1>4 DEF CursorInv
<1>6. /\ view'["path"] # None => view'["path"] = view["path"]
      /\ turning' => turning
  BY DEF Publish, Topics
<1>7. PathInv'
  BY <1>a, <1>b, <1>6 DEF PathInv, Rows
<1>8. PathsAfterTurn'
  <2>1. ASSUME NEW i \in Rows, bag[i].ts < position' PROVE i < cursor
    <3>1. cursor \in 1 .. Len(bag) + 1
      BY <1>a DEF TypeOK
    <3>. QED BY <1>1, <2>1, <3>1, BagFacts
  <2>2. ASSUME view'["path"] # None, NEW i \in Rows, bag[i].kind = "turn", bag[i].ts < position'
        PROVE i < view'["path"]
    BY <1>a, <1>1, <1>6, <2>1, <2>2 DEF PathInv
  <2>. QED BY <1>b, <1>4, <2>2 DEF PathsAfterTurn, Rows
<1>. QED BY <1>3, <1>5, <1>7, <1>8 DEF PlaybackInv

LEMMA TargetReachedStep ==
  ASSUME PlaybackInv, TargetReached
  PROVE  PlaybackInv' /\ published'.at >= published.at
<1> USE DEF TargetReached, RowDue
<1>a. TypeOK /\ CursorInv
  BY DEF PlaybackInv
<1>1. bag \in Bags /\ position' = position /\ position \in Begin .. End /\ published.at \in Nat
  BY <1>a DEF TypeOK
<1>2. position' \in published.at .. position
  BY <1>a, <1>1, BagFacts DEF CursorInv
<1>3. cursor <= Len(bag) => bag[cursor].ts >= position'
  <2>1. cursor \in 1 .. Len(bag) + 1
    BY <1>a DEF TypeOK
  <2>. QED BY <1>1, <2>1, BagFacts
<1>4. pending' \in BOOLEAN /\ exhausted' \in BOOLEAN
  BY <1>a DEF TypeOK
<1>5. Publish(position', view, lastTime, turning)
  BY <1>1
<1>6. PlaybackInv'
  BY <1>1, <1>2, <1>3, <1>4, <1>5, FinishStep
<1>. QED BY <1>1, <1>2, <1>5, <1>6 DEF Publish

LEMMA BudgetSpentStep ==
  ASSUME PlaybackInv, BudgetSpent
  PROVE  PlaybackInv' /\ published'.at >= published.at
<1> USE DEF BudgetSpent
<1>a. TypeOK /\ CursorInv
  BY DEF PlaybackInv
<1>1. bag \in Bags /\ position' = bag[cursor - 1].ts /\ published.at \in Nat
  BY <1>a DEF TypeOK
<1>2. cursor - 1 \in Rows
  BY <1>a, <1>1, BagFacts DEF TypeOK, CursorInv
<1>3. position' \in published.at .. position /\ position' \in Begin .. End
  BY <1>a, <1>1, <1>2, BagFacts DEF CursorInv
<1>4. cursor <= Len(bag) => bag[cursor].ts >= position'
  <2>1. cursor <= Len(bag) => cursor \in Rows /\ cursor - 1 <= cursor
    BY <1>a, <1>1, BagFacts DEF TypeOK
  <2>. QED BY <1>1, <1>2, <2>1, BagFacts
<1>5. pending' \in BOOLEAN /\ exhausted' \in BOOLEAN
  BY <1>a DEF TypeOK
<1>6. PlaybackInv'
  BY <1>3, <1>4, <1>5, FinishStep
<1>. QED BY <1>1, <1>3, <1>6 DEF Publish

\* play() with a cursor, and a load that fails.
LEMMA ResumeStep ==
  ASSUME PlaybackInv, Resume \/ LoadFails
  PROVE  PlaybackInv'
<1> USE DEF Resume, LoadFails, shownVars, cursorVars
<1>a. TypeOK /\ CursorInv /\ PathInv /\ PathsAfterTurn
  BY DEF PlaybackInv
<1>1. TypeOK'
  <2>1. Begin' = Begin /\ End' = End
    BY DEF Begin, End
  <2>. QED BY <1>a, <2>1 DEF TypeOK
<1>2. CursorInv'
  BY <1>a DEF CursorInv, TypeOK
<1>3. PathInv' /\ PathsAfterTurn'
  BY <1>a DEF PathInv, PathsAfterTurn, Rows
<1>. QED BY <1>1, <1>2, <1>3 DEF PlaybackInv

\* An empty snapshot satisfies the invariant, whatever the cursor: the position
\* may move as long as the cursor follows it.
LEMMA ResetStep ==
  ASSUME PlaybackInv, pc = "idle", ResetSnapshot,
         UNCHANGED <<bag, pc, processed>>,
         opened' \in BOOLEAN,
         state' \in {"Ready", "Playing", "Stopped", "Completed"},
         position' \in Begin .. End,
         NoCursor \/ PrepareCursor(position'),
         state' = "Playing" => PrepareCursor(position'),
         opened' \/ state' = "Stopped"
  PROVE  PlaybackInv'
<1>a. TypeOK /\ CursorInv
  BY DEF PlaybackInv
<1>2. /\ view' \in [Topics -> 0 .. Len(bag)]
      /\ lastTime' \in [Topics -> Nat]
      /\ turning' = FALSE
      /\ published' \in [at : Nat, view : [Topics -> 0 .. Len(bag)]]
      /\ published'.at = 0
      /\ view'["path"] = None /\ published'.view["path"] = None
  BY <1>a, ResetTypes DEF TypeOK
<1>3. position' \in Nat
  BY <1>a, BagFacts DEF TypeOK
<1>4. /\ cursor' \in 1 .. Len(bag) + 1
      /\ pending' = FALSE /\ exhausted' = FALSE /\ cursorReady' \in BOOLEAN
      /\ cursorReady' /\ cursor' <= Len(bag) =>
           bag[cursor'].ts \in Nat /\ bag[cursor'].ts >= position'
      /\ state' = "Playing" => cursorReady'
  <2>1. CASE NoCursor
    BY <1>a, <2>1 DEF NoCursor, PrepareCursor, TypeOK
  <2>2. CASE PrepareCursor(position')
    <3>1. /\ RowFrom(position') \in 1 .. Len(bag) + 1
          /\ \A j \in Rows : RowFrom(position') <= j => bag[j].ts >= position'
      BY <1>a, <1>3, RowFromFound DEF TypeOK
    <3>2. cursor' <= Len(bag) => cursor' \in Rows
      BY <1>a, <2>2, <3>1, BagFacts DEF PrepareCursor, TypeOK
    <3>. QED BY <1>a, <2>2, <3>1, <3>2, BagFacts DEF PrepareCursor, TypeOK
  <2>. QED BY <2>1, <2>2
<1>5. TypeOK'
  <2>1. Begin' = Begin /\ End' = End
    BY DEF Begin, End
  <2>. QED BY <1>a, <1>2, <1>4, <2>1 DEF TypeOK
<1>6. ~processed'
  BY <1>a DEF CursorInv
<1>7. CursorInv'
  <2>1. published'.at <= position'
    BY <1>2, <1>3
  <2>. QED BY <1>2, <1>4, <1>6, <2>1 DEF CursorInv
<1>8. PathInv' /\ PathsAfterTurn'
  BY <1>2 DEF PathInv, PathsAfterTurn
<1>. QED BY <1>5, <1>7, <1>8 DEF PlaybackInv

\* play() while the bag is played: rows of the position's time are read again,
\* none behind it.
LEMMA RestartStep ==
  ASSUME PlaybackInv, Start, state = "Playing"
  PROVE  PlaybackInv'
<1>a. TypeOK /\ CursorInv /\ PathInv /\ PathsAfterTurn
  BY DEF PlaybackInv
<1>b. /\ bag' = bag /\ opened' = opened /\ pc' = pc /\ pc = "idle" /\ processed' = processed
      /\ position' = position /\ state' = "Playing"
      /\ view' = view /\ lastTime' = lastTime /\ turning' = turning
      /\ published' = published
      /\ PrepareCursor(position)
  BY <1>a DEF Start, StartPosition, CursorInv, shownVars
<1>1. bag \in Bags /\ position \in Nat /\ published.at \in Nat /\ cursorReady
  BY <1>a, BagFacts DEF TypeOK, CursorInv
<1>2. /\ cursor' = RowFrom(position)
      /\ cursor' \in 1 .. Len(bag) + 1
      /\ \A j \in Rows : j < cursor' => bag[j].ts < position
      /\ \A j \in Rows : cursor' <= j => bag[j].ts >= position
  BY <1>b, <1>1, RowFromFound DEF PrepareCursor
<1>3. TypeOK'
  <2>1. Begin' = Begin /\ End' = End
    BY <1>b DEF Begin, End
  <2>. QED BY <1>a, <1>b, <1>2, <2>1 DEF TypeOK, PrepareCursor
<1>4. CursorInv'
  <2>1. cursor' <= Len(bag) => cursor' \in Rows
    BY <1>1, <1>2, BagFacts
  <2>2. cursor' <= Len(bag) =>
          bag[cursor'].ts >= position /\ bag[cursor'].ts \in Nat
    BY <1>1, <1>2, <2>1, BagFacts
  <2>. QED BY <1>a, <1>b, <1>1, <2>2 DEF CursorInv, PrepareCursor
<1>5. PathInv'
  <2>1. ASSUME NEW i \in Rows, i < cursor' PROVE i < cursor
    <3>1. bag[i].ts < position /\ cursor \in 1 .. Len(bag) + 1
      BY <1>a, <1>2, <2>1 DEF TypeOK
    <3>2. cursor <= Len(bag) => bag[cursor].ts >= position
      BY <1>a, <1>b, <1>1 DEF CursorInv
    <3>3. ASSUME cursor <= i PROVE FALSE
      <4>1. cursor \in Rows /\ cursor <= Len(bag)
        BY <1>1, <3>1, <3>3, BagFacts
      <4>2. bag[cursor].ts <= bag[i].ts /\ bag[i].ts \in Nat /\ bag[cursor].ts \in Nat
        BY <1>1, <3>3, <4>1, BagFacts
      <4>. QED BY <1>1, <3>1, <3>2, <4>1, <4>2
    <3>. QED BY <1>1, <3>1, <3>3, BagFacts
  <2>. QED BY <1>a, <1>b, <1>1, <2>1 DEF PathInv, Rows
<1>6. PathsAfterTurn'
  BY <1>a, <1>b DEF PathsAfterTurn, Rows
<1>. QED BY <1>3, <1>4, <1>5, <1>6 DEF PlaybackInv

\* The commands that empty the snapshot.
LEMMA EmptyingStep ==
  ASSUME PlaybackInv, (Start /\ state # "Playing") \/ Stop \/ Load
  PROVE  PlaybackInv' /\ published' = NoFrame
<1>a. TypeOK /\ CursorInv
  BY DEF PlaybackInv
<1>1. bag \in Bags /\ Begin \in Begin .. End /\ position \in Begin .. End
  <2>1. Begin <= End
    BY <1>a, BagFacts DEF TypeOK
  <2>. QED BY <1>a, <2>1, BagFacts DEF TypeOK
<1>2. CASE Start /\ state # "Playing"
  <2>1. /\ pc = "idle" /\ ResetSnapshot /\ UNCHANGED <<bag, pc, processed, opened>>
        /\ position' = StartPosition /\ StartPosition \in Begin .. End
        /\ state \in {"Ready", "Stopped", "Completed"}
    BY <1>1, <1>2 DEF Start, StartPosition
  <2>2. \/ opened /\ state' = "Playing" /\ PrepareCursor(position')
        \/ ~opened /\ state' = state /\ NoCursor
    BY <1>2, <2>1 DEF Start
  <2>. QED BY <1>a, <2>1, <2>2, ResetStep DEF TypeOK, CursorInv, ResetSnapshot
<1>3. CASE Stop
  BY <1>a, <1>1, <1>3, ResetStep DEF Stop, TypeOK, ResetSnapshot
<1>4. CASE Load
  BY <1>a, <1>1, <1>4, ResetStep DEF Load, TypeOK, ResetSnapshot
<1>. QED BY <1>2, <1>3, <1>4

\* A seek in an open bag.
LEMMA SeekStep ==
  ASSUME PlaybackInv, NEW t \in Begin .. End, Seek(t)
  PROVE  PlaybackInv'
<1>a. TypeOK /\ CursorInv
  BY DEF PlaybackInv
<1>b. /\ bag' = bag /\ opened' = opened /\ state' = state /\ pc' = pc /\ pc = "idle"
      /\ processed' = processed /\ position' = t
  BY DEF Seek
<1>1. bag \in Bags /\ t \in Nat
  BY <1>a, BagFacts DEF TypeOK
<1>2. Begin' = Begin /\ End' = End /\ Rows' = Rows
  BY <1>b DEF Begin, End, Rows
<1>3. CASE ~opened
  <2>1. NoCursor /\ Publish(t, Nothing, [p \in Topics |-> 0], FALSE)
    BY <1>3 DEF Seek, RebuildNothing
  <2>2. Nothing \in [Topics -> 0 .. Len(bag)] /\ [p \in Topics |-> 0] \in [Topics -> Nat]
    BY <1>1, BagFacts DEF Nothing, None
  <2>3. /\ view' \in [Topics -> 0 .. Len(bag)]
        /\ lastTime' \in [Topics -> Nat]
        /\ turning' \in BOOLEAN
        /\ published' \in [at : Nat, view : [Topics -> 0 .. Len(bag)]]
    BY <1>1, <2>1, <2>2, PublishTypes
  <2>4. view'["path"] = None /\ turning' = FALSE /\ published'.at = t /\ published'.view = view'
    BY <2>1 DEF Publish, Nothing, Topics
  <2>5. TypeOK'
    BY <1>a, <1>b, <1>2, <2>1, <2>3 DEF TypeOK, NoCursor
  <2>6. CursorInv'
    BY <1>a, <1>b, <1>1, <1>3, <2>1, <2>4 DEF CursorInv, NoCursor
  <2>7. PathInv' /\ PathsAfterTurn'
    BY <2>4 DEF PathInv, PathsAfterTurn
  <2>. QED BY <2>5, <2>6, <2>7 DEF PlaybackInv
<1>4. CASE opened
  <2> DEFINE rows == [p \in Topics |-> RebuiltRow(p, t)]
             times == [p \in Topics |-> RebuiltTime(p, t)]
             command == LastOf(Commands, t)
             turn == command # None /\ bag[command].kind = "turn"
  <2>1. PrepareCursor(t + 1) /\ Publish(t, rows, times, turn)
    BY <1>4 DEF Seek, RebuildAt
  <2>2. rows \in [Topics -> 0 .. Len(bag)] /\ times \in [Topics -> Nat] /\ turn \in BOOLEAN
    BY <1>1, RebuiltTypes
  <2>3. /\ view' \in [Topics -> 0 .. Len(bag)]
        /\ lastTime' \in [Topics -> Nat]
        /\ turning' \in BOOLEAN
        /\ published' \in [at : Nat, view : [Topics -> 0 .. Len(bag)]]
    <3> HIDE DEF rows, times, turn
    <3>. QED BY <1>1, <2>1, <2>2, PublishTypes
  <2>4. /\ published'.at = t /\ published'.view = view'
        /\ view'["path"] # None => view'["path"] = RebuiltRow("path", t)
        /\ turning' <=> turn /\ Fresh(RebuiltTime("command", t), t)
    BY <2>1 DEF Publish, Topics
  <2>5. /\ cursor' \in 1 .. Len(bag) + 1
        /\ \A j \in Rows : j < cursor' => bag[j].ts < t + 1
        /\ \A j \in Rows : cursor' <= j => bag[j].ts >= t + 1
    <3>1. t + 1 \in Nat
      BY <1>1
    <3>. QED BY <1>1, <2>1, <3>1, RowFromFound DEF PrepareCursor
  <2>6. TypeOK'
    BY <1>a, <1>b, <1>2, <2>1, <2>3, <2>5 DEF TypeOK, PrepareCursor
  <2>7. CursorInv'
    <3>1. cursor' <= Len(bag) => bag[cursor'].ts >= t + 1 /\ bag[cursor'].ts \in Nat
      <4>1. cursor' <= Len(bag) => cursor' \in Rows
        BY <1>1, <2>5, BagFacts
      <4>. QED BY <1>1, <2>5, <4>1, BagFacts
    <3>. QED BY <1>a, <1>b, <1>1, <2>1, <2>4, <3>1 DEF CursorInv, PrepareCursor
  <2>8. ASSUME view'["path"] # None, NEW i \in Rows, bag[i].kind = "turn", bag[i].ts <= t
        PROVE  i < view'["path"]
    BY <1>1, <2>4, <2>8, RebuiltPath
  <2>9. ASSUME view'["path"] # None, turning' PROVE FALSE
    <3>1. turn /\ Fresh(RebuiltTime("command", t), t)
      BY <2>4, <2>9
    <3>2. t > bag[command].ts + Timeout
      BY <1>1, <2>4, <2>9, <3>1, RebuiltPath
    <3>3. Candidates("command") = Commands
      BY DEF Candidates, Commands, TopicOf
    <3>4. RebuiltTime("command", t) = bag[command].ts
      BY <3>1, <3>3 DEF RebuiltTime
    <3>5. command \in Rows
      <4>1. Commands \in SUBSET Rows
        BY DEF Commands
      <4>. QED BY <1>1, <3>1, <4>1, LastOfFound
    <3>6. bag[command].ts \in Nat /\ Timeout \in Nat
      BY <1>1, <3>5, BagFacts, BagsAssumption
    <3>. QED BY <1>1, <3>1, <3>2, <3>4, <3>6 DEF Fresh
  <2>10. PathInv'
    <3>1. \A i \in Rows : i < cursor' => bag[i].ts <= t
      BY <1>1, <2>5, BagFacts
    <3>. QED BY <1>b, <1>2, <2>3, <2>8, <2>9, <3>1 DEF PathInv
  <2>11. PathsAfterTurn'
    <3>1. \A i \in Rows : bag[i].ts < t => bag[i].ts <= t
      BY <1>1, BagFacts
    <3>. QED BY <1>b, <1>2, <2>4, <2>8, <3>1 DEF PathsAfterTurn
  <2>. QED BY <2>6, <2>7, <2>10, <2>11 DEF PlaybackInv
<1>. QED BY <1>3, <1>4

\* Every step keeps the invariant, and only seeks publish an older frame.
LEMMA PlaybackStep ==
  ASSUME PlaybackInv, [Next]_vars
  PROVE  /\ PlaybackInv'
         /\ published' # NoFrame /\ ~Seeks => published'.at >= published.at
<1>1. CASE UNCHANGED vars
  <2>1. published'.at >= published.at
    BY <1>1 DEF vars, PlaybackInv, TypeOK
  <2> USE <1>1 DEF vars, shownVars, cursorVars, PlaybackInv
  <2>2. TypeOK'
    BY DEF TypeOK, Begin, End
  <2>3. CursorInv'
    BY DEF CursorInv
  <2>4. PathInv' /\ PathsAfterTurn'
    BY DEF PathInv, PathsAfterTurn, Rows
  <2>. QED BY <2>1, <2>2, <2>3, <2>4
<1>2. CASE Tick \/ Pause \/ SetRate
  <2>1. published' = published /\ published.at \in Nat
    BY <1>2 DEF Tick, Pause, SetRate, Synchronize, PlaybackInv, TypeOK
  <2>. QED BY <1>2, <2>1, SynchronizeStep DEF Tick, Pause, SetRate
<1>3. CASE ProcessRow
  <2>1. published' = published /\ published.at \in Nat
    BY <1>3 DEF ProcessRow, PlaybackInv, TypeOK
  <2>. QED BY <1>3, <2>1, ProcessRowStep
<1>4. CASE TargetReached
  BY <1>4, TargetReachedStep
<1>5. CASE BudgetSpent
  BY <1>5, BudgetSpentStep
<1>6. CASE Resume \/ LoadFails
  <2>1. published' = published /\ published.at \in Nat
    BY <1>6 DEF Resume, LoadFails, PlaybackInv, TypeOK
  <2>. QED BY <1>6, <2>1, ResumeStep
<1>7. CASE Start /\ state = "Playing"
  <2>1. published' = published /\ published.at \in Nat
    BY <1>7 DEF Start, PlaybackInv, TypeOK
  <2>. QED BY <1>7, <2>1, RestartStep
<1>8. CASE (Start /\ state # "Playing") \/ Stop \/ Load
  BY <1>8, EmptyingStep
<1>9. CASE Seeks
  BY <1>9, SeekStep DEF Seeks
<1>. QED BY <1>1, <1>2, <1>3, <1>4, <1>5, <1>6, <1>7, <1>8, <1>9 DEF Next
-----------------------------------------------------------------------------
(* The last row of a set among the first k                                 *)

LEMMA LastWithinFound ==
  ASSUME bag \in Bags, NEW S \in SUBSET Rows, NEW k \in Nat
  PROVE  \/ LastWithin(S, k) = None /\ \A i \in S : i > k
         \/ /\ LastWithin(S, k) \in S /\ LastWithin(S, k) <= k
            /\ \A i \in S : i <= k => i <= LastWithin(S, k)
<1> DEFINE past == S \cap (1 .. k)
<1>0. S \subseteq Nat \ {0} /\ S \subseteq 1 .. Len(bag)
  BY BagFacts
<1>1. CASE past = {}
  <2>1. LastWithin(S, k) = None
    BY <1>1 DEF LastWithin
  <2>. QED BY <1>0, <1>1, <2>1
<1>2. CASE past # {}
  <2>1. past \subseteq 0 .. k
    OBVIOUS
  <2>2. \E i \in past : \A j \in past : j <= i
    <3> HIDE DEF past
    <3>. QED BY <1>2, <2>1, Greatest
  <2>3. LastWithin(S, k) = CHOOSE i \in past : \A j \in past : j <= i
    BY <1>2 DEF LastWithin
  <2>4. LastWithin(S, k) \in past /\ \A j \in past : j <= LastWithin(S, k)
    BY <2>2, <2>3
  <2>. QED BY <1>0, <2>4
<1>. QED BY <1>1, <1>2

LEMMA LastWithinNat ==
  ASSUME bag \in Bags, NEW S \in SUBSET Rows, NEW k \in Nat
  PROVE  LastWithin(S, k) \in Nat /\ LastWithin(S, k) <= k
<1>1. S \subseteq Nat
  BY BagFacts
<1>2. \/ LastWithin(S, k) = None
      \/ LastWithin(S, k) \in S /\ LastWithin(S, k) <= k
  BY LastWithinFound
<1>3. CASE LastWithin(S, k) = None
  BY <1>3 DEF None
<1>4. CASE LastWithin(S, k) \in S /\ LastWithin(S, k) <= k
  BY <1>1, <1>4
<1>. QED BY <1>2, <1>3, <1>4

\* There is no other such row.
LEMMA LastIsOne ==
  ASSUME NEW S, S \subseteq Nat \ {0}, NEW k \in Nat, NEW i \in Nat, NEW j \in Nat,
         \/ i = 0 /\ \A l \in S : l > k
         \/ i \in S /\ i <= k /\ \A l \in S : l <= k => l <= i,
         \/ j = 0 /\ \A l \in S : l > k
         \/ j \in S /\ j <= k /\ \A l \in S : l <= k => l <= j
  PROVE  i = j
<1>1. ASSUME i \in S, i <= k, \A l \in S : l > k PROVE FALSE
  BY <1>1
<1>2. ASSUME j \in S, j <= k, \A l \in S : l > k PROVE FALSE
  BY <1>2
<1>. QED BY <1>1, <1>2

LEMMA LastWithinIs ==
  ASSUME bag \in Bags, NEW S \in SUBSET Rows, NEW k \in Nat, NEW row \in Nat,
         \/ row = None /\ \A i \in S : i > k
         \/ row \in S /\ row <= k /\ \A i \in S : i <= k => i <= row
  PROVE  LastWithin(S, k) = row
<1>1. S \subseteq Nat \ {0}
  BY BagFacts
<1>2. \/ LastWithin(S, k) = None /\ \A i \in S : i > k
      \/ /\ LastWithin(S, k) \in S /\ LastWithin(S, k) <= k
         /\ \A i \in S : i <= k => i <= LastWithin(S, k)
  BY LastWithinFound
<1>3. LastWithin(S, k) \in Nat
  <2>1. None \in Nat /\ LastWithin(S, k) \in S \cup {None}
    BY <1>2 DEF None
  <2>. QED BY <1>1, <2>1
<1> DEFINE last == LastWithin(S, k)
<1> HIDE DEF last
<1>4. /\ last \in Nat
      /\ \/ last = 0 /\ \A i \in S : i > k
         \/ last \in S /\ last <= k /\ \A i \in S : i <= k => i <= last
  BY <1>2, <1>3 DEF last, None
<1>5. \/ row = 0 /\ \A i \in S : i > k
      \/ row \in S /\ row <= k /\ \A i \in S : i <= k => i <= row
  BY DEF None
<1>6. last = row
  BY <1>1, <1>4, <1>5, LastIsOne
<1>. QED BY <1>6 DEF last

LEMMA LastWithinNone ==
  ASSUME bag \in Bags, NEW S \in SUBSET Rows
  PROVE  LastWithin(S, 0) = None
<1>1. \A i \in S : i > 0
  BY BagFacts
<1>. QED BY <1>1, LastWithinIs DEF None

LEMMA LastWithinNext ==
  ASSUME bag \in Bags, NEW S \in SUBSET Rows, NEW k \in Nat
  PROVE  LastWithin(S, k + 1) = IF k + 1 \in S THEN k + 1 ELSE LastWithin(S, k)
<1>1. S \subseteq Nat \ {0}
  BY BagFacts
<1> DEFINE last == LastWithin(S, k)
<1>2. \/ last = None /\ \A i \in S : i > k
      \/ last \in S /\ last <= k /\ \A i \in S : i <= k => i <= last
  BY LastWithinFound
<1> HIDE DEF last
<1>3. CASE k + 1 \in S
  <2>1. \A i \in S : i <= k + 1 => i <= k + 1
    OBVIOUS
  <2>. QED BY <1>3, <2>1, LastWithinIs
<1>4. CASE k + 1 \notin S
  <2>1. \/ last = None /\ \A i \in S : i > k + 1
        \/ last \in S /\ last <= k + 1 /\ \A i \in S : i <= k + 1 => i <= last
    <3>1. \A i \in S : i <= k + 1 <=> i <= k
      BY <1>1, <1>4
    <3>2. \A i \in S : i > k + 1 <=> i > k
      BY <1>1, <1>4
    <3>3. last \in S /\ last <= k => last <= k + 1
      BY <1>1
    <3>. QED BY <1>2, <3>1, <3>2, <3>3
  <2>2. LastWithin(S, k + 1) = last
    <3>1. last \in Nat /\ k + 1 \in Nat
      <4>1. None \in Nat /\ last \in S \cup {None}
        BY <1>2 DEF None
      <4>. QED BY <1>1, <4>1
    <3>. QED BY <2>1, <3>1, LastWithinIs
  <2>. QED BY <1>4, <2>2 DEF last
<1>. QED BY <1>3, <1>4

\* A query up to time t looks at the rows before the cursor that is at t.
LEMMA LastOfIsWithin ==
  ASSUME bag \in Bags, NEW S \in SUBSET Rows, NEW k \in Nat, NEW t \in Nat,
         \A i \in Rows : i <= k <=> bag[i].ts <= t
  PROVE  LastOf(S, t) = LastWithin(S, k)
<1>1. \/ LastOf(S, t) = None /\ \A i \in S : bag[i].ts > t
      \/ /\ LastOf(S, t) \in S
         /\ bag[LastOf(S, t)].ts <= t
         /\ \A i \in S : bag[i].ts <= t => i <= LastOf(S, t)
  BY LastOfFound
<1> DEFINE row == LastOf(S, t)
<1> HIDE DEF row
<1>2. \/ row = None /\ \A i \in S : bag[i].ts > t
      \/ row \in S /\ bag[row].ts <= t /\ \A i \in S : bag[i].ts <= t => i <= row
  BY <1>1 DEF row
<1>3. \A i \in S : i \in Nat /\ bag[i].ts \in Nat
  BY BagFacts
<1>4. \/ row = None /\ \A i \in S : i > k
      \/ row \in S /\ row <= k /\ \A i \in S : i <= k => i <= row
  BY <1>2, <1>3
<1>5. LastWithin(S, k) = row
  <2>1. row \in Nat
    BY <1>2, <1>3 DEF None
  <2>. QED BY <1>4, <2>1, LastWithinIs
<1>. QED BY <1>5 DEF row

LEMMA RowSets ==
  /\ Commands \in SUBSET Rows /\ Exits \in SUBSET Rows /\ Exits \subseteq Commands
  /\ \A topic \in Topics : Candidates(topic) \in SUBSET Rows
BY DEF Commands, Exits, Candidates
-----------------------------------------------------------------------------
(* Center turns                                                            *)

LEMMA TurnsHeardBefore ==
  ASSUME bag \in Bags, NEW p \in Nat, NEW t \in Nat, p <= t, TurnsHeard(t)
  PROVE  TurnsHeard(p)
<1>1. \A i \in Commands : bag[i].ts \in Nat
  BY RowSets, BagFacts
<1>2. ASSUME NEW i \in Commands, bag[i].kind = "turn", bag[i].ts + Timeout < p
      PROVE  bag[i].ts + Timeout < t
  BY <1>1, <1>2, BagsAssumption
<1>. QED BY <1>2 DEF TurnsHeard

\* A center turn that is going on has not timed out.
LEMMA TurnFresh ==
  ASSUME bag \in Bags, NEW t \in Nat, TurnsHeard(t), NEW k \in Nat,
         \A i \in Rows : i > k => bag[i].ts >= t,
         LastWithin(Commands, k) # None, bag[LastWithin(Commands, k)].kind = "turn"
  PROVE  Fresh(bag[LastWithin(Commands, k)].ts, t)
<1> DEFINE c == LastWithin(Commands, k)
<1>1. c \in Commands /\ c <= k /\ \A i \in Commands : i <= k => i <= c
  BY RowSets, LastWithinFound
<1> HIDE DEF c
<1>2. \A i \in Commands : i \in Rows /\ i \in Nat /\ bag[i].ts \in Nat \ {0}
  BY RowSets, BagFacts
<1>3. bag[c].kind = "turn"
  BY DEF c
<1>4. ASSUME ~Fresh(bag[c].ts, t) PROVE FALSE
  <2>1. Timeout \in Nat /\ bag[c].ts + Timeout < t
    BY <1>1, <1>2, <1>4, BagsAssumption DEF Fresh
  <2>2. PICK j \in Commands : c < j /\ bag[j].ts <= bag[c].ts + Timeout
    BY <1>1, <1>3, <2>1 DEF TurnsHeard
  <2>3. j > k
    BY <1>1, <1>2, <2>2
  <2>. QED BY <1>1, <1>2, <2>1, <2>2, <2>3
<1>. QED BY <1>4 DEF c
-----------------------------------------------------------------------------
(* The view and the reference                                              *)

\* The reference is about the bag only.
LEMMA SyncedAfter ==
  ASSUME bag' = bag, Synced(view', lastTime', turning', cursor' - 1, published'.at)
  PROVE  Synced(view, lastTime, turning, cursor - 1, published.at)'
<1>1. Commands' = Commands /\ Rows' = Rows
  BY DEF Commands, Rows
<1>2. Exits' = Exits
  BY <1>1 DEF Exits
<1>3. ASSUME NEW topic PROVE Candidates(topic)' = Candidates(topic)
  BY <1>1 DEF Candidates
<1>4. ASSUME NEW k PROVE /\ LastWithin(Commands, k)' = LastWithin(Commands, k)
                         /\ LastWithin(Exits, k)' = LastWithin(Exits, k)
  BY <1>1, <1>2 DEF LastWithin
<1>5. ASSUME NEW topic, NEW k
      PROVE  LastWithin(Candidates(topic), k)' = LastWithin(Candidates(topic), k)
  <2>1. Candidates(topic)' = Candidates(topic)
    BY <1>3
  <2>. QED BY <2>1 DEF LastWithin
<1>6. ASSUME NEW t PROVE TurnsHeard(t)' <=> TurnsHeard(t)
  BY <1>1 DEF TurnsHeard
<1>7. ASSUME NEW topic, NEW k, NEW t
      PROVE  LatestTime(topic, k)' = LatestTime(topic, k) /\ Due(topic, k, t)' = Due(topic, k, t)
  BY <1>4, <1>5 DEF LatestTime, Due, Fresh
<1>. QED BY <1>4, <1>6, <1>7 DEF Synced, Fresh

\* An empty snapshot before the first row.
LEMMA SyncedEmpty ==
  ASSUME bag \in Bags
  PROVE  Synced(Nothing, [t \in Topics |-> 0], FALSE, 0, 0)
<1>1. \A topic \in Topics : LastWithin(Candidates(topic), 0) = None
  BY RowSets, LastWithinNone
<1>2. LastWithin(Commands, 0) = None
  BY RowSets, LastWithinNone
<1>. QED BY <1>1, <1>2 DEF Synced, LatestTime, Due, Nothing

\* What a topic shows is decided without the clock, but for the timeout.
LEMMA DueLater ==
  ASSUME bag \in Bags, NEW topic \in Topics, NEW k \in Nat, NEW t \in Nat, NEW now \in Nat,
         t <= now
  PROVE  /\ Fresh(LatestTime(topic, k), now) => Due(topic, k, t) = Due(topic, k, now)
         /\ ~Fresh(LatestTime(topic, k), now) => Due(topic, k, now) = None
<1> DEFINE i == LastWithin(Candidates(topic), k)
<1>1. i = None \/ i \in Rows
  BY RowSets, LastWithinFound
<1>2. i # None => LatestTime(topic, k) = bag[i].ts /\ bag[i].ts \in Nat
  BY <1>1, BagFacts DEF LatestTime
<1>3. i = None => LatestTime(topic, k) = 0
  BY DEF LatestTime
<1>4. ASSUME i # None PROVE Fresh(bag[i].ts, now) => Fresh(bag[i].ts, t)
  BY <1>2, <1>4, BagsAssumption DEF Fresh
<1>. QED BY <1>2, <1>3, <1>4 DEF Due, Fresh

\* Publishing a later time keeps the view in step.
LEMMA PublishSynced ==
  ASSUME TypeOK, NEW k \in Nat, NEW now \in Nat, published.at <= now,
         Synced(view, lastTime, turning, k, published.at),
         Publish(now, view, lastTime, turning)
  PROVE  Synced(view', lastTime', turning', k, now)
<1>1. bag \in Bags /\ published.at \in Nat
  BY DEF TypeOK
<1>2. PICK t \in Nat : t = published.at /\ t <= now /\ Synced(view, lastTime, turning, k, t)
  BY <1>1
<1>3. \A topic \in Topics : lastTime[topic] = LatestTime(topic, k)
  BY <1>2 DEF Synced
<1>4. \A topic \in Topics : lastTime'[topic] = LatestTime(topic, k)
  BY <1>3 DEF Publish
<1> DEFINE command == LastWithin(Commands, k)
           turn == command # None /\ bag[command].kind = "turn"
<1>5. turning' <=> turn /\ Fresh(bag[command].ts, now)
  <2>1. turning <=> turn /\ Fresh(bag[command].ts, t)
    BY <1>2 DEF Synced
  <2>2. Candidates("command") = Commands
    BY DEF Candidates, Commands, TopicOf
  <2>3. turn => lastTime["command"] = bag[command].ts
    BY <1>3, <2>2 DEF LatestTime, Topics
  <2>4. turn => bag[command].ts \in Nat
    BY <1>1, RowSets, LastWithinFound, BagFacts
  <2>5. turn /\ Fresh(bag[command].ts, now) => Fresh(bag[command].ts, t)
    BY <1>2, <2>4, BagsAssumption DEF Fresh
  <2>6. turning' <=> turning /\ Fresh(lastTime["command"], now)
    BY DEF Publish
  <2> HIDE DEF turn, command
  <2>. QED BY <2>1, <2>3, <2>5, <2>6
<1>6. ASSUME NEW topic \in Topics, topic # "path" \/ TurnsHeard(now)
      PROVE  view'[topic] = Due(topic, k, now)
  <2>1. topic # "path" \/ TurnsHeard(t)
    BY <1>1, <1>2, <1>6, TurnsHeardBefore
  <2>2. view[topic] = Due(topic, k, t)
    BY <1>2, <2>1 DEF Synced
  <2>3. view'[topic] = IF Fresh(LatestTime(topic, k), now) THEN view[topic] ELSE None
    BY <1>3 DEF Publish
  <2>. QED BY <1>1, <1>2, <2>2, <2>3, DueLater
<1>. QED BY <1>4, <1>5, <1>6 DEF Synced

\* A command that ends a center turn is one behind a turning command.
LEMMA ExitAfterTurn ==
  ASSUME bag \in Bags, NEW k \in Nat, k + 1 \in Commands, bag[k + 1].kind = "straight"
  PROVE  k + 1 \in Exits <=> /\ LastWithin(Commands, k) # None
                             /\ bag[LastWithin(Commands, k)].kind = "turn"
<1> DEFINE last == LastWithin(Commands, k)
<1>1. \/ last = None /\ \A i \in Commands : i > k
      \/ last \in Commands /\ last <= k /\ \A i \in Commands : i <= k => i <= last
  BY RowSets, LastWithinFound
<1>2. \A i \in Commands : i \in Nat \ {0}
  BY RowSets, BagFacts
<1> HIDE DEF last
<1>3. ASSUME k + 1 \in Exits PROVE last # None /\ bag[last].kind = "turn"
  <2>1. PICK j \in Commands : /\ j < k + 1 /\ bag[j].kind = "turn"
                              /\ \A i \in Commands : i <= j \/ i >= k + 1
    BY <1>3 DEF Exits
  <2>2. j <= k
    BY <1>2, <2>1
  <2>3. ~(j > k)
    BY <1>2, <2>2
  <2>4. last \in Commands /\ last <= k /\ j <= last
    BY <1>1, <2>2, <2>3
  <2>5. last <= j
    BY <1>2, <2>1, <2>4
  <2>6. last = j
    BY <1>2, <2>4, <2>5
  <2>. QED BY <1>2, <2>1, <2>6 DEF None
<1>4. ASSUME last # None, bag[last].kind = "turn" PROVE k + 1 \in Exits
  <2>1. last \in Commands /\ last <= k /\ \A i \in Commands : i <= k => i <= last
    BY <1>1, <1>4
  <2>2. last < k + 1 /\ \A i \in Commands : i <= last \/ i >= k + 1
    BY <1>2, <2>1
  <2>. QED BY <1>4, <2>1, <2>2 DEF Exits
<1>. QED BY <1>3, <1>4 DEF last

LEMMA ExitAfterCommand ==
  ASSUME bag \in Bags, NEW k \in Nat, LastWithin(Commands, k) = None
  PROVE  LastWithin(Exits, k) = None
<1>1. \A i \in Commands : i > k /\ i \in Nat
  <2>1. \A i \in Commands : i # None /\ i \in Nat
    BY RowSets, BagFacts DEF None
  <2>. QED BY <2>1, RowSets, LastWithinFound
<1>2. \A i \in Exits : i > k
  BY <1>1, RowSets
<1>3. None \in Nat
  BY DEF None
<1>. QED BY <1>2, <1>3, RowSets, LastWithinIs

\* The path after one more row.  Where no turning command went silent, the
\* worker is in a center turn exactly when the last command began one.
LEMMA PathSynced ==
  ASSUME bag \in Bags, view \in [Topics -> 0 .. Len(bag)], NEW k \in Nat, NEW t \in Nat,
         k + 1 \in Rows, \A i \in Rows : i > k => bag[i].ts >= t,
         turning => view["path"] = None,
         Synced(view, lastTime, turning, k, t), ApplyRow(k + 1), TurnsHeard(t)
  PROVE  view'["path"] = Due("path", k + 1, t)
<1> DEFINE command == LastWithin(Commands, k)
           turn == command # None /\ bag[command].kind = "turn"
           path == LastWithin(Candidates("path"), k)
           exit == LastWithin(Exits, k)
<1>1. bag[k + 1].ts \in Nat \ {0} /\ bag[k + 1].ts >= t /\ bag[k + 1].kind \in Kind
  BY BagFacts
<1>2. Fresh(bag[k + 1].ts, t)
  BY <1>1, BagsAssumption DEF Fresh
<1>3. turning <=> turn
  BY TurnFresh DEF Synced
<1>4. view["path"] = Due("path", k, t)
  BY DEF Synced, Topics
<1>5. path \in Nat /\ path <= k /\ exit \in Nat /\ exit <= k
  BY RowSets, LastWithinNat DEF Topics
<1>6. /\ LastWithin(Commands, k + 1) = IF k + 1 \in Commands THEN k + 1 ELSE command
      /\ LastWithin(Exits, k + 1) = IF k + 1 \in Exits THEN k + 1 ELSE exit
      /\ LastWithin(Candidates("path"), k + 1) =
           IF k + 1 \in Candidates("path") THEN k + 1 ELSE path
  BY RowSets, LastWithinNext DEF Topics
<1>7. /\ k + 1 \in Commands <=> bag[k + 1].kind \in {"turn", "straight"}
      /\ k + 1 \in Candidates("path") <=> bag[k + 1].kind = "path"
      /\ k + 1 \in Exits => bag[k + 1].kind = "straight"
  BY <1>1 DEF Commands, Candidates, Exits, TopicOf, Kind
<1>8. bag[k + 1].kind = "straight" => (k + 1 \in Exits <=> turn)
  BY <1>7, ExitAfterTurn
<1>9. command = None => exit = None
  BY ExitAfterCommand
<1> HIDE DEF command, turn, path, exit
<1>10. CASE bag[k + 1].kind = "path"
  <2>1. view'["path"] = IF turning THEN None ELSE k + 1
    BY <1>10 DEF ApplyRow, TopicOf, Topics
  <2>2. Due("path", k + 1, t) = IF turn THEN None ELSE k + 1
    BY <1>2, <1>5, <1>6, <1>7, <1>10 DEF Due, turn, None
  <2>. QED BY <1>3, <2>1, <2>2
<1>11. CASE bag[k + 1].kind = "turn"
  <2>1. view'["path"] = None
    BY <1>11 DEF ApplyRow, TopicOf, Topics
  <2>. QED BY <1>6, <1>7, <1>11, <2>1 DEF Due, None
<1>12. CASE bag[k + 1].kind = "straight"
  <2>1. view'["path"] = view["path"]
    BY <1>12 DEF ApplyRow, TopicOf, Topics
  <2>2. LastWithin(Commands, k + 1) = k + 1 /\ k + 1 # None
    BY <1>6, <1>7, <1>12 DEF None
  <2>3. CASE turn
    <3>1. LastWithin(Exits, k + 1) = k + 1 /\ path < k + 1
      BY <1>5, <1>6, <1>8, <1>12, <2>3
    <3>2. Due("path", k + 1, t) = None
      BY <1>6, <1>7, <1>12, <2>2, <3>1 DEF Due
    <3>. QED BY <1>3, <2>1, <2>3, <3>2
  <2>4. CASE ~turn
    <3>1. LastWithin(Exits, k + 1) = exit
      BY <1>6, <1>8, <1>12, <2>4
    <3>2. /\ Due("path", k + 1, t) = IF path = None \/ path < exit \/ ~Fresh(bag[path].ts, t)
                                     THEN None ELSE path
          /\ Due("path", k, t) = IF path = None \/ (command # None /\ path < exit)
                                     \/ ~Fresh(bag[path].ts, t)
                                 THEN None ELSE path
      BY <1>6, <1>7, <1>12, <2>2, <2>4, <3>1 DEF Due, turn, command, path, exit
    <3>3. command = None => ~(path < exit)
      BY <1>5, <1>9 DEF None
    <3>. QED BY <1>4, <2>1, <3>2, <3>3
  <2>. QED BY <2>3, <2>4
<1>13. CASE bag[k + 1].kind \in {"target", "badTarget", "pose"}
  <2>1. view'["path"] = view["path"]
    BY <1>13 DEF ApplyRow, TopicOf, Topics, shownVars
  <2>2. Due("path", k + 1, t) = Due("path", k, t)
    BY <1>6, <1>7, <1>13 DEF Due, command, path, exit
  <2>. QED BY <1>4, <2>1, <2>2
<1>. QED BY <1>1, <1>10, <1>11, <1>12, <1>13 DEF Kind

\* One more row keeps the view in step.
LEMMA RowSynced ==
  ASSUME TypeOK, NEW k \in Nat, NEW t \in Nat,
         k + 1 \in Rows, \A i \in Rows : i > k => bag[i].ts >= t,
         turning => view["path"] = None,
         Synced(view, lastTime, turning, k, t), ApplyRow(k + 1)
  PROVE  Synced(view', lastTime', turning', k + 1, t)
<1> DEFINE row == k + 1
           own == TopicOf(bag[row].kind)
<1>1. /\ bag \in Bags /\ view \in [Topics -> 0 .. Len(bag)] /\ lastTime \in [Topics -> Nat]
      /\ bag[row].ts \in Nat \ {0} /\ bag[row].ts >= t /\ bag[row].kind \in Kind
  BY BagFacts DEF TypeOK
<1>2. Fresh(bag[row].ts, t) /\ row # None
  BY <1>1, BagsAssumption DEF Fresh, None
<1>3. own \in Topics
  BY <1>1 DEF TopicOf, Topics, Kind
<1>4. ASSUME NEW topic \in Topics
      PROVE  LastWithin(Candidates(topic), row) =
               IF topic = own /\ bag[row].kind # "badTarget" THEN row
               ELSE LastWithin(Candidates(topic), k)
  <2>1. row \in Candidates(topic) <=> topic = own /\ bag[row].kind # "badTarget"
    BY DEF Candidates
  <2>. QED BY <1>1, <2>1, RowSets, LastWithinNext
<1>5. LastWithin(Commands, row) = IF own = "command" THEN row ELSE LastWithin(Commands, k)
  <2>1. row \in Commands <=> own = "command"
    BY DEF Commands
  <2>. QED BY <1>1, <2>1, RowSets, LastWithinNext
<1>6. /\ \A topic \in Topics : lastTime[topic] = LatestTime(topic, k)
      /\ turning <=> LET command == LastWithin(Commands, k)
                     IN  /\ command # None /\ bag[command].kind = "turn"
                         /\ Fresh(bag[command].ts, t)
      /\ \A topic \in Topics : topic # "path" => view[topic] = Due(topic, k, t)
  BY DEF Synced
<1>7. TurnsHeard(t) => view'["path"] = Due("path", row, t)
  BY <1>1, PathSynced
<1>8. CASE bag[row].kind = "badTarget"
  <2>1. view' = view /\ lastTime' = lastTime /\ turning' = turning /\ own # "command"
    BY <1>8 DEF ApplyRow, shownVars, TopicOf
  <2>2. \A topic \in Topics : LastWithin(Candidates(topic), row) = LastWithin(Candidates(topic), k)
    BY <1>4, <1>8
  <2>3. \A topic \in Topics : /\ Due(topic, row, t) = Due(topic, k, t) \/ topic = "path"
                             /\ LatestTime(topic, row) = LatestTime(topic, k)
    <3> HIDE DEF row
    <3>. QED BY <2>2 DEF Due, LatestTime
  <2>4. LastWithin(Commands, row) = LastWithin(Commands, k)
    BY <1>5, <2>1
  <2> SUFFICES Synced(view', lastTime', turning', row, t)
    OBVIOUS
  <2> HIDE DEF row, own
  <2>. QED BY <1>6, <1>7, <2>1, <2>3, <2>4 DEF Synced
<1>9. CASE bag[row].kind # "badTarget"
  <2>1. /\ lastTime' = [lastTime EXCEPT ![own] = bag[row].ts]
        /\ turning' = IF own = "command" THEN bag[row].kind = "turn" ELSE turning
        /\ \A topic \in Topics : topic # "path" =>
              view'[topic] = IF topic = own THEN row ELSE view[topic]
    <3>1. \A topic \in Topics : topic # "path" =>
            view'[topic] = IF topic = own THEN row ELSE view[topic]
      <4> DEFINE p == IF bag[row].kind = "turn" /\ ~turning THEN None ELSE view["path"]
                 q == IF bag[row].kind = "path" /\ turning THEN None ELSE row
                 cleared == [view EXCEPT !["path"] = p]
      <4>1. view' = [cleared EXCEPT ![own] = q]
        BY <1>9 DEF ApplyRow
      <4>2. own # "path" => q = row
        BY DEF TopicOf
      <4>3. DOMAIN cleared = Topics /\ \A topic \in Topics : topic # "path" => cleared[topic] = view[topic]
        BY <1>1
      <4> HIDE DEF p, q, cleared, own, row
      <4>. QED BY <1>3, <4>1, <4>2, <4>3
    <3>. QED BY <1>9, <3>1 DEF ApplyRow
  <2>2. ASSUME NEW topic \in Topics PROVE lastTime'[topic] = LatestTime(topic, row)
    <3>1. LatestTime(topic, row) = IF topic = own THEN bag[row].ts ELSE LatestTime(topic, k)
      BY <1>2, <1>4, <1>9 DEF LatestTime
    <3> HIDE DEF row, own
    <3>. QED BY <1>1, <1>6, <2>1, <3>1
  <2>3. turning' <=> LET command == LastWithin(Commands, row)
                     IN  /\ command # None /\ bag[command].kind = "turn"
                         /\ Fresh(bag[command].ts, t)
    <3> HIDE DEF row, own
    <3>. QED BY <1>2, <1>5, <1>6, <2>1
  <2>4. ASSUME NEW topic \in Topics, topic # "path" PROVE view'[topic] = Due(topic, row, t)
    <3>1. Due(topic, row, t) = IF topic = own THEN row ELSE Due(topic, k, t)
      BY <1>2, <1>4, <1>9, <2>4 DEF Due
    <3> HIDE DEF row, own
    <3>. QED BY <1>6, <2>1, <2>4, <3>1
  <2> SUFFICES Synced(view', lastTime', turning', row, t)
    OBVIOUS
  <2> HIDE DEF row, own
  <2>. QED BY <1>7, <2>2, <2>3, <2>4 DEF Synced
<1>. QED BY <1>8, <1>9

\* A seek finds what playing to its target would have found, where no turning
\* command went silent.
LEMMA RebuiltIsDue ==
  ASSUME bag \in Bags, NEW k \in Nat, NEW t \in Nat, NEW topic \in Topics,
         \A i \in Rows : i <= k <=> bag[i].ts <= t, topic # "path" \/ TurnsHeard(t)
  PROVE  (IF Fresh(RebuiltTime(topic, t), t) THEN RebuiltRow(topic, t) ELSE None)
           = Due(topic, k, t)
<1> DEFINE i == LastOf(Candidates(topic), t)
           command == LastOf(Commands, t)
           exit == LastOf(Exits, t)
<1>1. /\ i = LastWithin(Candidates(topic), k)
      /\ command = LastWithin(Commands, k)
      /\ exit = LastWithin(Exits, k)
  BY RowSets, LastOfIsWithin
<1>2. i = None \/ (i \in Candidates(topic) /\ i \in Nat)
  BY RowSets, LastOfFound, BagFacts
<1>3. exit = None \/ exit \in Commands
  BY RowSets, LastOfFound
<1>4. command = None \/ command \in Commands
  BY RowSets, LastOfFound
<1>5. exit \in Nat
  BY RowSets, <1>1, LastWithinNat
<1>6. topic = "path" /\ command # None /\ bag[command].kind = "turn" =>
        ~(t > bag[command].ts + Timeout)
  <2>1. ASSUME topic = "path", command # None, bag[command].kind = "turn"
        PROVE  Fresh(bag[command].ts, t)
    <3>1. \A j \in Rows : j > k => bag[j].ts >= t
      BY BagFacts
    <3>. QED BY <1>1, <2>1, <3>1, TurnFresh
  <2>2. command # None => bag[command].ts \in Nat
    BY <1>4, RowSets, BagFacts
  <2>. QED BY <2>1, <2>2, BagsAssumption DEF Fresh
<1>7. command # None => bag[command].kind \in {"turn", "straight"}
  BY <1>4, RowSets, BagFacts DEF Commands, TopicOf, Kind
<1>8. i # None /\ topic = "path" => i # exit
  BY <1>2, <1>3 DEF Candidates, Commands, None
<1>9. i # None /\ topic = "path" =>
        (PathAllowed(i, t) <=> ~(/\ command # None
                                 /\ bag[command].kind = "turn" \/ i < exit))
  BY <1>2, <1>5, <1>6, <1>7, <1>8 DEF PathAllowed
<1>10. /\ RebuiltTime(topic, t) = IF i = None THEN 0 ELSE bag[i].ts
       /\ RebuiltRow(topic, t) = IF topic = "path" /\ i # None /\ ~PathAllowed(i, t)
                                 THEN None ELSE i
  BY DEF RebuiltTime, RebuiltRow
<1>11. Due(topic, k, t) =
         IF \/ i = None
            \/ /\ topic = "path" /\ command # None
               /\ bag[command].kind = "turn" \/ i < exit
            \/ ~Fresh(bag[i].ts, t)
         THEN None ELSE i
  BY <1>1 DEF Due
<1> HIDE DEF i, command, exit
<1>. QED BY <1>9, <1>10, <1>11 DEF Fresh

LEMMA RebuildSynced ==
  ASSUME bag \in Bags, NEW t \in Nat, RebuildAt(t)
  PROVE  /\ cursor' - 1 \in Nat
         /\ \A i \in Rows : i < cursor' => bag[i].ts <= t
         /\ Synced(view', lastTime', turning', cursor' - 1, t)
<1>1. /\ cursor' \in 1 .. Len(bag) + 1
      /\ \A j \in Rows : j < cursor' => bag[j].ts < t + 1
      /\ \A j \in Rows : cursor' <= j => bag[j].ts >= t + 1
  BY RowFromFound DEF RebuildAt, PrepareCursor
<1>2. PICK c \in Nat \ {0} : c = cursor'
  <2>1. Len(bag) \in Nat
    BY BagFacts
  <2>. QED BY <1>1, <2>1
<1> DEFINE k == c - 1
<1>k. k \in Nat
  OBVIOUS
<1>3. /\ \A i \in Rows : i <= k <=> bag[i].ts <= t
      /\ \A i \in Rows : i < c => bag[i].ts <= t
  <2>1. ASSUME NEW i \in Rows
        PROVE  (i <= k <=> bag[i].ts <= t) /\ (i < c => bag[i].ts <= t)
    <3>1. i \in Nat /\ bag[i].ts \in Nat
      BY BagFacts
    <3>2. /\ i < c => bag[i].ts < t + 1
          /\ c <= i => bag[i].ts >= t + 1
      BY <1>1, <1>2
    <3>. QED BY <3>1, <3>2
  <2>. QED BY <2>1
<1>0. \A S \in SUBSET Rows : LastOf(S, t) = LastWithin(S, k)
  <2> HIDE DEF k
  <2>. QED BY <1>k, <1>3, LastOfIsWithin
<1> HIDE DEF k
<1>4. \A topic \in Topics : lastTime'[topic] = LatestTime(topic, k)
  <2>1. ASSUME NEW topic \in Topics PROVE RebuiltTime(topic, t) = LatestTime(topic, k)
    <3>1. LastOf(Candidates(topic), t) = LastWithin(Candidates(topic), k)
      BY <1>0, RowSets
    <3>. QED BY <3>1 DEF RebuiltTime, LatestTime
  <2>. QED BY <2>1 DEF RebuildAt, Publish
<1>5. turning' <=> LET command == LastWithin(Commands, k)
                   IN  /\ command # None /\ bag[command].kind = "turn"
                       /\ Fresh(bag[command].ts, t)
  <2>1. LastOf(Commands, t) = LastWithin(Commands, k)
    BY <1>0, RowSets
  <2>2. Candidates("command") = Commands
    BY DEF Candidates, Commands, TopicOf
  <2>3. LastWithin(Commands, k) # None =>
          RebuiltTime("command", t) = bag[LastWithin(Commands, k)].ts
    BY <2>1, <2>2 DEF RebuiltTime
  <2>. QED BY <2>1, <2>3 DEF RebuildAt, Publish, Topics
<1>6. ASSUME NEW topic \in Topics, topic # "path" \/ TurnsHeard(t)
      PROVE  view'[topic] = Due(topic, k, t)
  <2>1. view'[topic] = IF Fresh(RebuiltTime(topic, t), t) THEN RebuiltRow(topic, t) ELSE None
    BY DEF RebuildAt, Publish
  <2>. QED BY <1>k, <1>3, <1>6, <2>1, RebuiltIsDue
<1>7. Synced(view', lastTime', turning', k, t)
  BY <1>4, <1>5, <1>6 DEF Synced
<1>8. cursor' - 1 = k
  BY <1>2 DEF k
<1>9. cursor' - 1 \in Nat /\ \A i \in Rows : i < cursor' => bag[i].ts <= t
  BY <1>k, <1>2, <1>3, <1>8
<1>. QED BY <1>7, <1>8, <1>9

-----------------------------------------------------------------------------
(* A view that follows the position                                        *)

\* At the begin nothing is shown.
LEMMA FollowInit == Init => FollowInv
BY DEF Init, FollowInv, NoFrame

\* The handlers before and in processUntil.
LEMMA FollowRow ==
  ASSUME PlaybackInv, FollowInv, ProcessRow
  PROVE  FollowInv'
<1> USE DEF ProcessRow, RowDue
<1>a. TypeOK /\ CursorInv /\ PathInv
  BY DEF PlaybackInv
<1>b. /\ bag' = bag /\ bag \in Bags /\ state' = "Playing" /\ position' = position
      /\ opened /\ cursorReady /\ cursorReady' = cursorReady /\ published' = published
      /\ published.at \in Nat /\ pc' # "idle"
  BY <1>a DEF CursorInv, TypeOK
<1>1. /\ Synced(view, lastTime, turning, cursor - 1, published.at)
      /\ \A i \in Rows : i < cursor => bag[i].ts <= position
  BY <1>b DEF FollowInv
<1>2. PICK k \in Nat : cursor = k + 1 /\ cursor - 1 = k
  <2>1. cursor \in Nat \ {0}
    BY <1>a, <1>b, BagFacts DEF TypeOK
  <2>. QED BY <2>1
<1>3. k + 1 \in Rows
  BY <1>b, <1>2, BagFacts
<1>4. \A i \in Rows : i > k => bag[i].ts >= published.at
  <2>1. bag[k + 1].ts >= published.at
    BY <1>a, <1>b, <1>2 DEF CursorInv
  <2>2. ASSUME NEW i \in Rows, i > k PROVE bag[i].ts >= published.at
    <3>1. k + 1 <= i /\ bag[i].ts \in Nat /\ bag[k + 1].ts \in Nat
      BY <1>b, <1>3, <2>2, BagFacts
    <3>2. bag[k + 1].ts <= bag[i].ts
      BY <1>b, <1>3, <2>2, <3>1, BagFacts
    <3>. QED BY <1>b, <2>1, <3>1, <3>2
  <2>. QED BY <2>2
<1>5. Synced(view, lastTime, turning, k, published.at) /\ ApplyRow(k + 1)
  BY <1>1, <1>2
<1>6. Synced(view', lastTime', turning', k + 1, published.at)
  <2>1. turning => view["path"] = None
    BY <1>a DEF PathInv
  <2>. QED BY <1>a, <1>b, <1>3, <1>4, <1>5, <2>1, RowSynced
<1>7. cursor' = k + 1 + 1 /\ cursor' - 1 = k + 1
  BY <1>2
<1>8. Synced(view, lastTime, turning, cursor - 1, published.at)'
  <2>1. Synced(view', lastTime', turning', cursor' - 1, published'.at)
    BY <1>b, <1>6, <1>7
  <2>. QED BY <1>b, <2>1, SyncedAfter
<1>9. \A i \in Rows' : i < cursor' => bag'[i].ts <= position'
  <2>1. Rows' = Rows
    BY <1>b DEF Rows
  <2>2. ASSUME NEW i \in Rows, i < cursor' PROVE bag[i].ts <= position
    <3>1. i < cursor \/ i = cursor
      BY <1>b, <1>2, <1>7, <2>2, BagFacts
    <3>. QED BY <1>1, <3>1
  <2>. QED BY <1>b, <2>1, <2>2
<1>. QED BY <1>b, <1>8, <1>9 DEF FollowInv

\* The end of a handler.
LEMMA FollowReturn ==
  ASSUME PlaybackInv, FollowInv, pc # "idle",
         Publish(position', view, lastTime, turning), Return,
         position' \in published.at .. position,
         \A i \in Rows : i < cursor => bag[i].ts <= position'
  PROVE  FollowInv'
<1>a. TypeOK /\ CursorInv
  BY DEF PlaybackInv
<1>b. /\ bag' = bag /\ bag \in Bags /\ opened' = opened /\ opened
      /\ cursor' = cursor /\ cursorReady' = cursorReady /\ cursorReady
      /\ state' \in {"Playing", "Paused", "Completed"}
      /\ published.at \in Nat /\ position \in Nat
      /\ published' = [at |-> position', view |-> view']
  BY <1>a, BagFacts DEF CursorInv, TypeOK, Return, Publish
<1>1. Synced(view, lastTime, turning, cursor - 1, published.at)
  BY <1>b DEF FollowInv
<1>2. cursor - 1 \in Nat /\ position' \in Nat /\ published.at <= position'
  BY <1>a, <1>b, BagFacts DEF TypeOK
<1>3. Synced(view', lastTime', turning', cursor - 1, position')
  BY <1>a, <1>1, <1>2, PublishSynced
<1>4. Synced(view, lastTime, turning, cursor - 1, published.at)'
  BY <1>b, <1>3, SyncedAfter
<1>5. \A i \in Rows' : i < cursor' => bag'[i].ts <= position'
  BY <1>b DEF Rows
<1>. QED BY <1>b, <1>4, <1>5 DEF FollowInv

\* The commands that empty the snapshot.  Where it is emptied to play, the
\* position is at the begin.
LEMMA FollowReset ==
  ASSUME PlaybackInv, FollowInv, ~Hasty, Start \/ Stop \/ Load
  PROVE  FollowInv'
<1>a. TypeOK /\ CursorInv
  BY DEF PlaybackInv
<1>b. bag' = bag /\ bag \in Bags /\ Begin' = Begin /\ Begin \in Nat
  BY <1>a, BagFacts DEF TypeOK, Start, Stop, Load, Begin
<1>c. ResetSnapshot /\ position' = Begin
  BY DEF Start, Stop, Load, StartPosition, FollowInv
<1>1. published' = NoFrame /\ published'.at = 0
  BY <1>c DEF ResetSnapshot, NoFrame
<1>2. CASE NoCursor
  BY <1>b, <1>c, <1>1, <1>2 DEF FollowInv, NoCursor
<1>3. CASE PrepareCursor(Begin)
  <2>1. /\ cursor' \in 1 .. Len(bag) + 1
        /\ \A j \in Rows : j < cursor' => bag[j].ts < Begin
    BY <1>b, <1>3, RowFromFound DEF PrepareCursor
  <2>2. cursor' = 1
    <3>1. 1 \in Rows /\ Len(bag) \in Nat
      BY <1>b, BagFacts
    <3>2. ~(1 < cursor')
      BY <1>b, <2>1, <3>1 DEF Begin
    <3>. QED BY <2>1, <3>1, <3>2
  <2>3. Synced(view', lastTime', turning', cursor' - 1, published'.at)
    <3>1. view' = Nothing /\ lastTime' = [p \in Topics |-> 0] /\ turning' = FALSE /\ cursor' - 1 = 0
      BY <1>c, <2>2 DEF ResetSnapshot
    <3>. QED BY <1>b, <1>1, <3>1, SyncedEmpty
  <2>4. Synced(view, lastTime, turning, cursor - 1, published.at)'
    BY <1>b, <2>3, SyncedAfter
  <2>5. \A i \in Rows' : ~(i < cursor')
    BY <1>b, <2>2, BagFacts DEF Rows
  <2>. QED BY <1>b, <1>c, <1>1, <2>4, <2>5 DEF FollowInv
<1>4. NoCursor \/ PrepareCursor(Begin)
  BY <1>c DEF Start, Stop, Load, StartPosition
<1>. QED BY <1>2, <1>3, <1>4

LEMMA FollowSeek ==
  ASSUME PlaybackInv, FollowInv, ~Hasty, NEW t \in Begin .. End, Seek(t)
  PROVE  FollowInv'
<1>a. TypeOK /\ CursorInv
  BY DEF PlaybackInv
<1>b. /\ bag' = bag /\ bag \in Bags /\ opened' = opened /\ state' = state
      /\ state # "Stopped" /\ position' = t
  BY <1>a DEF TypeOK, Seek
<1>1. t \in Nat
  BY <1>b, BagFacts
<1>2. CASE ~opened
  <2>1. state' = "Error"
    BY <1>a, <1>b, <1>2 DEF CursorInv
  <2>. QED BY <1>b, <1>2, <2>1 DEF FollowInv
<1>3. CASE opened
  <2>1. RebuildAt(t) /\ published' = [at |-> t, view |-> view'] /\ cursorReady'
    BY <1>3 DEF Seek, RebuildAt, Publish, PrepareCursor
  <2>2. /\ \A i \in Rows : i < cursor' => bag[i].ts <= t
        /\ Synced(view', lastTime', turning', cursor' - 1, t)
    BY <1>b, <1>1, <2>1, RebuildSynced
  <2>3. Synced(view, lastTime, turning, cursor - 1, published.at)'
    <3>1. Synced(view', lastTime', turning', cursor' - 1, published'.at)
      BY <2>1, <2>2
    <3>. QED BY <1>b, <3>1, SyncedAfter
  <2>4. \A i \in Rows' : i < cursor' => bag'[i].ts <= position'
    BY <1>b, <2>2 DEF Rows
  <2>. QED BY <1>b, <2>1, <2>3, <2>4 DEF FollowInv
<1>. QED BY <1>2, <1>3

LEMMA FollowStep ==
  ASSUME PlaybackInv, FollowInv, ~Hasty, [Next]_vars
  PROVE  FollowInv'
<1>a. TypeOK /\ CursorInv
  BY DEF PlaybackInv
<1>1. CASE UNCHANGED vars \/ Resume \/ Tick \/ Pause \/ SetRate
  <2>1. /\ bag' = bag /\ opened' = opened /\ published' = published /\ view' = view
        /\ lastTime' = lastTime /\ turning' = turning
        /\ cursor' = cursor /\ cursorReady' = cursorReady
        /\ position \in Nat /\ position' \in Nat /\ position <= position'
        /\ \/ position' = position /\ pc' = pc
           \/ pc' # "idle"
        /\ \/ state' = "Playing"
           \/ state' = state /\ position' = position
    BY <1>a, <1>1, BagFacts
       DEF vars, shownVars, cursorVars, Resume, Tick, Pause, SetRate, Synchronize, TypeOK
  <2>2. Rows' = Rows /\ Begin' = Begin /\ bag \in Bags
    BY <1>a, <2>1 DEF Rows, Begin, TypeOK
  <2>3. Synced(view, lastTime, turning, cursor - 1, published.at) =>
          Synced(view, lastTime, turning, cursor - 1, published.at)'
    BY <2>1, SyncedAfter
  <2>4. (\A i \in Rows : i < cursor => bag[i].ts <= position) =>
          \A i \in Rows' : i < cursor' => bag'[i].ts <= position'
    BY <2>1, <2>2, BagFacts
  <2>. QED BY <2>1, <2>2, <2>3, <2>4 DEF FollowInv
<1>2. CASE ProcessRow
  BY <1>2, FollowRow
<1>3. CASE TargetReached
  <2>1. position' = position /\ position \in Nat /\ published.at \in Nat /\ pc # "idle"
    BY <1>a, <1>3, BagFacts DEF TargetReached, TypeOK
  <2>2. published.at <= position /\ cursorReady /\ opened
    BY <1>a, <2>1 DEF CursorInv
  <2>. QED BY <1>3, <2>1, <2>2, FollowReturn DEF TargetReached, FollowInv
<1>4. CASE BudgetSpent
  <2>1. /\ bag \in Bags /\ position' = bag[cursor - 1].ts /\ pc # "idle"
        /\ position' \in published.at .. position
    BY <1>a, <1>4 DEF BudgetSpent, CursorInv, TypeOK
  <2>2. \A i \in Rows : i < cursor => bag[i].ts <= position'
    <3>1. cursor - 1 \in Rows
      BY <1>a, <1>4, <2>1, BagFacts DEF BudgetSpent, CursorInv, TypeOK
    <3>2. cursor \in Nat /\ \A i \in Rows : i \in Nat
      BY <1>a, <2>1, BagFacts DEF TypeOK
    <3>3. ASSUME NEW i \in Rows, i < cursor PROVE i <= cursor - 1
      BY <3>2, <3>3
    <3>. QED BY <2>1, <3>1, <3>3, BagFacts
  <2>3. Publish(position', view, lastTime, turning) /\ Return
    BY <1>4 DEF BudgetSpent
  <2>. QED BY <2>1, <2>2, <2>3, FollowReturn
<1>5. CASE Start \/ Stop \/ Load
  BY <1>5, FollowReset
<1>6. CASE Seeks
  BY <1>6, FollowSeek DEF Seeks
<1>7. CASE LoadFails
  BY <1>7 DEF LoadFails, FollowInv
<1>. QED BY <1>1, <1>2, <1>3, <1>4, <1>5, <1>6, <1>7 DEF Next

LEMMA FollowsPosition ==
  ASSUME PlaybackInv, FollowInv
  PROVE  ViewFollowsPosition
<1> SUFFICES ASSUME opened, pc = "idle", published # NoFrame
             PROVE  /\ position = published.at
                    /\ \E k \in 0 .. Len(bag) :
                         /\ Prefix(k, position)
                         /\ \A topic \in Topics :
                              topic # "path" \/ TurnsHeard(position) =>
                                published.view[topic] = Due(topic, k, position)
  BY DEF ViewFollowsPosition
<1>1. TypeOK /\ CursorInv
  BY DEF PlaybackInv
<1>2. cursorReady /\ published.view = view /\ position = published.at
  BY DEF FollowInv
<1>3. /\ bag \in Bags /\ position \in Nat
      /\ Synced(view, lastTime, turning, cursor - 1, position)
      /\ \A i \in Rows : i < cursor => bag[i].ts <= position
      /\ cursor <= Len(bag) => bag[cursor].ts >= position
  BY <1>1, <1>2, BagFacts DEF FollowInv, CursorInv, TypeOK
<1>4. PICK k \in 0 .. Len(bag) : cursor - 1 = k /\ cursor = k + 1
  BY <1>1, <1>3, BagFacts DEF TypeOK
<1>5. \A i \in 1 .. k : bag[i].ts <= position
  BY <1>3, <1>4, BagFacts
<1>6. ASSUME NEW i \in k + 1 .. Len(bag) PROVE bag[i].ts >= position
  <2>1. i \in Rows /\ k + 1 \in Rows /\ k + 1 <= i
    BY <1>3, <1>4, BagFacts
  <2>2. bag[k + 1].ts <= bag[i].ts /\ bag[i].ts \in Nat /\ bag[k + 1].ts \in Nat
    BY <1>3, <2>1, BagFacts
  <2>3. bag[k + 1].ts >= position
    BY <1>3, <1>4, <2>1, BagFacts
  <2>. QED BY <1>3, <2>2, <2>3
<1>7. Prefix(k, position)
  BY <1>5, <1>6 DEF Prefix
<1>8. ASSUME NEW topic \in Topics, topic # "path" \/ TurnsHeard(position)
      PROVE  published.view[topic] = Due(topic, k, position)
  BY <1>2, <1>3, <1>4, <1>8 DEF Synced
<1>. QED BY <1>2, <1>7, <1>8
-----------------------------------------------------------------------------
(* The theorems                                                            *)

\* The inductive invariant of the playback worker.
THEOREM PlaybackCorrect == Spec => []PlaybackInv
<1>1. PlaybackInv /\ [Next]_vars => PlaybackInv'
  BY PlaybackStep
<1>. QED BY PlaybackInit, <1>1, PTL DEF Spec

\* The variables keep their types; the position stays within the bag although
\* it is set back.
THEOREM TypeCorrect == Spec => []TypeOK
<1>1. PlaybackInv => TypeOK
  BY DEF PlaybackInv
<1>. QED BY PlaybackCorrect, <1>1, PTL

\* No path from before a turning command is shown again, however the position
\* was reached.
THEOREM PathsCorrect == Spec => []PathsAfterTurn
<1>1. PlaybackInv => PathsAfterTurn
  BY DEF PlaybackInv
<1>. QED BY PlaybackCorrect, <1>1, PTL

\* Only seeks and an emptied snapshot let frames go back in time: rolling the
\* position back to the last row never passes the last frame.
THEOREM FramesCorrect == Spec => FramesForward
<1>1. PlaybackInv /\ [Next]_vars =>
        [published # NoFrame /\ published' # NoFrame /\ ~Seeks =>
           published'.at >= published.at]_vars
  BY PlaybackStep
<1>. QED BY PlaybackCorrect, <1>1, PTL DEF Spec, FramesForward

\* What is published is the latest message of every topic up to the position
\* that is reported, however it was reached, as long as the user waits until
\* the window knows that the bag plays.
THEOREM ViewCorrect == ASSUME ~Hasty PROVE Spec => []ViewFollowsPosition
<1>1. PlaybackInv /\ FollowInv /\ [Next]_vars => FollowInv'
  BY FollowStep
<1>2. PlaybackInv /\ FollowInv => ViewFollowsPosition
  BY FollowsPosition
<1>. QED BY FollowInit, PlaybackCorrect, <1>1, <1>2, PTL DEF Spec
=============================================================================
