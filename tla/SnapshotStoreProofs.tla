------------------------- MODULE SnapshotStoreProofs ------------------------
(***************************************************************************)
(* Theorems about SnapshotStore for every choice of monitored kinds.       *)
(***************************************************************************)
EXTENDS SnapshotStore, TLAPS

USE StoreAssumption
-----------------------------------------------------------------------------
\* A stored field belongs to a topic that is not flagged; a topic that never
\* had a message is flagged, and a flagged topic is silent.
AliveInv ==
  \A k \in Kinds : /\ field[k] # None => received[k] /\ ~timedOut[k]
                   /\ ~received[k] => timedOut[k]
                   /\ timedOut[k] => ~received[k] \/ stale[k]

StoreInv ==
  /\ TypeOK
  /\ AliveInv
  /\ TurnFollowsCommand
  /\ PathsAfterTurn
  /\ PerceptionPresence
  /\ PublishedCurrent

\* Definitions that nearly every step needs.
USE DEF None, Field, timer, View, Paths, Perception

LEMMA StoreInit == Init => StoreInv
<1> SUFFICES ASSUME Init PROVE StoreInv
  OBVIOUS
<1>b. 0 \in 0 .. MaxClients
  OBVIOUS
<1>c. /\ field \in [Kinds -> Field]
      /\ timedOut \in [Kinds -> BOOLEAN]
      /\ perception \in BOOLEAN
      /\ clientCount \in 0 .. MaxClients
  BY <1>b DEF Init
<1>d. published = View
  BY DEF Init
<1>a. published \in [field : [Kinds -> Field], perception : BOOLEAN,
                     timedOut : [Kinds -> BOOLEAN], clients : 0 .. MaxClients]
  BY <1>c, <1>d
<1>1. TypeOK
  BY <1>a, <1>b DEF Init, TypeOK
<1>2. AliveInv /\ TurnFollowsCommand /\ PathsAfterTurn
  BY DEF Init, AliveInv, TurnFollowsCommand, PathsAfterTurn
<1>3. PerceptionPresence /\ PublishedCurrent
  BY DEF Init, PerceptionPresence, PublishedCurrent
<1>. QED BY <1>1, <1>2, <1>3 DEF StoreInv

LEMMA StoreStep == StoreInv /\ [Next]_vars => StoreInv'
<1> SUFFICES ASSUME StoreInv, [Next]_vars PROVE StoreInv'
  OBVIOUS
<1>a. /\ TypeOK /\ AliveInv /\ TurnFollowsCommand /\ PathsAfterTurn
      /\ PerceptionPresence /\ PublishedCurrent
  BY DEF StoreInv
<1>1. ASSUME NEW k \in Kinds, Update(k) PROVE StoreInv'
  <2> USE <1>1 DEF Update, Record
  <2>1. TypeOK'
    BY <1>a DEF TypeOK
  <2>2. AliveInv'
    BY <1>a DEF AliveInv, TypeOK
  <2>3. TurnFollowsCommand' /\ PathsAfterTurn'
    BY <1>a DEF TurnFollowsCommand, PathsAfterTurn, TypeOK
  <2>4. PerceptionPresence'
    BY <1>a DEF PerceptionPresence, TypeOK
  <2>5. PublishedCurrent'
    BY DEF PublishedCurrent
  <2>. QED BY <2>1, <2>2, <2>3, <2>4, <2>5 DEF StoreInv
<1>2. ASSUME NEW k \in Kinds, UpdatePath(k) PROVE StoreInv'
  <2> USE <1>2 DEF UpdatePath, Record
  <2>1. TypeOK'
    BY <1>a DEF TypeOK
  <2>2. AliveInv'
    BY <1>a DEF AliveInv, TypeOK
  <2>3. TurnFollowsCommand' /\ PathsAfterTurn'
    BY <1>a DEF TurnFollowsCommand, PathsAfterTurn, TypeOK
  <2>4. PerceptionPresence'
    BY <1>a DEF PerceptionPresence, TypeOK
  <2>5. PublishedCurrent'
    BY DEF PublishedCurrent
  <2>. QED BY <2>1, <2>2, <2>3, <2>4, <2>5 DEF StoreInv
<1>3. ASSUME UpdateControlCommand PROVE StoreInv'
  <2>1. PICK turn \in BOOLEAN :
          LET entering == turn /\ ~centerTurn
          IN  /\ "control" \in Kinds
              /\ field' = [k \in Kinds |->
                             IF k = "control" THEN Command(turn)
                             ELSE IF k \in Paths /\ entering THEN None
                             ELSE field[k]]
              /\ entries' = IF entering THEN entries + 1 ELSE entries
              /\ centerTurn' = turn
              /\ Record("control")
              /\ UNCHANGED <<perception, arrival>>
    BY <1>3 DEF UpdateControlCommand
  <2> USE <2>1 DEF Record, Command
  <2>2. TypeOK'
    BY <1>a DEF TypeOK
  <2>3. AliveInv'
    BY <1>a DEF AliveInv, TypeOK
  <2>4. TurnFollowsCommand' /\ PathsAfterTurn'
    BY <1>a DEF TurnFollowsCommand, PathsAfterTurn, TypeOK
  <2>5. PerceptionPresence'
    BY <1>a DEF PerceptionPresence, TypeOK
  <2>6. PublishedCurrent'
    BY DEF PublishedCurrent
  <2>. QED BY <2>2, <2>3, <2>4, <2>5, <2>6 DEF StoreInv
<1>4. ASSUME NEW k \in Kinds, Elapse(k) PROVE StoreInv'
  <2> USE <1>4 DEF Elapse
  <2>1. TypeOK'
    BY <1>a DEF TypeOK
  <2>2. AliveInv' /\ TurnFollowsCommand' /\ PathsAfterTurn'
    BY <1>a DEF AliveInv, TurnFollowsCommand, PathsAfterTurn
  <2>3. PerceptionPresence' /\ PublishedCurrent'
    BY <1>a DEF PerceptionPresence, PublishedCurrent
  <2>. QED BY <2>1, <2>2, <2>3 DEF StoreInv
<1>5. ASSUME Start PROVE StoreInv'
  <2> USE <1>5 DEF Start
  <2>1. TypeOK'
    BY <1>a DEF TypeOK
  <2>2. AliveInv' /\ TurnFollowsCommand' /\ PathsAfterTurn'
    BY <1>a DEF AliveInv, TurnFollowsCommand, PathsAfterTurn
  <2>3. PerceptionPresence' /\ PublishedCurrent'
    BY <1>a DEF PerceptionPresence, PublishedCurrent
  <2>. QED BY <2>1, <2>2, <2>3 DEF StoreInv
<1>6. ASSUME PublishSnapshot PROVE StoreInv'
  <2> USE <1>6 DEF PublishSnapshot, Clear
  <2>1. /\ field' = [k \in Kinds |-> IF k \in Expiring THEN None ELSE field[k]]
        /\ field' \in [Kinds -> Field]
        /\ timedOut' = [k \in Kinds |-> Silent(k)]
        /\ timedOut' \in [Kinds -> BOOLEAN]
    BY <1>a DEF TypeOK, Silent
  <2>2. perception' \in BOOLEAN /\ centerTurn' \in BOOLEAN
    BY <1>a DEF TypeOK
  <2>3. TypeOK'
    <3>1. CASE Changed \/ clientCount # lastCount
      <4>1. /\ published' = [field |-> field', perception |-> perception',
                             timedOut |-> timedOut', clients |-> clientCount]
            /\ lastCount' = clientCount
        BY <3>1
      <4>. QED BY <1>a, <2>1, <2>2, <4>1 DEF TypeOK
    <3>2. CASE ~(Changed \/ clientCount # lastCount)
      <4>1. published' = published /\ lastCount' = lastCount
        BY <3>2
      <4>2. dirty' \in BOOLEAN
        OBVIOUS
      <4>3. UNCHANGED <<stale, received, running, clientCount, entries, arrival>>
        OBVIOUS
      <4> HIDE <1>6 DEF PublishSnapshot, Clear
      <4>. QED BY <1>a, <2>1, <2>2, <4>1, <4>2, <4>3 DEF TypeOK
    <3>. QED BY <3>1, <3>2
  <2>4. AliveInv'
    BY <1>a, <2>1 DEF AliveInv, TypeOK, Expiring, Silent
  <2>5. TurnFollowsCommand' /\ PathsAfterTurn'
    BY <1>a, <2>1 DEF TurnFollowsCommand, PathsAfterTurn, TypeOK
  <2>6. PerceptionPresence'
    <3>1. \A k \in Perception \cap Kinds : field'[k] = None <=> timedOut'[k]
      BY <1>a, <2>1 DEF PerceptionPresence, AliveInv, TypeOK, Expiring, Silent
    <3>2. (\E k \in Perception \cap Kinds : field'[k] # None) => perception
      BY <1>a, <2>1 DEF PerceptionPresence
    <3>. QED BY <3>1, <3>2 DEF PerceptionPresence
  <2>7. PublishedCurrent'
    <3>1. CASE Changed \/ clientCount # lastCount
      BY <3>1 DEF PublishedCurrent
    <3>2. CASE ~(Changed \/ clientCount # lastCount)
      <4>1. Expiring = {} /\ ~dirty /\ UNCHANGED published
        BY <3>2 DEF Changed
      <4>2. \A k \in Kinds : Silent(k) <=> timedOut[k]
        BY <1>a, <4>1 DEF Expiring, Silent, AliveInv, TypeOK
      <4>3. field' = field /\ timedOut' = timedOut
        BY <1>a, <2>1, <4>1, <4>2 DEF TypeOK, Silent
      <4>4. perception' = perception
        BY <1>a, <4>1, <4>3 DEF PerceptionPresence, TypeOK
      <4>. QED BY <1>a, <4>1, <4>3, <4>4 DEF PublishedCurrent
    <3>. QED BY <3>1, <3>2
  <2>. QED BY <2>3, <2>4, <2>5, <2>6, <2>7 DEF StoreInv
<1>7. CASE ClientsChange
  <2> USE <1>7 DEF ClientsChange
  <2>1. TypeOK'
    BY <1>a DEF TypeOK
  <2>2. AliveInv' /\ TurnFollowsCommand' /\ PathsAfterTurn'
    BY <1>a DEF AliveInv, TurnFollowsCommand, PathsAfterTurn
  <2>3. PerceptionPresence' /\ PublishedCurrent'
    BY <1>a DEF PerceptionPresence, PublishedCurrent
  <2>. QED BY <2>1, <2>2, <2>3 DEF StoreInv
<1>8. CASE UNCHANGED vars
  BY <1>8, <1>a DEF vars, StoreInv, TypeOK, AliveInv, TurnFollowsCommand,
                    PathsAfterTurn, PerceptionPresence, PublishedCurrent
<1>. QED BY <1>1, <1>2, <1>3, <1>4, <1>5, <1>6, <1>7, <1>8 DEF Next
-----------------------------------------------------------------------------
\* The inductive invariant of the store.
THEOREM StoreCorrect == Spec => []StoreInv
BY StoreInit, StoreStep, PTL DEF Spec

\* The suppression of paths always follows the stored command.
THEOREM TurnCorrect == Spec => []TurnFollowsCommand
<1>1. StoreInv => TurnFollowsCommand
  BY DEF StoreInv
<1>. QED BY <1>1, StoreCorrect, PTL

\* Paths from before or during a center turn never come back.
THEOREM PathsCorrect == Spec => []PathsAfterTurn
<1>1. StoreInv => PathsAfterTurn
  BY DEF StoreInv
<1>. QED BY <1>1, StoreCorrect, PTL

\* The perception message is present exactly while a request is.
THEOREM PerceptionCorrect == Spec => []PerceptionPresence
<1>1. StoreInv => PerceptionPresence
  BY DEF StoreInv
<1>. QED BY <1>1, StoreCorrect, PTL

\* A store that is not dirty is what the server has.
THEOREM NothingUnpublished == Spec => []PublishedCurrent
<1>1. StoreInv => PublishedCurrent
  BY DEF StoreInv
<1>. QED BY <1>1, StoreCorrect, PTL

\* The timer never publishes a field of a silent topic.
THEOREM AliveOnly == Spec => PublishedAlive
<1>1. ASSUME StoreInv, [Next]_vars, running, published' # published,
             NEW k \in Kinds, Silent(k)
      PROVE  published'.field[k] = None
  <2>1. PublishSnapshot
    BY <1>1 DEF Next, vars, Update, UpdatePath, UpdateControlCommand, Record,
                Elapse, Start, ClientsChange
  <2>2. published'.field = field'
    BY <1>1, <2>1 DEF PublishSnapshot
  <2>3. field'[k] = IF k \in Expiring THEN None ELSE field[k]
    BY <2>1 DEF PublishSnapshot, Clear
  <2>4. k \notin Expiring => timedOut[k]
    BY <1>1 DEF Expiring
  <2>5. timedOut[k] => field[k] = None
    BY <1>1 DEF StoreInv, AliveInv
  <2>. QED BY <2>2, <2>3, <2>4, <2>5
<1>2. StoreInv /\ [Next]_vars =>
        [running /\ published' # published =>
           \A k \in Kinds : Silent(k) => published'.field[k] = None]_vars
  BY <1>1
<1>. QED BY <1>2, StoreCorrect, PTL DEF Spec, PublishedAlive
=============================================================================
