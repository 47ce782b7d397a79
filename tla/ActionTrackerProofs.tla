------------------------ MODULE ActionTrackerProofs -------------------------
(* Theorems about ActionTracker, for every set of goals and every bound.   *)
EXTENDS ActionTracker, FiniteSetTheorems, TLAPS

\* The goals a hidden message told of.
Told == {h \in Goals : told[h] # NothingTold}

\* What the cache knows of the observed facts: never more, and all of them as
\* long as no entry had to leave.
CacheTold ==
  /\ IsFiniteSet(Told)
  /\ \A g \in Goals : cache[g] # NothingTold => told[g] # NothingTold
  /\ Cardinality(Told) <= MaxDiagnostics => cache = told

\* The facts of action a are at least those of the cache, and no newer than the
\* last message.
LatestCovers(a) ==
  /\ a.status <= clock /\ a.progress <= clock
  /\ a.id # NoGoal /\ messageCount > 0 =>
       /\ cache[a.id[1]].status # 0 => a.status = cache[a.id[1]].status
       /\ cache[a.id[1]].progress # 0 => a.progress = cache[a.id[1]].progress
       /\ Cardinality(Told) <= MaxDiagnostics =>
            a.status = told[a.id[1]].status /\ a.progress = told[a.id[1]].progress

\* The store shows the node's state of the action, or none.
ShownIsLatest ==
  /\ shown # AbsentAction => shown = Stored(latest, messageCount)
  /\ messageCount = 0 => latest = NoAction
  /\ \A g \in Goals : cache[g].status <= clock /\ cache[g].progress <= clock

\* The two copies of the recent terminal agree.
RecentInv ==
  /\ shownRecent = recentTerminal
  /\ RecentIsNewest

TrackerInv == TypeOK /\ CacheBounded /\ CacheTold /\ LatestCovers(latest)
              /\ ShownIsLatest /\ RecentInv /\ PublishedCurrent
-----------------------------------------------------------------------------
\* The initial state satisfies the invariant.
LEMMA InitialInv == TrackerInit => TrackerInv
<1> SUFFICES ASSUME TrackerInit PROVE TrackerInv
  OBVIOUS
<1> USE DEF TrackerInit, NothingTold
<1>1. TypeOK
  <2>1. NoAction \in Actions /\ AbsentAction \in StoredActions
    BY DEF NoAction, AbsentAction, Stored, Actions, StoredActions, GoalIds
  <2>2. <<>> \in Seq(Goals) /\ published \in StoredActions \X StoredActions
    BY <2>1
  <2>3. cache \in [Goals -> Facts] /\ told \in [Goals -> Facts]
    BY DEF Facts
  <2>. QED BY <2>1, <2>2, <2>3 DEF TypeOK
<1>2. CacheBounded
  BY TrackerAssumption DEF CacheBounded
<1>3. CacheTold
  <2>1. Told = {}
    BY DEF Told
  <2>. QED BY <2>1, FS_EmptySet DEF CacheTold
<1>4. LatestCovers(latest) /\ ShownIsLatest
  BY DEF LatestCovers, ShownIsLatest, NoAction
<1>5. RecentInv /\ PublishedCurrent
  BY DEF RecentInv, RecentIsNewest, PublishedCurrent
<1>. QED BY <1>1, <1>2, <1>3, <1>4, <1>5 DEF TrackerInv

\* diagnosticFor keeps the types of the cache.
LEMMA CacheTypes ==
  ASSUME TypeOK, NEW goal \in Goals, NEW facts \in Facts,
         DiagnosticFor(goal, facts)
  PROVE  /\ cache' \in [Goals -> Facts]
         /\ order' \in Seq(Goals)
         /\ cache'[goal] = facts
         /\ \A g \in Goals : cache'[g] \in {cache[g], NothingTold, facts}
         /\ \A g \in Goals : g # goal => cache'[g] \in {cache[g], NothingTold}
<1> USE DEF DiagnosticFor
<1>1. cache \in [Goals -> Facts] /\ order \in Seq(Goals) /\ NothingTold \in Facts
  BY DEF TypeOK, NothingTold, Facts
<1>2. CASE cache[goal] # NothingTold
  BY <1>1, <1>2
<1>3. CASE cache[goal] = NothingTold
  <2> DEFINE grown == Append(order, goal)
  <2>1. grown \in Seq(Goals) /\ Len(grown) > 0
    BY <1>1
  <2>2. Head(grown) \in Goals /\ Tail(grown) \in Seq(Goals)
    BY <2>1
  <2>3. CASE Len(grown) > MaxDiagnostics
    BY <1>1, <1>3, <2>2, <2>3
  <2>4. CASE ~(Len(grown) > MaxDiagnostics)
    BY <1>1, <1>3, <2>1, <2>4
  <2>. QED BY <2>3, <2>4
<1>. QED BY <1>2, <1>3

\* diagnosticFor keeps the cache bounded, and map and queue in agreement.
LEMMA CacheStep ==
  ASSUME TypeOK, CacheBounded, NEW goal \in Goals, NEW facts \in Facts,
         facts # NothingTold, DiagnosticFor(goal, facts)
  PROVE  CacheBounded'
<1> USE DEF DiagnosticFor
<1>1. cache \in [Goals -> Facts] /\ order \in Seq(Goals)
  BY DEF TypeOK
<1>2. CASE cache[goal] # NothingTold
  BY <1>1, <1>2 DEF CacheBounded
<1>3. CASE cache[goal] = NothingTold
  <2> DEFINE grown == Append(order, goal)
             n == Len(order)
  <2>1. /\ n \in Nat /\ Len(grown) = n + 1 /\ grown \in Seq(Goals)
        /\ \A i \in 1 .. n : grown[i] = order[i] /\ order[i] \in Goals
        /\ grown[n + 1] = goal
    BY <1>1
  <2>2. \A i \in 1 .. n : order[i] # goal
    BY <1>3 DEF CacheBounded
  <2>3. \A i, j \in 1 .. n + 1 : grown[i] = grown[j] => i = j
    <3>1. \A i \in 1 .. n + 1 : i \in 1 .. n \/ i = n + 1
      BY <2>1
    <3>. QED BY <2>1, <2>2, <3>1 DEF CacheBounded
  <2>4. \A g \in Goals : g # goal =>
          (cache[g] # NothingTold <=> \E i \in 1 .. n + 1 : grown[i] = g)
    <3>1. \A i \in 1 .. n + 1 : i \in 1 .. n \/ i = n + 1
      BY <2>1
    <3>. QED BY <2>1, <3>1 DEF CacheBounded
  <2>5. CASE Len(grown) > MaxDiagnostics
    <3>1. /\ order' = Tail(grown)
          /\ cache' = [cache EXCEPT ![Head(grown)] = NothingTold, ![goal] = facts]
      BY <1>3, <2>5
    <3>2. n = MaxDiagnostics /\ n > 0
      BY <2>1, <2>5, TrackerAssumption DEF CacheBounded
    <3>3. /\ Len(order') = n
          /\ \A i \in 1 .. n : order'[i] = grown[i + 1]
          /\ Head(grown) = grown[1]
      BY <2>1, <3>1, <3>2
    <3>4. \A i, j \in 1 .. n : order'[i] = order'[j] => i = j
      <4>1. ASSUME NEW i \in 1 .. n, NEW j \in 1 .. n, order'[i] = order'[j]
            PROVE  i = j
        <5>1. i + 1 \in 1 .. n + 1 /\ j + 1 \in 1 .. n + 1
          BY <2>1
        <5>2. grown[i + 1] = grown[j + 1]
          BY <3>3, <4>1
        <5>3. i + 1 = j + 1
          BY <2>3, <5>1, <5>2
        <5>. QED BY <2>1, <5>3
      <4>. QED BY <4>1
    <3>5. ASSUME NEW g \in Goals
          PROVE  cache'[g] # NothingTold <=> \E i \in 1 .. n : order'[i] = g
      <4>1. CASE g = goal
        <5>1. n \in 1 .. n /\ order'[n] = goal
          BY <2>1, <3>2, <3>3
        <5>. QED BY <1>1, <3>1, <4>1, <5>1
      <4>2. CASE g # goal /\ g = grown[1]
        <5>1. cache'[g] = NothingTold
          BY <1>1, <3>1, <3>3, <4>2
        <5>2. ASSUME NEW i \in 1 .. n, order'[i] = g PROVE FALSE
          <6>1. i + 1 \in 1 .. n + 1 /\ 1 \in 1 .. n + 1 /\ grown[i + 1] = grown[1]
            BY <2>1, <3>3, <4>2, <5>2
          <6>2. i + 1 = 1
            BY <2>3, <6>1
          <6>. QED BY <6>2
        <5>. QED BY <5>1, <5>2
      <4>3. CASE g # goal /\ g # grown[1]
        <5>1. cache'[g] = cache[g]
          BY <1>1, <3>1, <3>3, <4>3
        <5>2. ASSUME NEW i \in 1 .. n + 1, grown[i] = g
              PROVE  \E j \in 1 .. n : order'[j] = g
          <6>1. i # 1 /\ i - 1 \in 1 .. n /\ (i - 1) + 1 = i
            BY <2>1, <4>3, <5>2
          <6>2. order'[i - 1] = grown[(i - 1) + 1]
            BY <3>3, <6>1
          <6>. QED BY <5>2, <6>1, <6>2
        <5>3. ASSUME NEW j \in 1 .. n, order'[j] = g
              PROVE  \E i \in 1 .. n + 1 : grown[i] = g
          BY <2>1, <3>3, <5>3
        <5>. QED BY <2>4, <4>3, <5>1, <5>2, <5>3
      <4>. QED BY <4>1, <4>2, <4>3
    <3>. QED BY <3>2, <3>3, <3>4, <3>5 DEF CacheBounded
  <2>6. CASE ~(Len(grown) > MaxDiagnostics)
    <3>1. order' = grown /\ cache' = [cache EXCEPT ![goal] = facts]
      BY <1>3, <2>6
    <3>2. n + 1 \in 1 .. n + 1 /\ n + 1 <= MaxDiagnostics
      BY <2>1, <2>6, TrackerAssumption
    <3>3. cache'[goal] = facts /\ \A g \in Goals : g # goal => cache'[g] = cache[g]
      BY <1>1, <3>1
    <3>4. ASSUME NEW g \in Goals
          PROVE  cache'[g] # NothingTold <=> \E i \in 1 .. n + 1 : grown[i] = g
      BY <2>1, <2>4, <3>2, <3>3
    <3>. QED BY <2>1, <2>3, <3>1, <3>2, <3>4 DEF CacheBounded
  <2>. QED BY <2>5, <2>6
<1>. QED BY <1>2, <1>3

\* A set that n distinct elements fit into has at least n elements.
LEMMA DistinctFit ==
  ASSUME NEW T, IsFiniteSet(T), NEW n \in Nat, NEW f \in [1 .. n -> T],
         \A i, j \in 1 .. n : f[i] = f[j] => i = j
  PROVE  n <= Cardinality(T)
<1>1. IsFiniteSet(1 .. n) /\ Cardinality(1 .. n) = n
  <2>1. Cardinality(1 .. n) = IF 1 > n THEN 0 ELSE n - 1 + 1
    BY FS_Interval
  <2>. QED BY <2>1, FS_Interval
<1>2. Cardinality(T) \in Nat
  BY FS_CardinalityType
<1>3. ~(Cardinality(T) < Cardinality(1 .. n))
  BY <1>1, FS_PigeonHole
<1>. QED BY <1>1, <1>2, <1>3

\* A hidden message leaves the cache and the observed facts in agreement: an
\* entry leaves the cache only when more than MaxDiagnostics goals are told of.
LEMMA ToldStep ==
  ASSUME TypeOK, CacheBounded, CacheTold,
         NEW goal \in Goals, NEW facts \in Facts, NEW field \in {"status", "progress"},
         NEW time \in Nat \ {0},
         facts = [cache[goal] EXCEPT ![field] = time],
         DiagnosticFor(goal, facts),
         told' = [told EXCEPT ![goal] = [told[goal] EXCEPT ![field] = time]]
  PROVE  CacheTold'
<1>1. /\ cache \in [Goals -> Facts] /\ order \in Seq(Goals)
      /\ told \in [Goals -> Facts] /\ told' \in [Goals -> Facts]
  BY DEF TypeOK, Facts
<1>2. facts # NothingTold /\ told'[goal] # NothingTold
  BY <1>1 DEF NothingTold, Facts
<1>3. Told' = Told \cup {goal}
  BY <1>1, <1>2 DEF Told
<1>4. IsFiniteSet(Told')
  BY <1>3, FS_AddElement DEF CacheTold
<1>5. \A g \in Goals : cache'[g] # NothingTold => told'[g] # NothingTold
  BY <1>1, <1>2, CacheTypes DEF CacheTold
<1>6. ASSUME Cardinality(Told') <= MaxDiagnostics PROVE cache' = told'
  <2>1. Cardinality(Told) <= MaxDiagnostics
    BY <1>3, <1>4, <1>6, FS_Subset, FS_CardinalityType, TrackerAssumption DEF CacheTold
  <2>2. cache = told
    BY <2>1 DEF CacheTold
  <2>3. cache' = [cache EXCEPT ![goal] = facts]
    <3>1. CASE cache[goal] # NothingTold
      BY <3>1 DEF DiagnosticFor
    <3>2. CASE cache[goal] = NothingTold
      <4> DEFINE grown == Append(order, goal)
                 n == Len(order)
      <4>1. /\ n \in Nat /\ Len(grown) = n + 1 /\ grown \in Seq(Goals)
            /\ \A i \in 1 .. n : grown[i] = order[i] /\ order[i] \in Goals
            /\ grown[n + 1] = goal
        BY <1>1
      <4>2. ~(Len(grown) > MaxDiagnostics)
        <5> SUFFICES ASSUME n + 1 > MaxDiagnostics PROVE FALSE
          BY <4>1
        <5>1. \A i \in 1 .. n + 1 : i \in 1 .. n \/ i = n + 1
          BY <4>1
        <5>2. \A i \in 1 .. n + 1 : grown[i] \in Told'
          BY <1>3, <4>1, <5>1 DEF CacheBounded, CacheTold, Told
        <5> DEFINE f == [i \in 1 .. n + 1 |-> grown[i]]
        <5>3. f \in [1 .. n + 1 -> Told']
          BY <5>2
        <5>4. \A i, j \in 1 .. n + 1 : f[i] = f[j] => i = j
          <6>1. \A k \in 1 .. n : order[k] # goal
            BY <3>2 DEF CacheBounded
          <6>. QED BY <4>1, <5>1, <6>1 DEF CacheBounded
        <5>5. n + 1 \in Nat
          BY <4>1
        <5>6. n + 1 <= Cardinality(Told')
          <6> HIDE DEF f, grown, n
          <6>. QED BY <1>4, <5>3, <5>4, <5>5, DistinctFit
        <5>7. Cardinality(Told') \in Nat
          BY <1>4, FS_CardinalityType
        <5>. QED BY <1>6, <4>1, <5>6, <5>7, TrackerAssumption
      <4>. QED BY <3>2, <4>2 DEF DiagnosticFor
    <3>. QED BY <3>1, <3>2
  <2>. QED BY <1>1, <2>2, <2>3
<1>. QED BY <1>4, <1>5, <1>6 DEF CacheTold

\* The facts merged into a new public state.
LEMMA MergeStep ==
  ASSUME TrackerInv, NEW id \in GoalIds
  PROVE  /\ Merged(id) \in Facts
         /\ Merged(id).status <= clock /\ Merged(id).progress <= clock
         /\ messageCount > 0 /\ id = latest.id =>
              /\ Merged(id).status = latest.status
              /\ Merged(id).progress = latest.progress
         /\ id # NoGoal =>
              /\ id[1] \in Goals
              /\ cache[id[1]].status # 0 => Merged(id).status = cache[id[1]].status
              /\ cache[id[1]].progress # 0 => Merged(id).progress = cache[id[1]].progress
              /\ Cardinality(Told) <= MaxDiagnostics =>
                   /\ Merged(id).status = told[id[1]].status
                   /\ Merged(id).progress = told[id[1]].progress
<1> USE DEF TrackerInv
<1>1. /\ cache \in [Goals -> Facts] /\ told \in [Goals -> Facts]
      /\ latest.status \in Nat /\ latest.progress \in Nat
      /\ latest.status <= clock /\ latest.progress <= clock
      /\ clock \in Nat /\ messageCount \in Nat
  BY DEF TypeOK, Actions, LatestCovers
<1>2. id # NoGoal => id[1] \in Goals
  BY DEF GoalIds, NoGoal
<1> DEFINE kept == IF messageCount > 0 /\ id = latest.id
                   THEN [status |-> latest.status, progress |-> latest.progress]
                   ELSE NothingTold
           known == IF id = NoGoal THEN NothingTold ELSE cache[id[1]]
<1>3. /\ Merged(id).status = IF known.status # 0 THEN known.status ELSE kept.status
      /\ Merged(id).progress = IF known.progress # 0 THEN known.progress ELSE kept.progress
      /\ Merged(id) = [status |-> Merged(id).status, progress |-> Merged(id).progress]
  BY DEF Merged
<1>4. /\ kept.status \in Nat /\ kept.progress \in Nat
      /\ kept.status <= clock /\ kept.progress <= clock
      /\ known.status \in Nat /\ known.progress \in Nat
      /\ known.status <= clock /\ known.progress <= clock
  BY <1>1, <1>2 DEF NothingTold, Facts, ShownIsLatest
<1>5. Merged(id) \in Facts
      /\ Merged(id).status <= clock /\ Merged(id).progress <= clock
  BY <1>3, <1>4 DEF Facts
<1>6. ASSUME messageCount > 0, id = latest.id
      PROVE  Merged(id).status = latest.status /\ Merged(id).progress = latest.progress
  BY <1>3, <1>6 DEF LatestCovers, NothingTold
<1>7. ASSUME id # NoGoal
      PROVE  /\ cache[id[1]].status # 0 => Merged(id).status = cache[id[1]].status
             /\ cache[id[1]].progress # 0 => Merged(id).progress = cache[id[1]].progress
  BY <1>3, <1>7
<1>8. ASSUME id # NoGoal, Cardinality(Told) <= MaxDiagnostics
      PROVE  Merged(id).status = told[id[1]].status /\ Merged(id).progress = told[id[1]].progress
  <2>1. known = told[id[1]]
    BY <1>8 DEF CacheTold
  <2>2. CASE messageCount > 0 /\ id = latest.id
    BY <1>3, <1>8, <2>1, <2>2 DEF LatestCovers
  <2>3. CASE ~(messageCount > 0 /\ id = latest.id)
    BY <1>3, <2>1, <2>3 DEF NothingTold
  <2>. QED BY <2>2, <2>3
<1>. QED BY <1>2, <1>5, <1>6, <1>7, <1>8

\* A public message keeps the invariant.
LEMMA ActionStep ==
  ASSUME TrackerInv, NEW id \in GoalIds, NEW terminal \in BOOLEAN,
         OnPublicAction(id, terminal)
  PROVE  TrackerInv'
<1> DEFINE next == [id |-> id, terminal |-> terminal,
                    status |-> Merged(id).status, progress |-> Merged(id).progress]
<1>1. /\ latest' = next
      /\ shown' = Stored(next, messageCount + 1)
      /\ recentTerminal' = IF terminal THEN Stored(next, messageCount + 1) ELSE recentTerminal
      /\ shownRecent' = recentTerminal'
      /\ messageCount' = messageCount + 1 /\ silent' = FALSE /\ timedOut' = FALSE /\ dirty' = TRUE
      /\ ended' = IF terminal THEN messageCount + 1 ELSE ended
      /\ UNCHANGED <<cache, order, published, clock, told>>
  BY DEF OnPublicAction, UpdateActionState, Stored
<1>2. TypeOK /\ messageCount \in Nat /\ clock \in Nat
  BY DEF TrackerInv, TypeOK
<1>3. next \in Actions /\ Stored(next, messageCount + 1) \in StoredActions
  BY <1>2, MergeStep DEF Actions, StoredActions, Stored, Facts
<1>4. TypeOK'
  <2>1. /\ latest' \in Actions /\ shown' \in StoredActions
        /\ recentTerminal' \in StoredActions /\ shownRecent' \in StoredActions
    BY <1>1, <1>2, <1>3 DEF TypeOK
  <2>2. messageCount' \in Nat /\ ended' \in Nat
    BY <1>1, <1>2 DEF TypeOK
  <2>3. silent' \in BOOLEAN /\ timedOut' \in BOOLEAN /\ dirty' \in BOOLEAN
    BY <1>1
  <2>4. UNCHANGED <<cache, order, published, clock, told>>
    BY <1>1
  <2>. QED BY <1>2, <2>1, <2>2, <2>3, <2>4 DEF TypeOK
<1>5. CacheBounded' /\ CacheTold'
  BY <1>1 DEF TrackerInv, CacheBounded, CacheTold, Told
<1>6. Told' = Told
  BY <1>1 DEF Told
<1>7. LatestCovers(latest)'
  <2>1. /\ latest'.id = id
        /\ latest'.status = Merged(id).status /\ latest'.progress = Merged(id).progress
    BY <1>1
  <2>2. clock' = clock /\ cache' = cache /\ told' = told
    BY <1>1
  <2> HIDE DEF next
  <2>. QED BY <1>6, <2>1, <2>2, MergeStep DEF LatestCovers
<1>8. ShownIsLatest'
  BY <1>1, <1>2 DEF TrackerInv, ShownIsLatest
<1>9. RecentInv' /\ PublishedCurrent'
  BY <1>1 DEF TrackerInv, RecentInv, RecentIsNewest, PublishedCurrent, Stored
<1>. QED BY <1>4, <1>5, <1>7, <1>8, <1>9 DEF TrackerInv

\* A hidden message keeps the invariant.
LEMMA HiddenStep ==
  ASSUME TrackerInv, NEW goal \in Goals, NEW field \in {"status", "progress"},
         Hidden(goal, [cache[goal] EXCEPT ![field] = clock + 1],
                [latest EXCEPT ![field] = clock + 1]),
         told' = [told EXCEPT ![goal] = [told[goal] EXCEPT ![field] = clock + 1]]
  PROVE  TrackerInv'
<1> DEFINE facts == [cache[goal] EXCEPT ![field] = clock + 1]
           action == [latest EXCEPT ![field] = clock + 1]
           current == messageCount > 0 /\ SameAction(goal, latest.id)
<1>1. /\ TypeOK /\ clock \in Nat /\ messageCount \in Nat /\ cache[goal] \in Facts
      /\ latest \in Actions /\ shown \in StoredActions /\ told[goal] \in Facts
  BY DEF TrackerInv, TypeOK
<1>2. /\ facts \in Facts /\ facts # NothingTold /\ action \in Actions
      /\ [told[goal] EXCEPT ![field] = clock + 1] \in Facts
  BY <1>1 DEF Facts, Actions, NothingTold
<1>3. /\ clock' = clock + 1
      /\ DiagnosticFor(goal, facts)
      /\ UNCHANGED <<published, ended, shownRecent, recentTerminal, messageCount,
                     silent, timedOut>>
  BY DEF Hidden, UpdateActionDiagnostics, store
<1>4. current => latest' = action
  BY DEF Hidden
<1>5. current /\ shown # AbsentAction =>
        shown' = Stored(action, shown.sequence) /\ dirty' = TRUE
  BY DEF Hidden, UpdateActionDiagnostics
<1>6. shown = AbsentAction => shown' = shown /\ dirty' = dirty
  BY DEF Hidden, UpdateActionDiagnostics, store
<1>7. ~current => UNCHANGED <<latest, shown, dirty>>
  BY DEF Hidden, store
<1>8. /\ cache' \in [Goals -> Facts] /\ order' \in Seq(Goals)
      /\ cache'[goal] = facts
      /\ \A g \in Goals : cache'[g] \in {cache[g], NothingTold, facts}
      /\ \A g \in Goals : g # goal => cache'[g] \in {cache[g], NothingTold}
  <2> HIDE DEF facts
  <2>. QED BY <1>1, <1>2, <1>3, CacheTypes
<1>9. TypeOK'
  <2>1. latest' \in Actions
    BY <1>1, <1>2, <1>4, <1>7
  <2>2. shown' \in StoredActions /\ dirty' \in BOOLEAN
    <3>1. Stored(action, shown.sequence) \in StoredActions
      BY <1>1, <1>2 DEF Stored, StoredActions, Actions
    <3>2. dirty \in BOOLEAN
      BY DEF TrackerInv, TypeOK
    <3> HIDE DEF action, current
    <3>. QED BY <1>1, <1>5, <1>6, <1>7, <3>1, <3>2
  <2>3. told' \in [Goals -> Facts]
    BY <1>1, <1>2 DEF TypeOK
  <2>4. clock' \in Nat
    BY <1>1, <1>3
  <2> HIDE DEF action, current, facts
  <2>. QED BY <1>1, <1>3, <1>8, <2>1, <2>2, <2>3, <2>4 DEF TypeOK
<1>10. CacheBounded'
  <2> HIDE DEF facts
  <2>. QED BY <1>1, <1>2, <1>3, CacheStep DEF TrackerInv
<1>11. CacheTold'
  <2>1. clock + 1 \in Nat \ {0}
    BY <1>1
  <2>2. CacheBounded /\ CacheTold
    BY DEF TrackerInv
  <2>. QED BY <1>1, <1>2, <1>3, <2>1, <2>2, ToldStep
<1>12. \A g \in Goals : cache'[g].status <= clock' /\ cache'[g].progress <= clock'
  <2>1. facts.status <= clock + 1 /\ facts.progress <= clock + 1
    BY <1>1 DEF TrackerInv, ShownIsLatest, Facts
  <2>2. \A g \in Goals : cache[g].status <= clock + 1 /\ cache[g].progress <= clock + 1
    BY <1>1 DEF TrackerInv, ShownIsLatest, TypeOK, Facts
  <2>3. NothingTold.status <= clock + 1 /\ NothingTold.progress <= clock + 1
    BY <1>1 DEF NothingTold
  <2> HIDE DEF facts
  <2>. QED BY <1>3, <1>8, <2>1, <2>2, <2>3
<1>13. ShownIsLatest'
  <2>1. shown' # AbsentAction => shown' = Stored(latest', messageCount')
    <3>1. CASE shown = AbsentAction
      BY <1>6, <3>1
    <3>2. CASE shown # AbsentAction /\ current
      <4>1. shown = Stored(latest, messageCount)
        BY <3>2 DEF TrackerInv, ShownIsLatest
      <4>2. shown.sequence = messageCount
        BY <4>1 DEF Stored
      <4>. QED BY <1>3, <1>4, <1>5, <3>2, <4>2
    <3>3. CASE shown # AbsentAction /\ ~current
      BY <1>3, <1>7, <3>3 DEF TrackerInv, ShownIsLatest
    <3>. QED BY <3>1, <3>2, <3>3
  <2>2. messageCount' = 0 => latest' = NoAction
    BY <1>1, <1>3, <1>7 DEF TrackerInv, ShownIsLatest
  <2>. QED BY <1>12, <2>1, <2>2 DEF ShownIsLatest
<1>14. Told \subseteq Told'
  <2>1. told \in [Goals -> Facts]
    BY <1>1 DEF TypeOK
  <2>2. told'[goal] = [told[goal] EXCEPT ![field] = clock + 1]
    BY <2>1
  <2>3. told'[goal] # NothingTold
    BY <1>1, <2>2 DEF NothingTold, Facts
  <2>4. \A h \in Goals : h # goal => told'[h] = told[h]
    BY <2>1
  <2>. QED BY <2>3, <2>4 DEF Told
<1>15. LatestCovers(latest)'
  <2>1. /\ latest.status \in Nat /\ latest.progress \in Nat
        /\ latest.status <= clock /\ latest.progress <= clock
    BY <1>1 DEF TrackerInv, LatestCovers, Actions
  <2>2. CASE current
    <3>1. latest' = action /\ latest'.id = latest.id /\ latest.id # NoGoal
          /\ latest.id[1] = goal
      BY <1>1, <1>4, <2>2 DEF SameAction, Actions
    <3>2. latest'.status <= clock' /\ latest'.progress <= clock'
      BY <1>1, <1>3, <2>1, <3>1 DEF Actions
    <3>3. /\ facts.status # 0 => action.status = facts.status
          /\ facts.progress # 0 => action.progress = facts.progress
      BY <1>1, <2>2, <3>1 DEF TrackerInv, LatestCovers, Facts, Actions
    <3>4. ASSUME Cardinality(Told') <= MaxDiagnostics
          PROVE  latest'.status = told'[goal].status /\ latest'.progress = told'[goal].progress
      <4>2. Cardinality(Told) <= MaxDiagnostics
        BY <1>11, <1>14, <3>4, FS_Subset, FS_CardinalityType, TrackerAssumption
           DEF CacheTold, TrackerInv
      <4>3. latest.status = told[goal].status /\ latest.progress = told[goal].progress
        BY <2>2, <3>1, <4>2 DEF TrackerInv, LatestCovers
      <4>4. told'[goal] = [told[goal] EXCEPT ![field] = clock + 1]
        BY <1>1 DEF TypeOK
      <4>. QED BY <1>1, <3>1, <4>3, <4>4 DEF Facts, Actions
    <3> HIDE DEF facts, action, current
    <3>. QED BY <1>8, <3>1, <3>2, <3>3, <3>4 DEF LatestCovers
  <2>3. CASE ~current
    <3>1. latest' = latest /\ messageCount' = messageCount
      BY <1>3, <1>7, <2>3
    <3>2. ASSUME latest.id # NoGoal, messageCount > 0
          PROVE  /\ latest.id[1] \in Goals \ {goal}
                 /\ cache'[latest.id[1]] \in {cache[latest.id[1]], NothingTold}
                 /\ told'[latest.id[1]] = told[latest.id[1]]
      <4>1. latest.id[1] \in Goals \ {goal}
        BY <1>1, <2>3, <3>2 DEF SameAction, Actions, GoalIds, NoGoal
      <4>. QED BY <1>8, <4>1
    <3>3. Cardinality(Told') <= MaxDiagnostics => Cardinality(Told) <= MaxDiagnostics
      BY <1>11, <1>14, FS_Subset, FS_CardinalityType, TrackerAssumption
         DEF CacheTold, TrackerInv
    <3>4. latest.status <= clock' /\ latest.progress <= clock'
      BY <1>1, <1>3, <2>1
    <3> HIDE DEF facts, action, current
    <3>. QED BY <3>1, <3>2, <3>3, <3>4 DEF LatestCovers, TrackerInv, NothingTold
  <2>. QED BY <2>2, <2>3
<1>16. RecentInv'
  BY <1>3 DEF TrackerInv, RecentInv, RecentIsNewest
<1>17. PublishedCurrent'
  <2> HIDE DEF action, current
  <2>. QED BY <1>3, <1>5, <1>6, <1>7 DEF TrackerInv, PublishedCurrent
<1>. QED BY <1>9, <1>10, <1>11, <1>13, <1>15, <1>16, <1>17 DEF TrackerInv

\* The publish timer keeps the invariant.
LEMMA PublishStep == ASSUME TrackerInv, PublishSnapshot PROVE TrackerInv'
<1> DEFINE expired == (messageCount = 0 \/ silent) /\ ~timedOut
<1>1. /\ dirty' = FALSE
      /\ UNCHANGED <<cache, order, latest, messageCount, silent, clock, told, ended>>
  BY DEF PublishSnapshot
<1>2. expired => shown' = AbsentAction /\ shownRecent' = AbsentAction
                 /\ recentTerminal' = AbsentAction /\ timedOut' = TRUE
  BY DEF PublishSnapshot
<1>3. ~expired => UNCHANGED <<shown, shownRecent, recentTerminal, timedOut>>
  BY DEF PublishSnapshot
<1>4. published' = IF dirty \/ expired THEN <<shown', shownRecent'>> ELSE published
  BY DEF PublishSnapshot
<1>5. AbsentAction \in StoredActions
  BY DEF AbsentAction, NoAction, Stored, StoredActions, GoalIds
<1> HIDE DEF expired
<1>6. TypeOK'
  <2>1. /\ shown' \in StoredActions /\ shownRecent' \in StoredActions
        /\ recentTerminal' \in StoredActions
    BY <1>2, <1>3, <1>5 DEF TrackerInv, TypeOK
  <2>2. timedOut' \in BOOLEAN /\ dirty' \in BOOLEAN
    BY <1>1, <1>2, <1>3 DEF TrackerInv, TypeOK
  <2>3. published' \in StoredActions \X StoredActions
    BY <1>4, <2>1 DEF TrackerInv, TypeOK
  <2>. QED BY <1>1, <2>1, <2>2, <2>3 DEF TrackerInv, TypeOK
<1>7. CacheBounded' /\ CacheTold' /\ LatestCovers(latest)'
  BY <1>1 DEF TrackerInv, CacheBounded, CacheTold, LatestCovers, Told
<1>8. ShownIsLatest' /\ RecentInv'
  BY <1>1, <1>2, <1>3 DEF TrackerInv, ShownIsLatest, RecentInv, RecentIsNewest
<1>9. PublishedCurrent'
  BY <1>1, <1>3, <1>4 DEF TrackerInv, PublishedCurrent
<1>. QED BY <1>6, <1>7, <1>8, <1>9 DEF TrackerInv

\* A step that leaves all but silent alone keeps the invariant.
LEMMA QuietStep ==
  ASSUME TrackerInv, silent' \in BOOLEAN,
         UNCHANGED <<cache, order, latest, shown, shownRecent, recentTerminal,
                     messageCount, timedOut, dirty, published, clock, told, ended>>
  PROVE  TrackerInv'
BY DEF TrackerInv, TypeOK, CacheBounded, CacheTold, LatestCovers, Told,
       ShownIsLatest, RecentInv, RecentIsNewest, PublishedCurrent

\* Every step keeps the invariant.
LEMMA TrackerStep == TrackerInv /\ [TrackerNext]_trackerVars => TrackerInv'
<1> SUFFICES ASSUME TrackerInv, [TrackerNext]_trackerVars PROVE TrackerInv'
  OBVIOUS
<1>1. ASSUME NEW id \in GoalIds, NEW terminal \in BOOLEAN, OnPublicAction(id, terminal)
      PROVE  TrackerInv'
  BY <1>1, ActionStep
<1>2. ASSUME NEW goal \in Goals, OnActionStatus(goal) PROVE TrackerInv'
  <2>1. [cache[goal] EXCEPT !.status = clock + 1] = [cache[goal] EXCEPT !["status"] = clock + 1]
    OBVIOUS
  <2>. QED BY <1>2, <2>1, HiddenStep DEF OnActionStatus
<1>3. ASSUME NEW goal \in Goals, OnActionFeedback(goal) PROVE TrackerInv'
  BY <1>3, HiddenStep DEF OnActionFeedback
<1>4. CASE PublishSnapshot
  BY <1>4, PublishStep
<1>5. CASE Elapse
  BY <1>5, QuietStep DEF Elapse
<1>6. CASE UNCHANGED trackerVars
  <2>1. silent' \in BOOLEAN
    BY <1>6 DEF trackerVars, store, TrackerInv, TypeOK
  <2>. QED BY <1>6, <2>1, QuietStep DEF trackerVars, store
<1>. QED BY <1>1, <1>2, <1>3, <1>4, <1>5, <1>6 DEF TrackerNext
-----------------------------------------------------------------------------
\* The inductive invariant of the tracker.
THEOREM TrackerCorrect == TrackerSpec => []TrackerInv
BY InitialInv, TrackerStep, PTL DEF TrackerSpec

\* The variables always have their types.
THEOREM TypeCorrect == TrackerSpec => []TypeOK
<1>1. TrackerInv => TypeOK
  BY DEF TrackerInv
<1>. QED BY <1>1, TrackerCorrect, PTL

\* Map and queue of the cache agree and hold at most MaxDiagnostics actions.
THEOREM CacheCorrect == TrackerSpec => []CacheBounded
<1>1. TrackerInv => CacheBounded
  BY DEF TrackerInv
<1>. QED BY <1>1, TrackerCorrect, PTL

\* Hidden facts reach the stored state in whatever order the messages come.
THEOREM OrderIrrelevant == TrackerSpec => []FactsInAnyOrder
<1>1. TrackerInv => FactsInAnyOrder
  <2> SUFFICES ASSUME TrackerInv, NEW g \in Goals,
                      Cardinality({h \in Goals : told[h] # NothingTold}) <= MaxDiagnostics,
                      shown # AbsentAction, SameAction(g, shown.id)
               PROVE  shown.status = told[g].status /\ shown.progress = told[g].progress
    BY DEF FactsInAnyOrder
  <2>1. shown = Stored(latest, messageCount)
    BY DEF TrackerInv, ShownIsLatest
  <2>2. messageCount # 0
    BY <2>1 DEF TrackerInv, ShownIsLatest, AbsentAction
  <2>3. messageCount > 0
    BY <2>2 DEF TrackerInv, TypeOK
  <2>4. latest.id # NoGoal /\ latest.id[1] = g
    BY <2>1 DEF Stored, SameAction
  <2>. QED BY <2>1, <2>3, <2>4 DEF TrackerInv, LatestCovers, Told, Stored
<1>. QED BY <1>1, TrackerCorrect, PTL

\* Hidden messages leave the metadata of the public topic alone.
THEOREM MetadataKept == TrackerSpec => []MetadataOfPublic
<1>1. TrackerInv => MetadataOfPublic
  BY DEF TrackerInv, ShownIsLatest, MetadataOfPublic, Stored
<1>. QED BY <1>1, TrackerCorrect, PTL

\* No change of the action state stays unpublished.
THEOREM NothingUnpublished == TrackerSpec => []PublishedCurrent
<1>1. TrackerInv => PublishedCurrent
  BY DEF TrackerInv
<1>. QED BY <1>1, TrackerCorrect, PTL

\* The recent terminal is the newest one.
THEOREM RecentCorrect == TrackerSpec => []RecentIsNewest
<1>1. TrackerInv => RecentIsNewest
  BY DEF TrackerInv, RecentInv
<1>. QED BY <1>1, TrackerCorrect, PTL

\* The facts of the current action are never lost, cache or not.
THEOREM FactsKept == TrackerSpec => NeverForgets
<1> DEFINE Kept == shown # AbsentAction /\ shown' # AbsentAction /\ shown'.id = shown.id =>
                     shown'.status >= shown.status /\ shown'.progress >= shown.progress
<1>1. TrackerInv /\ [TrackerNext]_trackerVars => [Kept]_trackerVars
  <2> SUFFICES ASSUME TrackerInv, TrackerNext, shown # AbsentAction, shown' # AbsentAction,
                      shown'.id = shown.id
               PROVE  shown'.status >= shown.status /\ shown'.progress >= shown.progress
    OBVIOUS
  <2>1. /\ shown = Stored(latest, messageCount)
        /\ shown.id = latest.id /\ shown.status = latest.status
        /\ shown.progress = latest.progress
    BY DEF TrackerInv, ShownIsLatest, Stored
  <2>2. /\ latest.status \in Nat /\ latest.progress \in Nat /\ clock \in Nat
        /\ latest.status <= clock /\ latest.progress <= clock /\ messageCount \in Nat
        /\ latest \in Actions
    BY DEF TrackerInv, TypeOK, Actions, LatestCovers
  <2>3. messageCount > 0
    BY <2>1, <2>2 DEF TrackerInv, ShownIsLatest, AbsentAction
  <2>4. shown' = shown => shown'.status >= shown.status /\ shown'.progress >= shown.progress
    BY <2>1, <2>2
  <2>5. ASSUME NEW id \in GoalIds, NEW terminal \in BOOLEAN, OnPublicAction(id, terminal)
        PROVE  shown'.status >= shown.status /\ shown'.progress >= shown.progress
    <3>1. /\ shown'.id = id
          /\ shown'.status = Merged(id).status /\ shown'.progress = Merged(id).progress
      BY <2>5 DEF OnPublicAction, UpdateActionState, Stored
    <3>. QED BY <2>1, <2>2, <2>3, <3>1, MergeStep
  <2>6. ASSUME NEW goal \in Goals, NEW facts, NEW field \in {"status", "progress"},
               Hidden(goal, facts, [latest EXCEPT ![field] = clock + 1])
        PROVE  shown'.status >= shown.status /\ shown'.progress >= shown.progress
    <3>1. shown' = shown
          \/ shown' = Stored([latest EXCEPT ![field] = clock + 1], shown.sequence)
      BY <2>6 DEF Hidden, UpdateActionDiagnostics, store
    <3>. QED BY <2>1, <2>2, <2>4, <3>1 DEF Stored, Actions
  <2>7. ASSUME NEW goal \in Goals, OnActionStatus(goal) \/ OnActionFeedback(goal)
        PROVE  shown'.status >= shown.status /\ shown'.progress >= shown.progress
    BY <2>6, <2>7 DEF OnActionStatus, OnActionFeedback
  <2>8. CASE PublishSnapshot
    BY <2>4, <2>8 DEF PublishSnapshot
  <2>9. CASE Elapse
    BY <2>4, <2>9 DEF Elapse
  <2>. QED BY <2>5, <2>7, <2>8, <2>9 DEF TrackerNext
<1>. QED BY <1>1, TrackerCorrect, PTL DEF TrackerSpec, NeverForgets
=============================================================================
