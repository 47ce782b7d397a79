---------------------------- MODULE PanelsProofs -----------------------------
(***************************************************************************)
(* Theorems about what the client derives from its snapshots, for every    *)
(* value of the constants: the depth profile, the trail, the control       *)
(* curves and the status panel.                                            *)
(***************************************************************************)
EXTENDS DepthProfile, ControlCurves, HistoryTrail, StatusPanel,
        SequenceTheorems, FiniteSetTheorems, TLAPS
-----------------------------------------------------------------------------
(* The depth profile shows one action and misses no new target or stop, in *)
(* any order of time.                                                      *)

Some(values) == {0} \cup values
Tasks == Some({report.task.task : report \in Reports})
Goals == Some({report.action.goal : report \in Reports})
ChassisModes == Some({report.action.chassisMode : report \in Reports})
TargetValues == [Quantities -> Nat]
Samples == [elapsed : Nat, targets : TargetValues, stopped : BOOLEAN, goal : Goals]
Profiles == [active : BOOLEAN, frozen : BOOLEAN, anchor : Nat, pre : Nat, task : Tasks,
             mode : ChassisModes, goal : Goals, targets : TargetValues, samples : Seq(Samples)]

\* Every sample that is not of an emergency stop is of the profile's action.
OneAction(p) ==
  \A i \in DOMAIN p.samples :
    p.goal # 0 /\ ~p.samples[i].stopped => p.samples[i].goal \in {0, p.goal}
\* The last sample shows what is drawn, but for targets lost meanwhile.
ShowsLast(p, s) ==
  p.active =>
    /\ p.samples # <<>>
    /\ LET last == p.samples[Len(p.samples)]
       IN  /\ ~NewTarget(s, last) /\ (Stopped(s) => last.stopped)
           /\ Targets(s) # last.targets => Elapsed(p, s) - last.elapsed < 1

\* The variables keep their types.
ProfileTypeOK == profile \in Profiles
ProfileInv == ProfileTypeOK /\ OneAction(profile) /\ ShowsLast(profile, drawn)

\* The targets of a snapshot.
LEMMA TargetsType ==
  ASSUME NEW s \in [report : Reports, time : Nat]
  PROVE  Targets(s) \in TargetValues
<1>1. /\ s.report.command \in [Quantities -> Nat]
      /\ s.report.planned \in [Quantities -> Nat \ {0}]
  BY ProfileAssumption DEF ProfileAssumption
<1> QED BY <1>1 DEF Targets, TargetValues

\* A new profile has no samples, and the goal of the action it begins with.
LEMMA StartIsEmpty ==
  ASSUME NEW s \in [report : Reports, time : Nat]
  PROVE  /\ Start(s) \in Profiles /\ Start(s).active
         /\ Start(s).goal = s.report.action.goal /\ Start(s).samples = <<>>
<1>1. s.report \in Reports /\ s.time \in Nat /\ s.report.started \in Nat
  BY ProfileAssumption DEF ProfileAssumption
<1>2. Start(s) = [active |-> TRUE, frozen |-> FALSE, anchor |-> s.time,
                  pre |-> IF s.report.started = 0 THEN 0 ELSE Max(0, s.time - s.report.started),
                  task |-> s.report.task.task, mode |-> s.report.action.chassisMode,
                  goal |-> s.report.action.goal, targets |-> Targets(s), samples |-> <<>>]
  BY DEF Start
<1>3. (IF s.report.started = 0 THEN 0 ELSE Max(0, s.time - s.report.started)) \in Nat
  BY <1>1, SMT DEF Max
<1>4. /\ s.report.task.task \in Tasks /\ s.report.action.chassisMode \in ChassisModes
      /\ s.report.action.goal \in Goals /\ Targets(s) \in TargetValues
  BY <1>1, TargetsType DEF Tasks, ChassisModes, Goals, Some
<1>5. <<>> \in Seq(Samples)
  BY EmptySeq
<1> QED BY <1>1, <1>2, <1>3, <1>4, <1>5 DEF Profiles

\* A sample is of what is drawn; it is left out only if the last one is younger
\* than the interval and shows the stop and all targets that are there.
LEMMA SampledShows ==
  ASSUME NEW p \in Profiles, NEW s \in [report : Reports, time : Nat],
         p.active, OneAction(p),
         Stopped(s) \/ 0 \in {p.goal, s.report.action.goal} \/ s.report.action.goal = p.goal
  PROVE  /\ Sampled(p, s) \in Profiles
         /\ OneAction(Sampled(p, s)) /\ ShowsLast(Sampled(p, s), s)
<1> DEFINE sample == [elapsed |-> Elapsed(p, s), targets |-> Targets(s),
                      stopped |-> Stopped(s), goal |-> s.report.action.goal]
           taken == Append(p.samples, sample)
           first == Max(1, Len(taken) - MaxSamples + 1)
           kept == SubSeq(taken, first, Len(taken))
           samples == IF Skipped(p, s) THEN p.samples ELSE kept
           mode == IF s.report.action.valid THEN s.report.action.chassisMode ELSE p.mode
<1>1. /\ s.report \in Reports /\ s.time \in Nat /\ Stopped(s) \in BOOLEAN
      /\ MaxSamples \in Nat \ {0} /\ p.anchor \in Nat /\ p.pre \in Nat
      /\ p.samples \in Seq(Samples)
  BY ProfileAssumption DEF ProfileAssumption, Stopped, Profiles
<1>2. Elapsed(p, s) \in Nat
  BY <1>1, SMT DEF Elapsed, Max
<1>3. /\ s.report.action.chassisMode \in ChassisModes
      /\ s.report.action.goal \in Goals /\ Targets(s) \in TargetValues
  BY <1>1, TargetsType DEF ChassisModes, Goals, Some
<1>4. sample \in Samples
  BY <1>1, <1>2, <1>3 DEF Samples
<1>5. Sampled(p, s) = [p EXCEPT !.targets = Targets(s), !.mode = mode, !.samples = samples]
  BY DEF Sampled
<1> HIDE DEF sample
<1>6. /\ taken \in Seq(Samples) /\ Len(taken) = Len(p.samples) + 1 /\ Len(p.samples) \in Nat
      /\ taken[Len(taken)] = sample
      /\ \A i \in 1 .. Len(p.samples) : taken[i] = p.samples[i]
  BY <1>1, <1>4, LenProperties, SMT
<1> HIDE DEF taken
<1>7. first \in 1 .. Len(taken)
  BY <1>1, <1>6, SMT DEF Max
<1>8. /\ kept \in Seq(Samples) /\ Len(kept) = Len(taken) - first + 1
      /\ \A i \in 1 .. Len(kept) : kept[i] = taken[first + i - 1]
  <2>1. \A i \in first .. Len(taken) : taken[i] \in Samples
    BY <1>6, <1>7, ElementOfSeq, SMT
  <2>2. /\ kept \in Seq(Samples)
        /\ Len(kept) = IF first <= Len(taken) THEN Len(taken) - first + 1 ELSE 0
        /\ \A i \in 1 .. Len(taken) - first + 1 : kept[i] = taken[first + i - 1]
    BY <1>6, <1>7, <2>1, SubSeqProperties, SMT
  <2>3. first <= Len(taken)
    BY <1>6, <1>7, SMT
  <2> HIDE DEF first, kept
  <2> QED BY <2>2, <2>3
<1> HIDE DEF first, kept
<1>9. /\ kept[Len(kept)] = sample /\ Len(kept) \in Nat \ {0} /\ kept # <<>>
      /\ DOMAIN kept = 1 .. Len(kept)
  <2>1. DOMAIN kept = 1 .. Len(kept)
    BY <1>8, LenProperties
  <2>2. Len(kept) \in Nat \ {0} /\ first + Len(kept) - 1 = Len(taken)
    BY <1>6, <1>7, <1>8, SMT
  <2>3. Len(kept) \in 1 .. Len(kept)
    BY <2>2, SMT
  <2>4. kept[Len(kept)] = sample
    BY <1>6, <1>8, <2>2, <2>3
  <2> QED BY <1>8, <2>1, <2>2, <2>4, EmptySeq
<1>10. samples \in Seq(Samples) /\ mode \in ChassisModes
  BY <1>1, <1>3, <1>8 DEF Profiles
<1> HIDE DEF mode
<1>11. /\ Sampled(p, s) \in Profiles /\ Sampled(p, s).samples = samples
       /\ Sampled(p, s).goal = p.goal /\ Sampled(p, s).active = p.active
       /\ Elapsed(Sampled(p, s), s) = Elapsed(p, s)
  BY <1>3, <1>5, <1>10 DEF Profiles, Elapsed
<1>12. ASSUME NEW i \in DOMAIN samples, p.goal # 0, ~samples[i].stopped
       PROVE  samples[i].goal \in {0, p.goal}
  <2>1. CASE Skipped(p, s)
    BY <1>12, <2>1 DEF OneAction
  <2>2. CASE ~Skipped(p, s)
    <3>1. kept[i] = taken[first + i - 1] /\ first + i - 1 \in 1 .. Len(taken) /\ samples[i] = kept[i]
      <4>1. i \in 1 .. Len(kept) /\ samples[i] = kept[i]
        BY <1>9, <1>12, <2>2
      <4>2. kept[i] = taken[first + i - 1]
        BY <1>8, <4>1
      <4>3. first + i - 1 \in 1 .. Len(taken)
        BY <1>6, <1>7, <1>8, <4>1, SMT
      <4> QED BY <4>1, <4>2, <4>3
    <3>2. CASE first + i - 1 = Len(taken)
      <4>1. samples[i] = sample
        BY <1>6, <3>1, <3>2
      <4> QED BY <1>12, <4>1 DEF sample
    <3>3. CASE first + i - 1 # Len(taken)
      <4>1. first + i - 1 \in DOMAIN p.samples
        BY <1>1, <1>6, <3>1, <3>3, LenProperties, SMT
      <4>2. samples[i] = p.samples[first + i - 1] /\ first + i - 1 \in 1 .. Len(p.samples)
        BY <1>6, <3>1, <3>3, SMT
      <4> QED BY <1>12, <4>1, <4>2 DEF OneAction
    <3> QED BY <3>2, <3>3
  <2> QED BY <2>1, <2>2
<1>13. /\ samples # <<>>
       /\ ~NewTarget(s, samples[Len(samples)])
       /\ Stopped(s) => samples[Len(samples)].stopped
       /\ \/ Targets(s) = samples[Len(samples)].targets
          \/ Elapsed(p, s) - samples[Len(samples)].elapsed < 1
  <2>1. CASE Skipped(p, s)
    BY <2>1 DEF Skipped
  <2>2. CASE ~Skipped(p, s)
    BY <1>9, <2>2 DEF sample, NewTarget
  <2> QED BY <2>1, <2>2
<1> QED BY <1>11, <1>12, <1>13 DEF OneAction, ShowsLast

\* What a snapshot does to the profile.
LEMMA UpdatedShows ==
  ASSUME ProfileInv, NEW s \in [report : Reports, time : Nat]
  PROVE  Updated(s) \in Profiles /\ OneAction(Updated(s)) /\ ShowsLast(Updated(s), s)
<1> DEFINE p == IF ShouldStart(profile, s) THEN Start(s) ELSE profile
<1>1. p \in Profiles /\ OneAction(p)
  BY StartIsEmpty DEF ProfileInv, ProfileTypeOK, OneAction
<1>2. CASE ~p.active
  <2>1. Updated(s) = p
    BY <1>2 DEF Updated
  <2> QED BY <1>1, <1>2, <2>1 DEF ShowsLast
<1>3. CASE p.active /\ (ModeOf(s) = "VerticalMotion" \/ Stopped(s))
  <2>1. Updated(s) = Sampled(p, s)
    BY <1>3 DEF Updated
  <2>2. Stopped(s) \/ 0 \in {p.goal, s.report.action.goal} \/ s.report.action.goal = p.goal
    BY <1>3, StartIsEmpty DEF ShouldStart
  <2> QED BY <1>1, <1>3, <2>1, <2>2, SampledShows
<1>4. CASE p.active /\ ~(ModeOf(s) = "VerticalMotion" \/ Stopped(s))
  <2>1. Updated(s) = Freeze(p)
    BY <1>4 DEF Updated
  <2>2. /\ Freeze(p) \in Profiles /\ ~Freeze(p).active
        /\ Freeze(p).goal = p.goal /\ Freeze(p).samples = p.samples
    BY <1>1 DEF Freeze, Profiles
  <2> QED BY <1>1, <2>1, <2>2 DEF OneAction, ShowsLast
<1> QED BY <1>2, <1>3, <1>4

\* The inductive invariant of the depth profile.
THEOREM ProfileCorrect == ProfileSpec => []ProfileInv
<1>0. NoProfile \in Profiles /\ NoProfile.samples = <<>> /\ ~NoProfile.active
  BY EmptySeq, SMT DEF NoProfile, NoTargets, Profiles, Tasks, ChassisModes, Goals, TargetValues, Some
<1>1. ProfileInit => ProfileInv
  BY <1>0 DEF ProfileInit, ProfileInv, ProfileTypeOK, OneAction, ShowsLast
<1>2. ProfileInv /\ [ProfileNext]_profileVars => ProfileInv'
  <2> SUFFICES ASSUME ProfileInv, [ProfileNext]_profileVars PROVE ProfileInv'
    OBVIOUS
  <2>1. CASE UpdateScene
    <3>1. PICK report \in Reports, time \in 1 .. MaxTime :
            drawn' = [report |-> report, time |-> time] /\ profile' = Updated(drawn')
      BY <2>1 DEF UpdateScene
    <3>2. drawn' \in [report : Reports, time : Nat]
      BY <3>1, ProfileAssumption, SMT DEF ProfileAssumption
    <3>3. profile' \in Profiles /\ OneAction(profile') /\ ShowsLast(profile', drawn')
      BY <3>1, <3>2, UpdatedShows
    <3> QED BY <3>3 DEF ProfileInv, ProfileTypeOK, OneAction, ShowsLast, Stopped
  <2>2. CASE ResetPlaybackSession
    BY <1>0, <2>2 DEF ResetPlaybackSession, ProfileInv, ProfileTypeOK, OneAction, ShowsLast
  <2>3. CASE UNCHANGED profileVars
    BY <2>3 DEF profileVars, ProfileInv, ProfileTypeOK, OneAction, ShowsLast, Stopped
  <2> QED BY <2>1, <2>2, <2>3 DEF ProfileNext
<1> QED BY <1>1, <1>2, PTL DEF ProfileSpec

\* A profile shows one action (shouldStartNewVerticalSegment), whatever
\* snapshots were not drawn.
THEOREM OneActionShown == ProfileSpec => []ProfileOneAction
<1>1. ProfileInv => ProfileOneAction
  BY DEF ProfileInv, OneAction, ProfileOneAction
<1> QED BY <1>1, ProfileCorrect, PTL

\* A new target and the beginning of a stop are sampled at once, the loss of a
\* target within an interval of the profile's clock (appendVerticalMotionSample),
\* however close the snapshots come.
THEOREM NoneMissed == ProfileSpec => []NothingMissed
<1>1. ProfileInv => NothingMissed
  BY DEF ProfileInv, ShowsLast, NothingMissed
<1> QED BY <1>1, ProfileCorrect, PTL
-----------------------------------------------------------------------------
(* The trail keeps up with the vehicle.                                    *)

\* The variables keep their types.
TrailTypeOK ==
  /\ trail \in Seq(Locations)
  /\ latest \in Locations \cup {NoLocation}
  /\ vertical \in BOOLEAN
TrailInv == TrailTypeOK /\ TrailKeepsUp

\* The last sample is the vehicle's, to within the thresholds.
Near(last, point, diving) ==
  /\ Distance(last.place, point.place) < 2
  /\ point.level # NoLevel => last.level # NoLevel /\ Distance(last.level, point.level) < 2
  /\ diving => point.at - last.at < 2
\* No sample is there twice in a row.
NoRepeat(points) == \A i \in 1 .. Len(points) - 1 : ~Same(points[i + 1], points[i])

\* A location has numbers.
LEMMA LocationNumbers ==
  ASSUME NEW point \in Locations
  PROVE  point.at \in Nat /\ point.place \in Int /\ point.level \in Int
<1>1. point.at \in Times /\ point.place \in Places /\ point.level \in Levels \cup {NoLevel}
  BY DEF Locations
<1>2. Places \subseteq Int /\ Levels \subseteq Nat /\ Times \subseteq Nat
  BY TrailAssumption DEF TrailAssumption
<1>3. NoLevel \in Int
  BY SMT DEF NoLevel
<1>4. point.at \in Nat /\ point.place \in Int /\ (point.level \in Nat \/ point.level = NoLevel)
  BY <1>1, <1>2
<1> QED BY <1>3, <1>4, SMT

\* Newest keeps the end of the sequence, in its order, and is no longer than
\* the trail may be.
LEMMA NewestKeepsEnd ==
  ASSUME NEW points \in Seq(Locations), points # <<>>
  PROVE  /\ Newest(points) \in Seq(Locations) /\ Len(Newest(points)) \in 1 .. MaxPoints
         /\ Newest(points)[Len(Newest(points))] = points[Len(points)]
         /\ NoRepeat(points) => NoRepeat(Newest(points))
<1> DEFINE first == IF Len(points) > MaxPoints THEN Len(points) - MaxPoints + 1 ELSE 1
           kept == SubSeq(points, first, Len(points))
<1>1. Len(points) \in Nat \ {0} /\ first \in 1 .. Len(points) /\ MaxPoints \in Nat \ {0}
  BY TrailAssumption, SMT DEF TrailAssumption
<1>2. /\ kept \in Seq(Locations) /\ Len(kept) = Len(points) - first + 1
      /\ \A i \in 1 .. Len(kept) : kept[i] = points[first + i - 1]
  <2>1. \A i \in first .. Len(points) : points[i] \in Locations
    BY <1>1, SMT
  <2>2. /\ kept \in Seq(Locations)
        /\ Len(kept) = IF first <= Len(points) THEN Len(points) - first + 1 ELSE 0
        /\ \A i \in 1 .. Len(points) - first + 1 : kept[i] = points[first + i - 1]
    BY <1>1, <2>1, SubSeqProperties, SMT
  <2>3. first <= Len(points) /\ first \in Int /\ Len(points) \in Int
    BY <1>1, SMT
  <2> HIDE DEF first, kept
  <2> QED BY <2>2, <2>3
<1> HIDE DEF first, kept
<1>3. Len(kept) \in 1 .. MaxPoints
  BY <1>1, <1>2, SMT DEF first
<1>4. kept[Len(kept)] = points[Len(points)]
  BY <1>1, <1>2, SMT
<1>5. ASSUME NoRepeat(points) PROVE NoRepeat(kept)
  <2> SUFFICES ASSUME NEW i \in 1 .. Len(kept) - 1 PROVE ~Same(kept[i + 1], kept[i])
    BY DEF NoRepeat
  <2>1. /\ kept[i] = points[first + i - 1] /\ kept[i + 1] = points[(first + i - 1) + 1]
        /\ first + i - 1 \in 1 .. Len(points) - 1
    BY <1>1, <1>2, SMT
  <2> QED BY <2>1, <1>5 DEF NoRepeat
<1> QED BY <1>2, <1>3, <1>4, <1>5 DEF Newest, first, kept

\* What a snapshot does to the trail: it ends near the vehicle.
LEMMA AppendedIsNear ==
  ASSUME NEW points \in Seq(Locations), NEW point \in Locations, NEW diving \in BOOLEAN,
         Len(points) <= MaxPoints, NoRepeat(points)
  PROVE  LET next == Appended(points, point, diving)
         IN  /\ next \in Seq(Locations) /\ next # <<>> /\ Len(next) <= MaxPoints
             /\ NoRepeat(next) /\ Near(next[Len(next)], point, diving)
<1> DEFINE next == Appended(points, point, diving)
           last == points[Len(points)]
<1>0. Near(point, point, diving)
  BY LocationNumbers, SMT DEF Near, Distance
<1>1. CASE points = <<>>
  <2>1. next = <<point>>
    BY <1>1 DEF Appended
  <2> QED BY <2>1, <1>0, TrailAssumption, SMT DEF TrailAssumption, NoRepeat
<1>2. CASE points # <<>>
  <2>0. Len(points) \in Nat \ {0} /\ last \in Locations
    BY <1>2, SMT
  <2>1. CASE Same(point, last)
    <3> DEFINE done == Completed(last, point)
    <3>1. next = [points EXCEPT ![Len(points)] = done]
      BY <1>2, <2>1 DEF Appended
    <3>2. done \in Locations /\ done.at = last.at /\ done.place = last.place
      BY <2>0, SMT DEF Completed, Locations
    <3>3. done.level = IF point.level = NoLevel THEN last.level ELSE point.level
      BY <2>0, SMT DEF Completed, Locations
    <3>4. /\ next \in Seq(Locations) /\ Len(next) = Len(points) /\ next # <<>>
          /\ next[Len(next)] = done
          /\ \A i \in 1 .. Len(points) - 1 : next[i] = points[i]
      BY <2>0, <3>1, <3>2, SMT
    <3>5. NoRepeat(next)
      <4> SUFFICES ASSUME NEW i \in 1 .. Len(points) - 1 PROVE ~Same(next[i + 1], next[i])
        BY <3>4 DEF NoRepeat
      <4>1. next[i] = points[i] /\ ~Same(points[i + 1], points[i])
        BY <3>4 DEF NoRepeat
      <4>2. CASE i + 1 = Len(points)
        BY <4>1, <4>2, <3>2, <3>4 DEF Same
      <4>3. CASE i + 1 # Len(points)
        BY <4>1, <4>3, <3>4, <2>0, SMT
      <4> QED BY <4>2, <4>3
    <3>6. Near(done, point, diving)
      BY <2>0, <2>1, <3>2, <3>3, LocationNumbers, SMT DEF Near, Distance, Same
    <3> QED BY <3>4, <3>5, <3>6
  <2>2. CASE ~Same(point, last) /\ Moved(point, last, diving)
    <3> DEFINE longer == Append(points, point)
    <3>1. next = Newest(longer)
      BY <1>2, <2>2 DEF Appended
    <3>2. /\ longer \in Seq(Locations) /\ longer # <<>> /\ Len(longer) = Len(points) + 1
          /\ longer[Len(longer)] = point
          /\ \A i \in 1 .. Len(points) : longer[i] = points[i]
      BY <2>0, SMT
    <3>3. NoRepeat(longer)
      <4> SUFFICES ASSUME NEW i \in 1 .. Len(points) PROVE ~Same(longer[i + 1], longer[i])
        BY <3>2, <2>0, SMT DEF NoRepeat
      <4>1. CASE i = Len(points)
        BY <4>1, <3>2, <2>2
      <4>2. CASE i # Len(points)
        <5>1. i \in 1 .. Len(points) - 1 /\ i + 1 \in 1 .. Len(points)
          BY <4>2, <2>0, SMT
        <5> QED BY <5>1, <3>2 DEF NoRepeat
      <4> QED BY <4>1, <4>2
    <3>4. /\ next \in Seq(Locations) /\ Len(next) \in 1 .. MaxPoints
          /\ next[Len(next)] = point /\ NoRepeat(next)
      BY <3>1, <3>2, <3>3, NewestKeepsEnd
    <3> QED BY <3>4, <1>0, TrailAssumption, SMT DEF TrailAssumption
  <2>3. CASE ~Same(point, last) /\ ~Moved(point, last, diving)
    <3>1. next = points
      BY <1>2, <2>3 DEF Appended
    <3>2. Near(last, point, diving)
      BY <2>0, <2>3, LocationNumbers, SMT DEF Near, Moved, Distance
    <3> QED BY <1>2, <3>1, <3>2
  <2> QED BY <2>1, <2>2, <2>3
<1> QED BY <1>1, <1>2

\* The invariant in the terms of the lemmas.
LEMMA KeepsUpMeans ==
  TrailKeepsUp <=> /\ Len(trail) <= MaxPoints /\ NoRepeat(trail)
                   /\ trail # <<>> => Near(trail[Len(trail)], latest, vertical)
BY DEF TrailKeepsUp, Near, NoRepeat

\* The inductive invariant of the trail.
THEOREM TrailCorrect == TrailSpec => []TrailInv
<1>1. TrailInit => TrailInv
  <2> SUFFICES ASSUME TrailInit PROVE TrailInv OBVIOUS
  <2>1. TrailTypeOK
    BY EmptySeq DEF TrailInit, TrailTypeOK
  <2>2. TrailKeepsUp
    BY TrailAssumption, SMT DEF TrailAssumption, TrailInit, TrailKeepsUp
  <2> QED BY <2>1, <2>2 DEF TrailInv
<1>2. TrailInv /\ [TrailNext]_trailVars => TrailInv'
  <2> SUFFICES ASSUME TrailInv, [TrailNext]_trailVars PROVE TrailInv' OBVIOUS
  <2>0. TrailTypeOK /\ Len(trail) <= MaxPoints /\ NoRepeat(trail)
    BY KeepsUpMeans DEF TrailInv
  <2>1. CASE ReplaceSnapshot
    <3>1. PICK point \in Locations, diving \in BOOLEAN :
            trail' = Appended(trail, point, diving) /\ latest' = point /\ vertical' = diving
      BY <2>1 DEF ReplaceSnapshot
    <3>2. /\ trail' \in Seq(Locations) /\ trail' # <<>> /\ Len(trail') <= MaxPoints
          /\ NoRepeat(trail') /\ Near(trail'[Len(trail')], latest', vertical')
      BY <2>0, <3>1, AppendedIsNear DEF TrailTypeOK
    <3>3. TrailTypeOK'
      BY <3>1, <3>2 DEF TrailTypeOK
    <3>4. TrailKeepsUp'
      BY <3>2 DEF TrailKeepsUp, Near, NoRepeat
    <3> QED BY <3>3, <3>4 DEF TrailInv
  <2>2. CASE ClearHistoryTrail \/ ResetVisualizationData
    <3>1. TrailTypeOK'
      BY <2>0, <2>2, EmptySeq DEF TrailTypeOK, ClearHistoryTrail, ResetVisualizationData
    <3>2. TrailKeepsUp'
      BY <2>2, TrailAssumption, SMT DEF TrailAssumption, TrailKeepsUp, ClearHistoryTrail, ResetVisualizationData
    <3> QED BY <3>1, <3>2 DEF TrailInv
  <2>3. CASE UNCHANGED trailVars
    BY <2>3 DEF TrailInv, TrailTypeOK, TrailKeepsUp, trailVars
  <2> QED BY <2>1, <2>2, <2>3 DEF TrailNext
<1> QED BY <1>1, <1>2, PTL DEF TrailSpec

\* The trail ends where the vehicle is and never holds a sample twice
\* (appendHistoryTrailPointLocked), however many locations came.
THEOREM TrailFollows == TrailSpec => []TrailKeepsUp
BY TrailCorrect, PTL DEF TrailInv
-----------------------------------------------------------------------------
(* The control curves.                                                     *)

Kinds == {"Remote", "Ros2Bag"}
YawMetrics == Metrics \cup {"Unknown"}
CurveSamples == [at : Nat, metric : YawMetrics, elapsed : Nat]
Panels == [source : Kinds, session : Nat, sequence : Nat, first : Nat, stamp : Nat,
           metric : YawMetrics, samples : SUBSET CurveSamples]
CurveMessages == [stamp : Nat, metric : YawMetrics]
CurveSnapshots ==
  [source : Kinds, session : Nat, sequence : Nat, time : Nat, message : CurveMessages]
Workers == [state : {"Empty", "Ready", "Playing", "Paused", "Completed", "Stopped"},
            position : Nat, cursor : BOOLEAN, seeking : BOOLEAN, sequence : Nat]
CurveSignals == {<<"Stopped">>} \cup {At(q) : q \in Nat}

CurvesTypeOK ==
  /\ snapshot \in CurveSnapshots /\ worker \in Workers /\ panel \in Panels
  /\ signals \in Seq(CurveSignals) /\ lastPosition \in Nat

\* Samples placed from the origin of the axis: none before there is one.
OneAxis(p) ==
  /\ p.first = 0 => p.samples = {}
  /\ \A x \in p.samples : x.elapsed = Later(x.at, p.first) /\ x.metric \in {"Unknown", p.metric}
\* No sample and no origin after `bound'.
Within(p, bound) == p.first <= bound /\ \A x \in p.samples : x.at <= bound
\* The positions the window was told last, or will be told.
Told == {lastPosition} \cup {q \in Nat : \E i \in 1 .. Len(signals) : signals[i] = At(q)}
\* The last signal of the worker, handled or not, is of the snapshot's place.
SnapshotTold ==
  snapshot.source = "Ros2Bag" /\ snapshot.time > 0 =>
    IF signals = <<>> THEN snapshot.time = 1 + lastPosition
    ELSE signals[Len(signals)] = At(snapshot.time - 1)
\* The curves of a bag go as far as a place the window is told before any
\* earlier one.
CurvesTold ==
  snapshot.source = "Ros2Bag" =>
    /\ snapshot.message.stamp <= snapshot.time
    /\ \E q \in Told : Within(panel, 1 + q)
CurvesInv == CurvesTypeOK /\ OneAxis(panel) /\ SnapshotTold /\ CurvesTold

LEMMA CurvesConstants ==
  Sessions \subseteq Nat /\ LastTime \in Nat \ {0} /\ LastTime - 1 \in Nat
BY CurvesAssumption DEF CurvesAssumption

\* Forgetting leaves nothing.
LEMMA ForgetPanel ==
  ASSUME NEW p \in Panels
  PROVE  /\ Forget(p) \in Panels /\ OneAxis(Forget(p)) /\ Forget(p).metric = p.metric
         /\ \A bound \in Nat : Within(Forget(p), bound)
<1>1. /\ Forget(p) \in Panels /\ Forget(p).first = 0 /\ Forget(p).samples = {}
      /\ Forget(p).metric = p.metric
  BY DEF Forget, Panels
<1>. QED BY <1>1 DEF OneAxis, Within

LEMMA NewSourcePanel ==
  ASSUME NEW p \in Panels, OneAxis(p), NEW s \in CurveSnapshots
  PROVE  /\ NewSource(p, s) \in Panels /\ OneAxis(NewSource(p, s))
         /\ \A bound \in Nat : Within(p, bound) => Within(NewSource(p, s), bound)
<1> DEFINE old == IF s.source # p.source \/ s.session # p.session \/ s.sequence < p.sequence
                  THEN Forget(p) ELSE p
<1>1. old \in Panels /\ OneAxis(old) /\ \A bound \in Nat : Within(p, bound) => Within(old, bound)
  BY ForgetPanel
<1>2. NewSource(p, s) = [old EXCEPT !.source = s.source, !.session = s.session, !.sequence = s.sequence]
  BY DEF NewSource
<1> HIDE DEF old
<1>3. /\ NewSource(p, s) \in Panels /\ NewSource(p, s).first = old.first
      /\ NewSource(p, s).samples = old.samples /\ NewSource(p, s).metric = old.metric
  BY <1>1, <1>2 DEF Panels, CurveSnapshots
<1>. QED BY <1>1, <1>3 DEF OneAxis, Within

LEMMA NewMetricPanel ==
  ASSUME NEW p \in Panels, OneAxis(p), NEW metric \in YawMetrics
  PROVE  /\ NewMetric(p, metric) \in Panels /\ OneAxis(NewMetric(p, metric))
         /\ metric \in {"Unknown", NewMetric(p, metric).metric}
         /\ \A bound \in Nat : Within(p, bound) => Within(NewMetric(p, metric), bound)
<1>1. CASE metric \in {"Unknown", p.metric}
  BY <1>1 DEF NewMetric
<1>2. CASE metric \notin {"Unknown", p.metric}
  <2>1. /\ NewMetric(p, metric) \in Panels /\ NewMetric(p, metric).first = 0
        /\ NewMetric(p, metric).samples = {} /\ NewMetric(p, metric).metric = metric
    BY <1>2 DEF NewMetric, Panels
  <2>. QED BY <2>1 DEF OneAxis, Within
<1>. QED BY <1>1, <1>2

\* An origin is set only when there is none, and then there are no samples.
LEMMA OriginPanel ==
  ASSUME NEW p \in Panels, OneAxis(p), NEW s \in CurveSnapshots, NEW first \in Origins(p, s)
  PROVE  /\ [p EXCEPT !.first = first] \in Panels /\ OneAxis([p EXCEPT !.first = first])
         /\ (s.source = "Ros2Bag" => s.time # 0) => first # 0
         /\ s.source = "Ros2Bag" =>
              \A bound \in Nat : Within(p, bound) /\ s.time <= bound
                                   => Within([p EXCEPT !.first = first], bound)
<1> DEFINE n == [p EXCEPT !.first = first]
<1>1. first \in Nat /\ (p.first # 0 => first = p.first)
      /\ (p.first = 0 /\ s.source = "Ros2Bag" => first = s.time)
      /\ ((s.source = "Ros2Bag" => s.time # 0) => first # 0)
  BY CurvesConstants DEF Origins, Panels, CurveSnapshots
<1>2. n \in Panels /\ n.first = first /\ n.samples = p.samples /\ n.metric = p.metric
  BY <1>1 DEF Panels
<1>. QED BY <1>1, <1>2 DEF OneAxis, Within

\* A sample has the place its stamp has on the axis.
LEMMA PushedPanel ==
  ASSUME NEW p \in Panels, OneAxis(p), p.first # 0, NEW s \in CurveSnapshots,
         s.message.metric \in {"Unknown", p.metric}
  PROVE  /\ Pushed(p, s) \in Panels /\ OneAxis(Pushed(p, s))
         /\ \A bound \in Nat : Within(p, bound) /\ s.message.stamp <= bound
                                 => Within(Pushed(p, s), bound)
<1>1. CASE s.message.stamp \in {0, p.stamp}
  BY <1>1 DEF Pushed
<1>2. CASE s.message.stamp \notin {0, p.stamp}
  <2> DEFINE new == [at |-> s.message.stamp, metric |-> s.message.metric,
                     elapsed |-> Later(s.message.stamp, p.first)]
             samples == Trimmed(p.samples \cup {new})
             n == Pushed(p, s)
  <2>1. s.message.stamp \in Nat /\ s.message.metric \in YawMetrics /\ p.first \in Nat
    BY DEF CurveSnapshots, CurveMessages, Panels
  <2>2. Later(s.message.stamp, p.first) \in Nat
    BY <2>1 DEF Later
  <2>3. samples \subseteq p.samples \cup {new}
    BY DEF Trimmed
  <2>4. new \in CurveSamples /\ p.samples \subseteq CurveSamples
    BY <2>1, <2>2 DEF CurveSamples, Panels
  <2>5. n = [p EXCEPT !.stamp = s.message.stamp, !.samples = samples]
    BY <1>2 DEF Pushed
  <2>6. new.at = s.message.stamp /\ new.metric = s.message.metric
        /\ new.elapsed = Later(new.at, p.first)
    OBVIOUS
  <2> HIDE DEF new, samples, n
  <2>7. n \in Panels /\ n.samples = samples /\ n.first = p.first /\ n.metric = p.metric
    BY <2>1, <2>3, <2>4, <2>5 DEF Panels
  <2>8. OneAxis(n)
    BY <2>3, <2>6, <2>7 DEF OneAxis
  <2>9. \A bound \in Nat : Within(p, bound) /\ s.message.stamp <= bound => Within(n, bound)
    BY <2>3, <2>6, <2>7 DEF Within
  <2>. QED BY <2>7, <2>8, <2>9 DEF n
<1>. QED BY <1>1, <1>2

\* A refresh keeps one axis and samples nothing later than the snapshot.
LEMMA UpdatedPanel ==
  ASSUME panel \in Panels, OneAxis(panel), NEW s \in CurveSnapshots, UpdatePanel(s)
  PROVE  /\ panel' \in Panels /\ OneAxis(panel')
         /\ s.source = "Ros2Bag" =>
              \A bound \in Nat :
                Within(panel, bound) /\ s.time <= bound /\ s.message.stamp <= bound
                  => Within(panel', bound)
<1> DEFINE fresh == NewMetric(NewSource(panel, s), s.message.metric)
<1>1. s.message.metric \in YawMetrics
  BY DEF CurveSnapshots, CurveMessages
<1>2. /\ fresh \in Panels /\ OneAxis(fresh) /\ s.message.metric \in {"Unknown", fresh.metric}
      /\ \A bound \in Nat : Within(panel, bound) => Within(fresh, bound)
  BY <1>1, NewSourcePanel, NewMetricPanel
<1>3. PICK first \in Origins(fresh, s) :
        \/ panel' = [fresh EXCEPT !.first = first]
        \/ /\ s.source = "Ros2Bag" => s.time # 0
           /\ panel' = Pushed([fresh EXCEPT !.first = first], s)
  BY DEF UpdatePanel
<1> HIDE DEF fresh
<1> DEFINE placed == [fresh EXCEPT !.first = first]
<1>4. /\ placed \in Panels /\ OneAxis(placed)
      /\ placed.metric = fresh.metric /\ placed.first = first
      /\ (s.source = "Ros2Bag" => s.time # 0) => first # 0
      /\ s.source = "Ros2Bag" =>
           \A bound \in Nat : Within(fresh, bound) /\ s.time <= bound => Within(placed, bound)
  <2>1. placed.metric = fresh.metric /\ placed.first = first
    BY <1>2 DEF Panels
  <2>. QED BY <1>2, <2>1, OriginPanel
<1> HIDE DEF placed
<1>5. CASE panel' = placed
  BY <1>2, <1>4, <1>5
<1>6. CASE (s.source = "Ros2Bag" => s.time # 0) /\ panel' = Pushed(placed, s)
  BY <1>2, <1>4, <1>6, PushedPanel
<1>. QED BY <1>3, <1>5, <1>6 DEF placed

LEMMA SignalsDiffer ==
  ASSUME NEW q \in Nat
  PROVE  /\ At(q) # <<"Stopped">> /\ At(q)[2] = q /\ At(q) \in CurveSignals
         /\ \A r \in Nat : At(q) = At(r) => q = r
<1>1. Len(At(q)) = 2 /\ Len(<<"Stopped">>) = 1
  BY DEF At
<1>2. At(q)[2] = q /\ \A r \in Nat : At(r)[2] = r
  BY DEF At
<1>3. At(q) \in CurveSignals
  BY DEF CurveSignals
<1>. QED BY <1>1, <1>2, <1>3

\* Signals of the worker are told after those that wait.
LEMMA EmitTold ==
  ASSUME signals \in Seq(CurveSignals), NEW list \in Seq(CurveSignals),
         signals' = signals \o list, lastPosition' = lastPosition
  PROVE  /\ signals' \in Seq(CurveSignals)
         /\ Told \subseteq Told'
         /\ \A q \in Nat : list = <<At(q)>> =>
              signals' # <<>> /\ signals'[Len(signals')] = At(q)
<1>1. /\ signals' \in Seq(CurveSignals)
      /\ Len(signals') = Len(signals) + Len(list) /\ Len(signals) \in Nat /\ Len(list) \in Nat
      /\ \A i \in 1 .. Len(signals) : signals'[i] = signals[i]
      /\ \A i \in 1 .. Len(list) : signals'[Len(signals) + i] = list[i]
  BY ConcatProperties, LenProperties
<1>2. Told \subseteq Told'
  BY <1>1 DEF Told
<1>3. ASSUME NEW q \in Nat, list = <<At(q)>>
      PROVE  signals' # <<>> /\ signals'[Len(signals')] = At(q)
  <2>1. Len(list) = 1 /\ list[1] = At(q)
    BY <1>3
  <2>. QED BY <1>1, <2>1
<1>. QED BY <1>1, <1>2, <1>3

\* The worker tells the window the place of what it writes.
LEMMA WriteKeeps ==
  ASSUME CurvesInv, lastPosition' = lastPosition, panel' = panel, worker' \in Workers,
         NEW list \in Seq(CurveSignals), signals' = signals \o list,
         NEW s \in CurveSnapshots, s.source = "Ros2Bag", Write(s),
         s.message.stamp <= s.time, s.time > 0 => list = <<At(s.time - 1)>>
  PROVE  CurvesInv'
<1>1. /\ signals' \in Seq(CurveSignals) /\ Told \subseteq Told'
      /\ \A q \in Nat : list = <<At(q)>> =>
              signals' # <<>> /\ signals'[Len(signals')] = At(q)
  BY EmitTold DEF CurvesInv, CurvesTypeOK
<1>2. CurvesTypeOK'
  BY <1>1 DEF CurvesInv, CurvesTypeOK, Write
<1>3. CASE snapshot.source = "Ros2Bag"
  <2>1. snapshot' = s
    BY <1>3 DEF Write
  <2>2. SnapshotTold'
    <3>1. s.time > 0 => s.time - 1 \in Nat
      BY DEF CurveSnapshots
    <3>. QED BY <1>1, <2>1, <3>1 DEF SnapshotTold
  <2>3. CurvesTold'
    BY <1>1, <1>3, <2>1 DEF CurvesInv, CurvesTold
  <2>. QED BY <1>2, <2>2, <2>3 DEF CurvesInv
<1>4. CASE snapshot.source # "Ros2Bag"
  BY <1>2, <1>4 DEF CurvesInv, SnapshotTold, CurvesTold, Write
<1>. QED BY <1>3, <1>4

LEMMA EmptyIsSnapshot ==
  ASSUME NEW kind \in Kinds
  PROVE  /\ Empty(kind) \in CurveSnapshots /\ Empty(kind).source = kind
         /\ Empty(kind).time = 0 /\ Empty(kind).message.stamp = 0
BY DEF Empty, CurveSnapshots, CurveMessages, NoMessage, YawMetrics

\* What the worker publishes has no message of a later place.
LEMMA PublishIsSnapshot ==
  ASSUME NEW place \in Nat, NEW number \in Nat, Publish(place, number)
  PROVE  \E s \in CurveSnapshots :
           /\ s.source = "Ros2Bag" /\ Write(s) /\ s.message.stamp <= s.time
           /\ s.time = 1 + place
<1>1. PICK message \in Messages(1 + place) :
        Write([source |-> "Ros2Bag", session |-> 1, sequence |-> number, time |-> 1 + place,
               message |-> message])
  BY DEF Publish
<1> DEFINE s == [source |-> "Ros2Bag", session |-> 1, sequence |-> number, time |-> 1 + place,
                 message |-> message]
<1>2. message \in CurveMessages /\ message.stamp <= 1 + place
  BY DEF Messages, NoMessage, CurveMessages, YawMetrics
<1>3. s \in CurveSnapshots
  BY <1>2 DEF CurveSnapshots, Kinds
<1>. QED BY <1>1, <1>2, <1>3

LEMMA WorkerKeeps == CurvesInv /\ WorkerStep => CurvesInv'
<1> SUFFICES ASSUME CurvesInv, WorkerStep PROVE CurvesInv'
  OBVIOUS
<1>0. /\ CurvesTypeOK /\ UNCHANGED <<lastPosition, panel>>
      /\ worker.position \in Nat /\ worker.sequence \in Nat
      /\ signals \in Seq(CurveSignals)
  BY DEF WorkerStep, CurvesInv, CurvesTypeOK, Workers
<1>e. /\ Empty("Ros2Bag") \in CurveSnapshots /\ Empty("Ros2Bag").source = "Ros2Bag"
      /\ Empty("Ros2Bag").message.stamp <= Empty("Ros2Bag").time
      /\ ~(Empty("Ros2Bag").time > 0)
  BY EmptyIsSnapshot DEF Kinds
<1>1. CASE Load
  <2>1. /\ Write(Empty("Ros2Bag")) /\ signals' = signals \o <<At(0)>>
        /\ worker' = [state |-> "Ready", position |-> 0, cursor |-> FALSE, seeking |-> FALSE,
                      sequence |-> 0]
    BY <1>1 DEF Load, Emit
  <2>2. <<At(0)>> \in Seq(CurveSignals)
    BY SignalsDiffer
  <2>3. worker' \in Workers
    BY <2>1 DEF Workers
  <2>. QED BY <1>0, <1>e, <2>1, <2>2, <2>3, WriteKeeps
<1>2. CASE Stop
  <2>1. /\ Write(Empty("Ros2Bag")) /\ signals' = signals \o <<At(0), <<"Stopped">>>>
        /\ worker' = [worker EXCEPT !.state = IF @ = "Empty" THEN @ ELSE "Stopped", !.position = 0,
                              !.cursor = FALSE, !.sequence = 0]
    BY <1>2 DEF Stop, Emit
  <2>2. worker' \in Workers
    BY <1>0, <2>1 DEF CurvesTypeOK, Workers
  <2>3. <<At(0), <<"Stopped">>>> \in Seq(CurveSignals)
    BY SignalsDiffer DEF CurveSignals
  <2>. QED BY <1>0, <1>e, <2>1, <2>2, <2>3, WriteKeeps
<1>3. CASE Play
  <2>1. worker' \in Workers
    BY <1>0, <1>3 DEF Play, CurvesTypeOK, Workers
  <2>2. CASE Write(Empty("Ros2Bag")) /\ UNCHANGED signals
    <3>1. signals' = signals \o <<>> /\ <<>> \in Seq(CurveSignals)
      BY <1>0, <2>2, ConcatEmptySeq, EmptySeq
    <3>. QED BY <1>0, <1>e, <2>1, <2>2, <3>1, WriteKeeps
  <2>3. CASE UNCHANGED <<snapshot, signals>>
    BY <1>0, <2>1, <2>3 DEF CurvesInv, CurvesTypeOK, SnapshotTold, CurvesTold, Told
  <2>. QED BY <1>3, <2>2, <2>3 DEF Play
<1>4. CASE TickOrPause
  <2>1. PICK place \in Advance, state \in {"Playing", "Paused", "Completed"} :
          /\ worker' = [worker EXCEPT !.position = place, !.sequence = @ + 1, !.state = state]
          /\ signals' = signals \o <<At(place)>> /\ Publish(place, worker.sequence + 1)
    BY <1>4 DEF TickOrPause, Emit
  <2>2. place \in Nat /\ worker.sequence + 1 \in Nat /\ worker' \in Workers
    <3>1. place \in Nat /\ worker.sequence + 1 \in Nat
      BY <1>0 DEF Advance
    <3>. QED BY <1>0, <2>1, <3>1 DEF CurvesTypeOK, Workers
  <2>3. PICK s \in CurveSnapshots :
          /\ s.source = "Ros2Bag" /\ Write(s) /\ s.message.stamp <= s.time
          /\ s.time = 1 + place
    BY <2>1, <2>2, PublishIsSnapshot
  <2>4. <<At(place)>> \in Seq(CurveSignals) /\ s.time - 1 = place
    BY <2>2, <2>3, SignalsDiffer
  <2>. QED BY <1>0, <2>1, <2>2, <2>3, <2>4, WriteKeeps
<1>5. CASE SeekReset
  <2>1. PICK place \in 0 .. LastTime - 1 :
          worker' = [worker EXCEPT !.position = place, !.seeking = TRUE, !.sequence = 0]
    BY <1>5 DEF SeekReset
  <2>2. place \in Nat
    BY CurvesConstants
  <2>3. worker' \in Workers
    BY <1>0, <2>1, <2>2 DEF CurvesTypeOK, Workers
  <2>4. signals' = signals \o <<>> /\ <<>> \in Seq(CurveSignals) /\ Write(Empty("Ros2Bag"))
    BY <1>0, <1>5, ConcatEmptySeq, EmptySeq DEF SeekReset
  <2>. QED BY <1>0, <1>e, <2>3, <2>4, WriteKeeps
<1>6. CASE SeekPublish
  <2>1. /\ Publish(worker.position, 1) /\ signals' = signals \o <<At(worker.position)>>
        /\ worker' = [worker EXCEPT !.seeking = FALSE, !.sequence = 1, !.cursor = TRUE]
    BY <1>6 DEF SeekPublish, Emit
  <2>2. worker' \in Workers
    BY <1>0, <2>1 DEF CurvesTypeOK, Workers
  <2>3. PICK s \in CurveSnapshots :
          /\ s.source = "Ros2Bag" /\ Write(s) /\ s.message.stamp <= s.time
          /\ s.time = 1 + worker.position
    BY <1>0, <2>1, PublishIsSnapshot
  <2>4. <<At(worker.position)>> \in Seq(CurveSignals) /\ s.time - 1 = worker.position
    BY <1>0, <2>3, SignalsDiffer
  <2>. QED BY <1>0, <2>1, <2>2, <2>3, <2>4, WriteKeeps
<1>. QED BY <1>1, <1>2, <1>3, <1>4, <1>5, <1>6 DEF WorkerStep

\* A place before the last one told makes the panel forget: what is kept
\* is within a place that is told still.
LEMMA SignalKeeps == CurvesInv /\ HandleSignal => CurvesInv'
<1> SUFFICES ASSUME CurvesInv, HandleSignal PROVE CurvesInv'
  OBVIOUS
<1> DEFINE head == Head(signals)
<1>1. /\ signals # <<>> /\ signals \in Seq(CurveSignals) /\ lastPosition \in Nat
      /\ panel \in Panels /\ OneAxis(panel) /\ CurvesTypeOK
      /\ signals' = Tail(signals) /\ UNCHANGED <<snapshot, worker>>
  BY DEF HandleSignal, CurvesInv, CurvesTypeOK
<1>2. /\ head = signals[1] /\ head \in CurveSignals
      /\ Len(signals) \in Nat \ {0} /\ Len(signals') = Len(signals) - 1
      /\ signals' \in Seq(CurveSignals)
      /\ \A i \in 1 .. Len(signals') : signals'[i] = signals[i + 1]
  BY <1>1
<1>3. /\ signals' = <<>> <=> Len(signals) = 1
      /\ signals' # <<>> => signals'[Len(signals')] = signals[Len(signals)]
  BY <1>1, <1>2
<1> HIDE DEF head
<1>4. CASE head = <<"Stopped">>
  <2>1. panel' = Forget(panel) /\ lastPosition' = lastPosition
    BY <1>1, <1>4 DEF HandleSignal, head
  <2>2. panel' \in Panels /\ OneAxis(panel') /\ Within(panel', 1 + lastPosition)
    BY <1>1, <2>1, ForgetPanel
  <2>3. CurvesTypeOK'
    BY <1>1, <1>2, <2>1, <2>2 DEF CurvesTypeOK
  <2>4. SnapshotTold'
    <3>1. ASSUME snapshot.source = "Ros2Bag", snapshot.time > 0 PROVE Len(signals) # 1
      <4>1. signals[Len(signals)] = At(snapshot.time - 1) /\ snapshot.time - 1 \in Nat
        BY <1>1, <3>1 DEF CurvesInv, SnapshotTold, CurvesTypeOK, CurveSnapshots
      <4>. QED BY <1>2, <1>4, <4>1, SignalsDiffer
    <3>. QED BY <1>1, <1>3, <3>1 DEF CurvesInv, SnapshotTold
  <2>5. CurvesTold'
    <3>1. lastPosition \in Told'
      BY <2>1 DEF Told
    <3>. QED BY <1>1, <2>2, <3>1 DEF CurvesInv, CurvesTold
  <2>. QED BY <2>2, <2>3, <2>4, <2>5 DEF CurvesInv
<1>5. ASSUME NEW q \in Nat, head = At(q) PROVE CurvesInv'
  <2>1. /\ lastPosition' = q
        /\ panel' = IF q < lastPosition THEN Forget(panel) ELSE panel
    BY <1>1, <1>5, SignalsDiffer DEF HandleSignal, HandlePosition, head
  <2>2. panel' \in Panels /\ OneAxis(panel')
    BY <1>1, <2>1, ForgetPanel
  <2>3. CurvesTypeOK'
    BY <1>1, <1>2, <2>1, <2>2 DEF CurvesTypeOK
  <2>4. SnapshotTold'
    <3>1. ASSUME snapshot.source = "Ros2Bag", snapshot.time > 0, Len(signals) = 1
          PROVE  snapshot.time = 1 + q
      <4>1. signals[1] = At(snapshot.time - 1) /\ snapshot.time - 1 \in Nat
        BY <1>1, <3>1 DEF CurvesInv, SnapshotTold, CurvesTypeOK, CurveSnapshots
      <4>2. snapshot.time - 1 = q
        BY <1>2, <1>5, <4>1, SignalsDiffer
      <4>3. snapshot.time \in Nat
        BY <1>1 DEF CurvesTypeOK, CurveSnapshots
      <4>. QED BY <4>2, <4>3
    <3>. QED BY <1>1, <1>3, <2>1, <3>1 DEF CurvesInv, SnapshotTold
  <2>5. CurvesTold'
    <3> SUFFICES ASSUME snapshot.source = "Ros2Bag" PROVE \E r \in Told' : Within(panel', 1 + r)
      BY <1>1 DEF CurvesInv, CurvesTold
    <3>1. q \in Told'
      BY <2>1 DEF Told
    <3>2. CASE q < lastPosition
      BY <1>1, <2>1, <3>1, <3>2, ForgetPanel
    <3>3. CASE ~(q < lastPosition)
      <4>1. PICK r \in Told : Within(panel, 1 + r)
        BY DEF CurvesInv, CurvesTold
      <4>2. panel' = panel /\ panel.first \in Nat /\ \A x \in panel.samples : x.at \in Nat
        BY <1>1, <2>1, <3>3 DEF Panels, CurveSamples
      <4>3. CASE r = lastPosition
        <5>1. Within(panel', 1 + q)
          BY <1>1, <3>3, <4>1, <4>2, <4>3 DEF Within
        <5>. QED BY <3>1, <5>1
      <4>4. ASSUME NEW i \in 1 .. Len(signals), signals[i] = At(r), r \in Nat
            PROVE  \E t \in Told' : Within(panel', 1 + t)
        <5>1. CASE i = 1
          BY <1>2, <1>5, <3>1, <4>1, <4>2, <4>4, <5>1, SignalsDiffer
        <5>2. CASE i # 1
          <6>1. i - 1 \in 1 .. Len(signals') /\ (i - 1) + 1 = i
            BY <1>2, <5>2
          <6>2. signals'[i - 1] = At(r)
            BY <1>2, <4>4, <6>1
          <6>3. r \in Told'
            BY <4>4, <6>1, <6>2 DEF Told
          <6>. QED BY <4>1, <4>2, <6>3
        <5>. QED BY <5>1, <5>2
      <4>. QED BY <4>3, <4>4 DEF Told
    <3>. QED BY <3>2, <3>3
  <2>. QED BY <2>2, <2>3, <2>4, <2>5 DEF CurvesInv
<1>. QED BY <1>2, <1>4, <1>5 DEF CurveSignals

\* A refresh samples a place that was told, or will be.
LEMMA RefreshKeeps == CurvesInv /\ Refresh => CurvesInv'
<1> SUFFICES ASSUME CurvesInv, Refresh PROVE CurvesInv'
  OBVIOUS
<1>1. /\ CurvesTypeOK /\ snapshot \in CurveSnapshots /\ panel \in Panels /\ OneAxis(panel)
      /\ UpdatePanel(snapshot) /\ UNCHANGED <<snapshot, worker, signals, lastPosition>>
  BY DEF Refresh, CurvesInv, CurvesTypeOK
<1>2. /\ panel' \in Panels /\ OneAxis(panel')
      /\ snapshot.source = "Ros2Bag" =>
              \A bound \in Nat :
                Within(panel, bound) /\ snapshot.time <= bound /\ snapshot.message.stamp <= bound
                  => Within(panel', bound)
  BY <1>1, UpdatedPanel
<1>3. CurvesTypeOK' /\ SnapshotTold'
  BY <1>1, <1>2 DEF CurvesTypeOK, CurvesInv, SnapshotTold
<1>4. CurvesTold'
  <2> SUFFICES ASSUME snapshot.source = "Ros2Bag" PROVE \E q \in Told : Within(panel', 1 + q)
    BY <1>1 DEF CurvesInv, CurvesTold, Told
  <2>1. PICK q \in Told : Within(panel, 1 + q)
    BY DEF CurvesInv, CurvesTold
  <2>2. /\ Told \subseteq Nat /\ snapshot.time \in Nat /\ snapshot.message.stamp \in Nat
        /\ snapshot.message.stamp <= snapshot.time
    BY <1>1 DEF Told, CurvesTypeOK, CurveSnapshots, CurveMessages, CurvesInv, CurvesTold
  <2>3. CASE snapshot.time <= 1 + q
    <3>1. 1 + q \in Nat /\ snapshot.message.stamp <= 1 + q
      BY <2>2, <2>3
    <3>. QED BY <1>2, <2>1, <2>3, <3>1
  <2>4. CASE ~(snapshot.time <= 1 + q)
    <3>1. snapshot.time > 0 /\ snapshot.time - 1 \in Nat /\ 1 + (snapshot.time - 1) = snapshot.time
      BY <2>2, <2>4
    <3>2. snapshot.time - 1 \in Told
      <4>1. CASE signals = <<>>
        BY <1>1, <3>1, <4>1 DEF CurvesInv, SnapshotTold, Told, CurvesTypeOK
      <4>2. CASE signals # <<>>
        <5>1. Len(signals) \in 1 .. Len(signals)
          BY <1>1, <4>2 DEF CurvesTypeOK
        <5>. QED BY <3>1, <4>2, <5>1 DEF CurvesInv, SnapshotTold, Told
      <4>. QED BY <4>1, <4>2
    <3>3. Within(panel, snapshot.time)
      <4>1. panel.first \in Nat /\ \A x \in panel.samples : x.at \in Nat
        BY <1>1 DEF Panels, CurveSamples
      <4>. QED BY <2>1, <2>2, <2>4, <4>1 DEF Within
    <3>4. Within(panel', snapshot.time)
      BY <1>2, <2>2, <3>3
    <3>. QED BY <3>1, <3>2, <3>4
  <2>. QED BY <2>3, <2>4
<1>. QED BY <1>2, <1>3, <1>4 DEF CurvesInv

LEMMA CurvesStep == CurvesInv /\ [CurvesNext]_curvesVars => CurvesInv'
<1> SUFFICES ASSUME CurvesInv, [CurvesNext]_curvesVars PROVE CurvesInv'
  OBVIOUS
<1>0. CurvesTypeOK /\ panel \in Panels /\ lastPosition \in Nat
  BY DEF CurvesInv, CurvesTypeOK
<1>1. /\ Forget(panel) \in Panels /\ OneAxis(Forget(panel))
      /\ \A q \in Nat : Within(Forget(panel), 1 + q)
  BY <1>0, ForgetPanel
<1>2. CASE LoadOrStart
  <2>1. /\ snapshot' = Empty("Ros2Bag") /\ panel' = Forget(panel) /\ lastPosition' = 0
        /\ UNCHANGED <<worker, signals>>
    BY <1>2 DEF LoadOrStart, NewSession
  <2>2. /\ Empty("Ros2Bag") \in CurveSnapshots
        /\ Empty("Ros2Bag").time = 0 /\ Empty("Ros2Bag").message.stamp = 0
    BY EmptyIsSnapshot DEF Kinds
  <2>3. 0 \in Told'
    BY <2>1 DEF Told
  <2>. QED BY <1>0, <1>1, <2>1, <2>2, <2>3 DEF CurvesInv, CurvesTypeOK, SnapshotTold, CurvesTold
<1>3. CASE OpenConnection
  <2>1. /\ snapshot' = Empty("Remote") /\ panel' = Forget(panel)
        /\ UNCHANGED <<worker, signals, lastPosition>>
    BY <1>3 DEF OpenConnection, NewSession
  <2>2. Empty("Remote") \in CurveSnapshots /\ Empty("Remote").source = "Remote"
    BY EmptyIsSnapshot DEF Kinds
  <2>. QED BY <1>0, <1>1, <2>1, <2>2 DEF CurvesInv, CurvesTypeOK, SnapshotTold, CurvesTold
<1>4. CASE ClearPanel
  <2>1. panel' = Forget(panel) /\ UNCHANGED <<snapshot, worker, signals, lastPosition>>
    BY <1>4 DEF ClearPanel
  <2>2. lastPosition \in Told'
    BY <2>1 DEF Told
  <2>. QED BY <1>0, <1>1, <2>1, <2>2 DEF CurvesInv, CurvesTypeOK, SnapshotTold, CurvesTold
<1>5. CASE RemotePublish \/ RemoteReset
  <2>1. snapshot' \in CurveSnapshots /\ snapshot'.source = "Remote"
    <3>1. CASE RemoteReset
      BY <3>1, EmptyIsSnapshot DEF RemoteReset, Kinds
    <3>2. CASE RemotePublish
      <4>1. PICK message \in Messages(LastTime), session \in Sessions, sequence \in 1 .. LastTime :
              snapshot' = [source |-> "Remote", session |-> session, sequence |-> sequence,
                           time |-> LastTime, message |-> message]
        BY <3>2 DEF RemotePublish
      <4>2. message \in CurveMessages
        BY CurvesConstants DEF Messages, NoMessage, CurveMessages, YawMetrics
      <4>3. session \in Nat /\ sequence \in Nat /\ LastTime \in Nat
        BY CurvesConstants
      <4>. QED BY <4>1, <4>2, <4>3 DEF CurveSnapshots, Kinds
    <3>. QED BY <1>5, <3>1, <3>2
  <2>2. UNCHANGED <<worker, signals, lastPosition, panel>>
    BY <1>5 DEF RemotePublish, RemoteReset
  <2>. QED BY <1>0, <2>1, <2>2 DEF CurvesInv, CurvesTypeOK, SnapshotTold, CurvesTold
<1>6. CASE UNCHANGED curvesVars
  BY <1>6 DEF curvesVars, CurvesInv, CurvesTypeOK, SnapshotTold, CurvesTold, Told
<1>. QED BY <1>2, <1>3, <1>4, <1>5, <1>6, WorkerKeeps, SignalKeeps, RefreshKeeps DEF CurvesNext

\* The inductive invariant of the control curves.
THEOREM CurvesCorrect == CurvesSpec => []CurvesInv
<1>1. CurvesInit => CurvesInv
  <2> SUFFICES ASSUME CurvesInit PROVE CurvesInv
    OBVIOUS
  <2>1. Empty("Remote") \in CurveSnapshots /\ Empty("Remote").source = "Remote"
    BY EmptyIsSnapshot DEF Kinds
  <2>2. panel \in Panels /\ OneAxis(panel)
    BY DEF CurvesInit, Panels, Kinds, YawMetrics, OneAxis
  <2>3. worker \in Workers
    BY DEF CurvesInit, Workers
  <2>4. signals \in Seq(CurveSignals)
    BY EmptySeq DEF CurvesInit
  <2>. QED BY <2>1, <2>2, <2>3, <2>4
           DEF CurvesInit, CurvesInv, CurvesTypeOK, SnapshotTold, CurvesTold
<1>. QED BY <1>1, CurvesStep, PTL DEF CurvesSpec

\* All samples are placed from one origin and are of one yaw quantity
\* (ControlPanelWidget::updateSnapshot).
THEOREM AxisCorrect == CurvesSpec => []CurvesOneAxis
<1>1. CurvesInv => CurvesOneAxis
  BY DEF CurvesInv, OneAxis, CurvesOneAxis
<1>. QED BY <1>1, CurvesCorrect, PTL

\* The curves forget what a seek left behind
\* (MainWindow, positionChanged).
THEOREM SeekForgotten == CurvesSpec => []CurvesAfterSeek
<1>1. CurvesInv => CurvesAfterSeek
  <2> SUFFICES ASSUME CurvesInv, snapshot.source = "Ros2Bag", snapshot.time > 0, signals = <<>>
               PROVE  Within(panel, snapshot.time)
    BY DEF CurvesAfterSeek, Within
  <2>1. Told = {lastPosition}
    BY DEF Told
  <2>. QED BY <2>1 DEF CurvesInv, SnapshotTold, CurvesTold
<1>. QED BY <1>1, CurvesCorrect, PTL
-----------------------------------------------------------------------------
(* The status panel.                                                       *)

SomeValue == (UNION {Values[t] : t \in Topics}) \cup {Absent}
PanelTypeOK ==
  /\ lead \in Int /\ wall \in Nat /\ position \in Nat \ {0}
  /\ source.kind \in {"Remote", "Ros2Bag"} /\ held.kind = source.kind
  /\ source \in [kind : {source.kind}, heard : Nat, last : [Topics -> Int],
                 value : [Topics -> SomeValue]]
  /\ held \in [kind : {source.kind}, time : Int, last : [Topics -> Int],
               value : [Topics -> SomeValue]]
\* The source removed only what had expired there.
RemovedLate ==
  \A t \in Topics :
    source.last[t] # 0 /\ source.value[t] = Absent => Now - source.last[t] > Timeout
\* A snapshot misses only what had expired when it was taken, and was not
\* taken later than now.
MissingLate ==
  \A t \in Topics : held.last[t] # 0 =>
    /\ held.value[t] = Absent => held.time - held.last[t] > Timeout
    /\ IF held.kind = "Ros2Bag" THEN held.time > 0 ELSE held.time <= wall + lead
PanelInv == PanelTypeOK /\ RemovedLate /\ MissingLate

LEMMA PanelConstants ==
  /\ Timeout \in Nat /\ Leads \subseteq Int
  /\ \A t \in Topics : \A value \in Values[t] : value # Absent /\ value \in SomeValue
  /\ Absent \in SomeValue
<1>1. /\ Timeout \in Nat /\ Leads \subseteq Int
      /\ \A t \in Topics : Absent \notin Values[t]
  BY PanelAssumption DEF PanelAssumption, Absent
<1>2. Absent \in SomeValue
  BY DEF SomeValue
<1>3. ASSUME NEW t \in Topics, NEW value \in Values[t] PROVE value \in SomeValue
  <2>1. Values[t] \in {Values[u] : u \in Topics}
    OBVIOUS
  <2>. QED BY <2>1 DEF SomeValue
<1>. QED BY <1>1, <1>2, <1>3

\* A source from which nothing was heard, and its empty snapshot.
LEMMA SilenceInv ==
  ASSUME NEW kind \in {"Remote", "Ros2Bag"}, source = SilentSource(kind),
         held = EmptySnapshot(kind), lead \in Int, wall \in Nat, position \in Nat \ {0}
  PROVE  PanelInv
<1>1. /\ Unheard \in [Topics -> Int] /\ \A t \in Topics : Unheard[t] = 0
      /\ NoValues \in [Topics -> SomeValue]
  BY PanelConstants DEF Unheard, NoValues
<1>. QED BY <1>1 DEF PanelInv, PanelTypeOK, RemovedLate, MissingLate, SilentSource, EmptySnapshot

LEMMA PanelStep == PanelInv /\ [PanelNext]_panelVars => PanelInv'
<1> SUFFICES ASSUME PanelInv, [PanelNext]_panelVars PROVE PanelInv'
  OBVIOUS
<1>0. /\ PanelTypeOK /\ Now \in Int
      /\ Timeout \in Nat
      /\ \A t \in Topics : source.last[t] \in Int /\ held.last[t] \in Int
  BY PanelConstants DEF PanelInv, PanelTypeOK, Now
<1>1. ASSUME NEW t \in Topics, Hear(t) PROVE PanelInv'
  <2>1. PICK value \in Values[t] :
          source' = [source EXCEPT !.heard = @ + 1, !.last = [@ EXCEPT ![t] = Now],
                                !.value = [@ EXCEPT ![t] = value]]
    BY <1>1 DEF Hear
  <2>2. value \in SomeValue /\ value # Absent
    BY PanelConstants
  <2>3. UNCHANGED <<lead, wall, position, held>>
    BY <1>1 DEF Hear
  <2>4. /\ source' \in [kind : {source.kind}, heard : Nat, last : [Topics -> Int],
                        value : [Topics -> SomeValue]]
        /\ source'.kind = source.kind
        /\ \A u \in Topics : /\ source'.last[u] = IF u = t THEN Now ELSE source.last[u]
                             /\ source'.value[u] = IF u = t THEN value ELSE source.value[u]
    <3>1. /\ source'.kind = source.kind /\ source'.heard = source.heard + 1
          /\ source'.last = [source.last EXCEPT ![t] = Now]
          /\ source'.value = [source.value EXCEPT ![t] = value]
      BY <1>0, <2>1 DEF PanelTypeOK
    <3>2. source'.last \in [Topics -> Int] /\ source'.value \in [Topics -> SomeValue]
      BY <1>0, <2>2, <3>1 DEF PanelTypeOK
    <3>3. \A u \in Topics : /\ source'.last[u] = IF u = t THEN Now ELSE source.last[u]
                           /\ source'.value[u] = IF u = t THEN value ELSE source.value[u]
      BY <1>0, <3>1 DEF PanelTypeOK
    <3> DEFINE last == [source.last EXCEPT ![t] = Now]
               values == [source.value EXCEPT ![t] = value]
    <3>4. source' = [source EXCEPT !.heard = source.heard + 1, !.last = last, !.value = values]
      BY <2>1
    <3> HIDE DEF last, values
    <3>5. source' = [kind |-> source.kind, heard |-> source.heard + 1, last |-> last,
                     value |-> values]
      BY <1>0, <3>4 DEF PanelTypeOK
    <3>6. source.heard + 1 \in Nat
      BY <1>0 DEF PanelTypeOK
    <3>. QED BY <3>1, <3>2, <3>3, <3>5, <3>6
  <2>5. Now' = Now
    BY <2>3, <2>4 DEF Now
  <2>6. PanelTypeOK'
    BY <1>0, <2>3, <2>4 DEF PanelTypeOK
  <2>7. RemovedLate'
    BY <2>2, <2>4, <2>5 DEF PanelInv, RemovedLate
  <2>8. MissingLate'
    BY <2>3 DEF PanelInv, MissingLate
  <2>. QED BY <2>6, <2>7, <2>8 DEF PanelInv
<1>2. CASE PublishTopics
  <2> DEFINE value == [t \in Topics |-> IF Expired(t) THEN Absent ELSE source.value[t]]
  <2>1. /\ source' = [source EXCEPT !.value = value]
        /\ held' = [kind |-> source.kind, time |-> Now, last |-> source.last, value |-> value]
        /\ UNCHANGED <<lead, wall, position>>
    BY <1>2 DEF PublishTopics
  <2>2. value \in [Topics -> SomeValue]
    BY <1>0, PanelConstants DEF PanelTypeOK
  <2>3. \A t \in Topics : source.last[t] # 0 /\ value[t] = Absent => Now - source.last[t] > Timeout
    BY DEF PanelInv, RemovedLate, Expired
  <2> HIDE DEF value
  <2>4. /\ source'.kind = source.kind /\ source'.last = source.last /\ source'.value = value
        /\ source' \in [kind : {source.kind}, heard : Nat, last : [Topics -> Int],
                        value : [Topics -> SomeValue]]
    BY <1>0, <2>1, <2>2 DEF PanelTypeOK
  <2>5. Now' = Now
    BY <2>1, <2>4 DEF Now
  <2>6. PanelTypeOK'
    BY <1>0, <2>1, <2>2, <2>4 DEF PanelTypeOK
  <2>7. RemovedLate'
    BY <2>3, <2>4, <2>5 DEF RemovedLate
  <2>8. MissingLate'
    <3>1. source.kind = "Ros2Bag" => Now > 0
      BY <1>0 DEF PanelTypeOK, Now
    <3>2. source.kind # "Ros2Bag" => Now <= wall + lead
      BY <1>0 DEF PanelTypeOK, Now
    <3>. QED BY <2>1, <2>3, <3>1, <3>2 DEF MissingLate
  <2>. QED BY <2>6, <2>7, <2>8 DEF PanelInv
<1>3. CASE TimePasses \/ PlayOn
  <2>1. UNCHANGED <<lead, source, held>> /\ wall' \in Nat /\ wall <= wall' /\ position' \in Nat \ {0}
    BY <1>0, <1>3 DEF TimePasses, PlayOn, PanelTypeOK
  <2>2. Now' \in Int /\ Now <= Now'
    BY <1>0, <1>3, <2>1 DEF Now, TimePasses, PlayOn, PanelTypeOK
  <2>3. PanelTypeOK'
    BY <1>0, <2>1 DEF PanelTypeOK
  <2>4. RemovedLate'
    BY <1>0, <2>1, <2>2 DEF PanelInv, RemovedLate
  <2>5. MissingLate'
    BY <1>0, <2>1 DEF PanelInv, MissingLate, PanelTypeOK
  <2>. QED BY <2>3, <2>4, <2>5 DEF PanelInv
<1>4. CASE ResetSnapshot
  <2>1. PICK kind \in {"Remote", "Ros2Bag"} : From(kind) /\ position' \in Nat \ {0}
    BY <1>0, <1>4 DEF ResetSnapshot, PanelTypeOK
  <2>2. source' = SilentSource(kind) /\ held' = EmptySnapshot(kind) /\ UNCHANGED <<lead, wall>>
    BY <2>1 DEF From
  <2>3. /\ Unheard \in [Topics -> Int] /\ \A t \in Topics : Unheard[t] = 0
        /\ NoValues \in [Topics -> SomeValue]
    BY PanelConstants DEF Unheard, NoValues
  <2>. QED BY <1>0, <2>1, <2>2, <2>3
           DEF PanelInv, PanelTypeOK, RemovedLate, MissingLate, SilentSource, EmptySnapshot
<1>5. CASE UNCHANGED panelVars
  BY <1>5 DEF panelVars, PanelInv, PanelTypeOK, RemovedLate, MissingLate, Now
<1>. QED BY <1>1, <1>2, <1>3, <1>4, <1>5 DEF PanelNext

\* The inductive invariant of the status panel: what a snapshot misses had
\* expired at its source, by the source's clock.
THEOREM PanelCorrect == PanelSpec => []PanelInv
<1>1. PanelInit => PanelInv
  BY SilenceInv, PanelConstants DEF PanelInit
<1>. QED BY <1>1, PanelStep, PTL DEF PanelSpec

\* A topic is called online exactly while it is fresh, and one that is online
\* has a value unless the server's clock is ahead (DataManager::getSnapshot).
THEOREM OnlineCorrect == PanelSpec => []OnlineIsFresh
<1>1. PanelInv => OnlineIsFresh
  <2> SUFFICES ASSUME PanelInv PROVE OnlineIsFresh
    OBVIOUS
  <2>0. /\ PanelTypeOK /\ Timeout \in Nat
        /\ \A t \in Topics : source.last[t] \in Int /\ held.last[t] \in Int
    BY PanelConstants DEF PanelInv, PanelTypeOK
  <2>1. ASSUME Delivered, NEW t \in Topics PROVE TopicText(t) = {"online"} <=> Fresh(t)
    <3>1. held.last[t] = source.last[t]
      BY <2>1 DEF Delivered
    <3>2. Reference = IF source.kind = "Remote" THEN wall ELSE position
      BY <2>0, <2>1 DEF Reference, Delivered, PanelTypeOK
    <3>3. TopicText(t) = {"online"} <=> held.last[t] # 0 /\ Reference - held.last[t] <= Timeout
      BY <2>0, <3>2 DEF TopicText, Heard, TimedOut, Age, Max0, PanelTypeOK
    <3>. QED BY <2>0, <3>1, <3>2, <3>3 DEF Fresh, Now, PanelTypeOK
  <2>2. ASSUME source.kind = "Ros2Bag" \/ lead <= 0, NEW t \in Topics
        PROVE  RowText(t) # {"no value"}
    <3>1. CASE Online(t) /\ ~Valid(t)
      <4>1. /\ held.last[t] # 0 /\ held.value[t] = Absent
            /\ Reference - held.last[t] <= Timeout
        BY <2>0, <3>1 DEF Online, Valid, Heard, TimedOut, Age, Max0, PanelTypeOK, Reference
      <4>2. /\ held.time - held.last[t] > Timeout
            /\ IF held.kind = "Ros2Bag" THEN held.time > 0 ELSE held.time <= wall + lead
        BY <4>1 DEF PanelInv, MissingLate
      <4>3. held.time <= Reference
        BY <2>0, <2>2, <4>2 DEF Reference, PanelTypeOK
      <4>4. held.time \in Int /\ Reference \in Int
        BY <2>0 DEF Reference, PanelTypeOK
      <4>5. held.last[t] \in Int /\ Timeout \in Nat
        BY <2>0
      <4>6. held.time - held.last[t] <= Reference - held.last[t]
        BY <4>3, <4>4, <4>5
      <4>7. FALSE
        BY <4>1, <4>2, <4>4, <4>5, <4>6
      <4>. QED BY <4>7
    <3>2. CASE ~(Online(t) /\ ~Valid(t))
      BY <3>2 DEF RowText
    <3>. QED BY <3>1, <3>2
  <2>. QED BY <2>1, <2>2 DEF OnlineIsFresh
<1>. QED BY <1>1, PanelCorrect, PTL

\* Only the last alarm, that of no trouble, has words that are painted green.
LEMMA OneGreenAlarm ==
  ASSUME Green("state")
  PROVE  \A i \in 1 .. 10 : ~Alarms[i].of
<1> DEFINE alarms == Alarms
           first == CHOOSE i \in DOMAIN alarms : alarms[i].of /\ \A j \in 1 .. i - 1 : ~alarms[j].of
<1>1. DOMAIN alarms = 1 .. 11 /\ alarms[11].of
  BY DEF Alarms
<1>2. \A i \in 1 .. 10 : Badge(alarms[i].words) # "normal"
  <2>1. /\ alarms[1].words = {"waiting"} /\ alarms[2].words = {"timeout"}
        /\ alarms[3].words = {"stop"} /\ alarms[4].words = {"ascent", "running"}
        /\ alarms[5].words = {"ascent"} /\ alarms[6].words = {"timeout"}
        /\ alarms[7].words = {"timeout"} /\ alarms[8].words = {"aborted"}
        /\ alarms[9].words = {"timeout"} /\ alarms[10].words = {"fault"}
    BY DEF Alarms
  <2> HIDE DEF alarms
  <2>2. \A word \in {"timeout", "stop", "ascent", "aborted", "fault"} :
          Badge({word}) = "warn"
    BY DEF Badge
  <2>3. Badge({"ascent", "running"}) = "warn" /\ Badge({"waiting"}) = "offline"
    BY DEF Badge
  <2>4. ASSUME NEW i \in 1 .. 10 PROVE Badge(alarms[i].words) \in {"warn", "offline"}
    <3>1. i \in {1, 2, 3, 4, 5, 6, 7, 8, 9, 10}
      OBVIOUS
    <3>. QED BY <2>1, <2>2, <2>3, <3>1
  <2>. QED BY <2>4
<1>3. \E i \in 1 .. 11 : alarms[i].of /\ \A j \in 1 .. i - 1 : ~alarms[j].of
  <2> HIDE DEF alarms
  <2>. QED BY <1>1
<1>4. first \in 1 .. 11 /\ \A j \in 1 .. first - 1 : ~alarms[j].of
  BY <1>1, <1>3
<1> HIDE DEF first
<1>5. Badge(alarms[first].words) = "normal"
  BY DEF first, Green, Overview, StateText
<1>6. first = 11
  BY <1>2, <1>4, <1>5
<1>. QED BY <1>4, <1>6

LEMMA FaultsFinite == Cardinality(Faults) \in Nat /\ (Cardinality(Faults) = 0 <=> Faults = {})
<1>1. Faults \subseteq FaultFlags
  BY DEF Faults
<1>2. IsFiniteSet(FaultFlags)
  <2>1. /\ IsFiniteSet({"thruster", "controller"}) /\ IsFiniteSet({"motor", "bms"})
        /\ IsFiniteSet({"warning", "tank"})
    <3>1. ASSUME NEW x, NEW y PROVE IsFiniteSet({x, y})
      <4>1. IsFiniteSet({x} \cup {y})
        BY FS_Singleton, FS_Union
      <4>2. {x, y} = {x} \cup {y}
        OBVIOUS
      <4>. QED BY <4>1, <4>2
    <3>. QED BY <3>1
  <2>2. FaultFlags = ({"thruster", "controller"} \cup {"motor", "bms"}) \cup {"warning", "tank"}
    BY DEF FaultFlags
  <2>. QED BY <2>1, <2>2, FS_Union
<1>. QED BY <1>1, <1>2, FS_Subset, FS_CardinalityType, FS_EmptySet

\* A fault is found by its words.
LEMMA FaultsBadge ==
  /\ FaultCount = 0 <=> Faults = {}
  /\ Badge(FaultsText) = "warn" <=> Faults # {}
<1>3. FaultCount = 0 <=> Faults = {}
  BY FaultsFinite DEF FaultCount
<1>4. CASE Faults = {}
  <2>1. FaultsText \in {{"--"}, {"fault", "no fault"}}
    BY <1>4 DEF FaultsText
  <2>2. Badge({"--"}) # "warn" /\ Badge({"fault", "no fault"}) # "warn"
    BY DEF Badge
  <2>. QED BY <1>3, <1>4, <2>1, <2>2
<1>5. CASE Faults # {}
  <2>1. Valid("chassis")
    BY <1>5 DEF Faults
  <2>2. FaultsText = {IF f = "warning" THEN "warning" ELSE "fault" : f \in Faults}
    BY <1>5, <2>1 DEF FaultsText
  <2>3. FaultsText # {} /\ FaultsText \subseteq {"warning", "fault"}
    BY <1>5, <2>2
  <2>4. "warning" \in FaultsText \/ ("fault" \in FaultsText /\ "no fault" \notin FaultsText)
    BY <2>3
  <2>5. Badge(FaultsText) = "warn"
    BY <2>4 DEF Badge
  <2>. QED BY <1>3, <1>5, <2>5
<1>. QED BY <1>4, <1>5, <1>3

\* A badge is green, or warns, exactly for what the code's texts stand for
\* (overviewBadgeObjectName), whatever the topics report and however late.
THEOREM GreenCorrect == PanelSpec => []GreenMeansWell
<1>1. GreenMeansWell
  <2>1. ASSUME Green("state")
        PROVE  /\ Online("location") /\ ~Late("chassis") /\ Faults = {}
               /\ ~Reported("task", "stop") /\ ~Reported("action", "aborted")
               /\ ~Reported("chassis", "ascending") /\ ~AscentAsked
               /\ Reported("action", "enabled") => ~Late("command")
               /\ Crawling => ~Late("targets")
    <3>1. \A i \in 1 .. 10 : ~Alarms[i].of
      BY <2>1, OneGreenAlarm
    <3>2. /\ Alarms[1].of = ~Heard("location") /\ Alarms[2].of = TimedOut("location")
          /\ Alarms[3].of = Reported("task", "stop")
          /\ Alarms[4].of = Reported("chassis", "ascending")
          /\ Alarms[5].of = AscentAsked /\ Alarms[6].of = Late("chassis")
          /\ Alarms[7].of = (Late("command") /\ Reported("action", "enabled"))
          /\ Alarms[8].of = Reported("action", "aborted")
          /\ Alarms[9].of = (Crawling /\ Late("targets")) /\ Alarms[10].of = (FaultCount > 0)
      BY DEF Alarms
    <3>3. /\ Heard("location") /\ ~TimedOut("location") /\ ~Reported("task", "stop")
          /\ ~Reported("chassis", "ascending") /\ ~AscentAsked /\ ~Late("chassis")
          /\ ~(Late("command") /\ Reported("action", "enabled"))
          /\ ~Reported("action", "aborted") /\ ~(Crawling /\ Late("targets"))
          /\ ~(FaultCount > 0)
      <4>1. {1, 2, 3, 4, 5, 6, 7, 8, 9, 10} \subseteq 1 .. 10
        OBVIOUS
      <4>. QED BY <3>1, <3>2, <4>1
    <3>4. FaultCount \in Nat
      BY FaultsFinite DEF FaultCount
    <3>. QED BY <3>3, <3>4, FaultsBadge DEF Online
  <2>2. Green("feedback") => Online("chassis") /\ Faults = {}
    <3>1. Badge({"waiting"}) # "normal" /\ Badge({"timeout"}) # "normal"
          /\ Badge({"online", "fault"}) # "normal"
      BY DEF Badge
    <3>. QED BY <3>1, FaultsBadge DEF Green, Overview, HealthText, Online
  <2>3. \A t \in {"command", "targets"} : Green(t) => Online(t) /\ ~Reported(t, "rejected")
    <3>1. /\ Badge({"waiting"}) # "normal" /\ Badge({"timeout"}) # "normal"
          /\ Badge({"mode"}) # "normal" /\ Badge({"rejected"}) # "normal"
      BY DEF Badge
    <3>2. \A t : TopicText(t) \in {{"waiting"}, {"timeout"}} \/ Online(t)
      BY DEF TopicText, Online
    <3>. QED BY <3>1, <3>2 DEF Green, Overview, Reported
  <2>4. Badge(Overview("faults")) = "warn" <=> Faults # {}
    BY FaultsBadge DEF Overview
  <2>5. Badge(Overview("ascent")) = "warn" <=> AscentAsked
    <3>1. /\ Badge({"--"}) # "warn" /\ Badge({"no request", "running"}) # "warn"
          /\ Badge({"no request", "not running"}) # "warn"
          /\ Badge({"ascent", "running"}) = "warn" /\ Badge({"ascent", "not running"}) = "warn"
      BY DEF Badge
    <3>2. AscentAsked => Valid("command") \/ Valid("action")
      BY DEF AscentAsked, Reported
    <3>3. AscentText = IF ~ \E t \in {"command", "action", "chassis"} : Valid(t) THEN {"--"}
                       ELSE {IF AscentAsked THEN "ascent" ELSE "no request",
                             IF Reported("chassis", "ascending") THEN "running" ELSE "not running"}
      BY DEF AscentText
    <3>. QED BY <3>1, <3>2, <3>3 DEF Overview
  <2>. QED BY <2>1, <2>2, <2>3, <2>4, <2>5 DEF GreenMeansWell
<1>. QED BY <1>1, PTL
=============================================================================
