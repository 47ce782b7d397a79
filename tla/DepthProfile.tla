---------------------------- MODULE DepthProfile ----------------------------
(***************************************************************************)
(* The depth profile: the samples SceneManager keeps of one vertical       *)
(* action while it draws snapshot after snapshot.  Which snapshots are     *)
(* drawn is left open: a refresh may miss some, a bag is drawn at most     *)
(* every 100 ms, and a seek makes time go back.                            *)
(*                                                                         *)
(* Time counts ticks of 100 ms, the sampling interval.  Depth and height   *)
(* are left out but for their targets, of which 0 stands for none; so are  *)
(* the places of the marks of an emergency stop.                           *)
(***************************************************************************)
EXTENDS RunMode, Sequences

CONSTANTS Reports,     \* [action, task, planned, command, started] of a snapshot
          MaxTime,     \* bound: last tick
          MaxSamples   \* kMaxVerticalSegmentSamples

\* What a vertical action is led by.
Quantities == {"depth", "height"}
NoTargets == [quantity \in Quantities |-> 0]

ASSUME ProfileAssumption ==
  /\ MaxTime \in Nat \ {0} /\ MaxSamples \in Nat \ {0}
  /\ \A report \in Reports :
       /\ report.started \in Nat
       /\ report.task.valid \in BOOLEAN /\ report.task.emergencyStop \in BOOLEAN
       /\ report.command \in [Quantities -> Nat]
       /\ report.planned \in [Quantities -> Nat \ {0}]

VARIABLES
  drawn,       \* SceneManager::m_snapshot: its report and time
  profile,     \* SceneManager::m_verticalSegment
  previousMode \* SceneManager::m_previousRunMode

profileVars == <<drawn, profile, previousMode>>

NoReport == [action |-> NoAction, task |-> NoTask, command |-> NoTargets,
             planned |-> [quantity \in Quantities |-> 1], started |-> 0]
NoProfile == [active |-> FALSE, frozen |-> FALSE, anchor |-> 0, pre |-> 0, task |-> 0,
              mode |-> 0, goal |-> 0, targets |-> NoTargets, samples |-> <<>>]
ModeOf(s) == Mode(s.report.action, s.report.task)
Stopped(s) == s.report.task.valid /\ s.report.task.emergencyStop
\* The targets of the command, else those of the action, if there is one.
Targets(s) ==
  [quantity \in Quantities |->
     IF s.report.command[quantity] # 0 THEN s.report.command[quantity]
     ELSE IF s.report.action.valid THEN s.report.planned[quantity] ELSE 0]
Max(a, b) == IF a > b THEN a ELSE b
-----------------------------------------------------------------------------
\* Mutant: an action that follows another is not told from it.
ShouldStartAnyGoal(p, s) ==
  /\ ModeOf(s) = "VerticalMotion"
  /\ \/ ~p.active \/ p.frozen
     \/ previousMode # "VerticalMotion"
     \/ s.report.task.valid /\ s.report.task.task # p.task
     \/ 0 \notin {p.mode, s.report.action.chassisMode} /\ s.report.action.chassisMode # p.mode
ShouldStart(p, s) ==
  /\ ModeOf(s) = "VerticalMotion"
  /\ \/ ~p.active \/ p.frozen
     \/ previousMode # "VerticalMotion"
     \/ s.report.task.valid /\ s.report.task.task # p.task
     \/ 0 \notin {p.goal, s.report.action.goal} /\ s.report.action.goal # p.goal
     \/ 0 \notin {p.mode, s.report.action.chassisMode} /\ s.report.action.chassisMode # p.mode
Start(s) ==
  LET action == s.report.action IN
  [active |-> TRUE, frozen |-> FALSE, anchor |-> s.time,
   pre |-> IF s.report.started = 0 THEN 0 ELSE Max(0, s.time - s.report.started),
   task |-> s.report.task.task, mode |-> action.chassisMode, goal |-> action.goal,
   targets |-> Targets(s), samples |-> <<>>]
Elapsed(p, s) == p.pre + Max(0, s.time - p.anchor)
\* Mutant: samples are told apart by their time alone.
SkippedByTime(p, s) ==
  p.samples # <<>> /\ Elapsed(p, s) - p.samples[Len(p.samples)].elapsed < 1
\* targetChanged: a target that is there and is not the last sample's.
NewTarget(s, last) ==
  \E quantity \in Quantities : Targets(s)[quantity] \notin {0, last.targets[quantity]}
Skipped(p, s) ==
  /\ p.samples # <<>>
  /\ LET last == p.samples[Len(p.samples)]
     IN  /\ Elapsed(p, s) - last.elapsed < 1
         /\ ~NewTarget(s, last) /\ (Stopped(s) => last.stopped)
Sampled(p, s) ==
  LET taken == Append(p.samples, [elapsed |-> Elapsed(p, s), targets |-> Targets(s),
                                  stopped |-> Stopped(s), goal |-> s.report.action.goal])
  IN  [p EXCEPT !.targets = Targets(s),
                !.mode = IF s.report.action.valid THEN s.report.action.chassisMode ELSE @,
                !.samples = IF Skipped(p, s) THEN @
                            ELSE SubSeq(taken, Max(1, Len(taken) - MaxSamples + 1), Len(taken))]
Freeze(p) == [p EXCEPT !.active = FALSE, !.frozen = TRUE]
Updated(s) ==
  LET p == IF ShouldStart(profile, s) THEN Start(s) ELSE profile
  IN  CASE ~p.active -> p
        [] p.active /\ (ModeOf(s) = "VerticalMotion" \/ Stopped(s)) -> Sampled(p, s)
        [] OTHER -> Freeze(p)

UpdateScene ==
  \E report \in Reports, time \in 1 .. MaxTime :
    /\ drawn' = [report |-> report, time |-> time]
    /\ profile' = Updated(drawn') /\ previousMode' = ModeOf(drawn')
ResetPlaybackSession ==
  /\ drawn' = [report |-> NoReport, time |-> 0]
  /\ profile' = NoProfile /\ previousMode' = "Unknown"

ProfileInit ==
  /\ drawn = [report |-> NoReport, time |-> 0]
  /\ profile = NoProfile /\ previousMode = "Unknown"
ProfileNext == UpdateScene \/ ResetPlaybackSession
ProfileSpec == ProfileInit /\ [][ProfileNext]_profileVars
-----------------------------------------------------------------------------
(* Properties                                                              *)
\* A profile shows one action: what was sampled under another action began a
\* profile of its own, whatever frames of a bag were not drawn.  The samples
\* of an emergency stop belong to the profile they interrupt.
ProfileOneAction ==
  \A i \in DOMAIN profile.samples :
    LET sample == profile.samples[i]
    IN  profile.goal # 0 /\ ~sample.stopped => sample.goal \in {0, profile.goal}

\* However close the snapshots come, and after a seek that turned time back,
\* a new target and the beginning of an emergency stop are sampled at once; a
\* target that is lost, as soon as a sample is due on the profile's own clock.
NothingMissed ==
  profile.active =>
    /\ profile.samples # <<>>
    /\ LET last == profile.samples[Len(profile.samples)]
       IN  /\ ~NewTarget(drawn, last) /\ (Stopped(drawn) => last.stopped)
           /\ Targets(drawn) # last.targets => Elapsed(profile, drawn) - last.elapsed < 1

\* Only an action that is known not to be executed any more ends a profile, not
\* the health timeout of its topic, after which snapshots are without one (the
\* comment at SceneManager.cpp:463).  Fails: the mode is then unknown.
TimeoutKeepsProfile ==
  [][profile.active /\ ~drawn'.report.action.valid => ~profile'.frozen]_profileVars
=============================================================================
