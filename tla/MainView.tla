------------------------------ MODULE MainView ------------------------------
(***************************************************************************)
(* The main view of the client: MainWindow chooses between the plan view   *)
(* (TopDownXY) and the depth profile (VerticalProfile), SceneManager draws *)
(* it and moves the viewport, VisualizationView carries the viewport and   *)
(* the user's zooming and panning.  All of it runs in the GUI thread; a    *)
(* timer calls refreshVisualization every 50 ms.  Only `snapshot', which   *)
(* DataManager hands out under its lock, is written by others.             *)
(*                                                                         *)
(* Clocks are ages that stop counting where the code stops looking at      *)
(* them.  The viewport is the scene rectangle last fitted or centred, the  *)
(* user's own, or the origin.                                              *)
(***************************************************************************)
EXTENDS RunMode

CONSTANTS Reports,       \* [action, task] pairs a snapshot may carry
          Contents,      \* [vehicle, path] pairs: 0 or a position; drawn or not
          Debounce,      \* kMainViewAutoSwitchDebounceMs, in ticks
          SceneInterval  \* at most one bag scene per 100 ms, in ticks

ASSUME ViewAssumption ==
  /\ Debounce \in Nat \ {0} /\ SceneInterval \in Nat
  /\ Contents \subseteq [vehicle : Nat, path : BOOLEAN]

VARIABLES
  snapshot,  \* DataManager::m_snapshot: source, run mode, contents
  requested, \* m_requestedMainViewMode
  effective, \* m_effectiveMainViewMode
  pending,   \* m_pendingAutoMainViewMode
  since,     \* age of m_pendingAutoMainViewModeSinceMs plus one; 0: not set
  sceneAge,  \* age of m_lastPlaybackSceneRefreshMs
  display,   \* SceneManager and VisualizationView
  dived      \* ticks since a refresh saw a vertical motion; Debounce after a
             \* choice of the user or a new session (observed)

vars == <<snapshot, requested, effective, pending, since, sceneAge, display, dived>>
choice == <<requested, effective, pending, since>>

Sources == {"Remote", "Ros2Bag"}
Views == {"TopDownXY", "VerticalProfile"}
Blank == [vehicle |-> 0, path |-> FALSE]
Origin == <<"origin">>
NoRegion == <<"none">>
-----------------------------------------------------------------------------
(* SceneManager and VisualizationView                                      *)
\* The origin's marker does not count as content.
Visible(d) == {x \in {"vehicle", "path"} :
                 IF x = "vehicle" THEN d.showVehicle /\ d.content.vehicle # 0 ELSE d.content.path}
Fitted(d) == <<"fitted", Visible(d), IF "vehicle" \in Visible(d) THEN d.content.vehicle ELSE 0>>
Vehicle(d) == <<"vehicle", d.content.vehicle>>

FitToRegion(d, region) ==
  [d EXCEPT !.lastFit = region, !.viewport = IF d.autoFit THEN region ELSE @]
AutoFitAndCenter(d) ==
  LET follows == d.centered /\ "vehicle" \in Visible(d)
  IN  CASE Visible(d) = {} -> d
        [] Visible(d) # {} /\ follows ->
             [FitToRegion(d, Vehicle(d)) EXCEPT !.fit = NoRegion, !.viewport = Vehicle(d)]
        [] Visible(d) # {} /\ ~follows ->
             IF d.autoFit /\ d.fit # Fitted(d)
             THEN [FitToRegion(d, Fitted(d)) EXCEPT !.fit = Fitted(d)] ELSE d
Redraw(d) == IF d.mode = "TopDownXY" THEN AutoFitAndCenter(d) ELSE d
ResetView(d) == [d EXCEPT !.autoFit = TRUE, !.viewport = Origin]
SetMainViewMode(d, mode) ==
  IF d.mode = mode THEN d ELSE Redraw(ResetView([d EXCEPT !.mode = mode]))
UpdateScene(d, content) == Redraw([d EXCEPT !.content = content])
SetVehicleCentered(d, on) ==
  IF d.centered = on THEN d ELSE Redraw([d EXCEPT !.centered = on, !.fit = NoRegion])
RefitVisibleData(d) == Redraw([ResetView(d) EXCEPT !.fit = NoRegion])
ResetPlaybackSession(d) == Redraw([d EXCEPT !.content = Blank, !.fit = NoRegion])
\* Mutant: the view follows the vehicle on.
NavigatedStillCentered(d) == [d EXCEPT !.autoFit = FALSE, !.viewport = <<"user">>]
\* Mutant: only the following of the vehicle ends.
NavigatedStillFitting(d) == [SetVehicleCentered(d, FALSE) EXCEPT !.viewport = <<"user">>]
Navigated(d) == \* wheelEvent, mousePressEvent; manualNavigationStarted
  [SetVehicleCentered([d EXCEPT !.autoFit = FALSE], FALSE) EXCEPT !.viewport = <<"user">>]
Resized(d) == IF d.autoFit /\ d.lastFit # NoRegion THEN FitToRegion(d, d.lastFit) ELSE d
-----------------------------------------------------------------------------
(* MainWindow: which view                                                  *)
Min(a, b) == IF a < b THEN a ELSE b
Wanted == Candidate(snapshot.runMode)

Keep == UNCHANGED choice
\* Mutant: what was pending stays pending.
SettledStillPending == UNCHANGED choice
Settled == since' = 0 /\ UNCHANGED <<requested, effective, pending>>
\* Mutant: a profile, too, waits for the debounce.
FirstSeenWaits == since' = 1 /\ pending' = Wanted /\ UNCHANGED <<requested, effective>>
FirstSeen ==
  /\ pending' = Wanted
  /\ IF Wanted = "VerticalProfile" THEN effective' = Wanted /\ since' = 0
     ELSE since' = 1 /\ UNCHANGED effective
  /\ UNCHANGED requested
Switch == effective' = Wanted /\ since' = 0 /\ UNCHANGED <<requested, pending>>
\* Mutant: every refresh starts the wait anew.
AutoModeRestarts ==
  CASE Wanted = "none" -> Keep [] Wanted = effective -> Settled [] OTHER -> FirstSeen
AutoMode ==
  CASE Wanted = "none" -> Keep
    [] Wanted = effective -> Settled
    [] Wanted \notin {"none", effective} /\ (since = 0 \/ pending # Wanted) -> FirstSeen
    [] OTHER -> IF since > Debounce THEN Switch ELSE Keep
UpdateMainViewMode ==
  IF requested = "Auto" THEN AutoMode
  ELSE effective' = requested /\ UNCHANGED <<requested, pending, since>>

RefreshVisualization ==
  LET drawn == snapshot.source = "Remote" \/ sceneAge >= SceneInterval
      chosen == SetMainViewMode(display, effective')
  IN  /\ UpdateMainViewMode
      /\ display' = IF drawn THEN UpdateScene(chosen, snapshot.content) ELSE chosen
      /\ sceneAge' = IF drawn /\ snapshot.source = "Ros2Bag" THEN 0 ELSE sceneAge
      /\ dived' = IF snapshot.runMode = "VerticalMotion" THEN 0 ELSE dived
      /\ UNCHANGED snapshot

SetRequestedMainViewMode ==
  \E mode \in Views \cup {"Auto"} :
    LET view == IF mode # "Auto" THEN mode ELSE IF Wanted # "none" THEN Wanted ELSE effective
    IN  /\ requested' = mode /\ effective' = view /\ since' = 0
        /\ pending' = IF mode = "Auto" /\ Wanted # "none" THEN Wanted ELSE pending
        /\ display' = IF mode = "Auto" /\ Wanted = "none" THEN display
                      ELSE SetMainViewMode(display, view)
        /\ dived' = Debounce /\ UNCHANGED <<snapshot, sceneAge>>

OnDisplay(new) == display' = new /\ UNCHANGED <<snapshot, choice, sceneAge, dived>>
Navigate == OnDisplay(Navigated(display))
Resize == OnDisplay(Resized(display))
Refit == OnDisplay(RefitVisibleData(display))
SetCentered == \E on \in BOOLEAN : OnDisplay(SetVehicleCentered(display, on))
SetLayerVisibility ==
  \E on \in BOOLEAN : OnDisplay(Redraw([display EXCEPT !.showVehicle = on]))

\* activatePlayback, and the part of openConnectionDialog that is its like.
NewSession(source) ==
  LET cleared == ResetPlaybackSession(display) IN
  /\ snapshot' = [source |-> source, runMode |-> "Unknown", content |-> Blank]
  /\ since' = 0
  /\ sceneAge' = IF source = "Ros2Bag" THEN SceneInterval ELSE sceneAge
  /\ IF requested = "Auto"
     THEN /\ effective' = "TopDownXY" /\ pending' = "TopDownXY"
          /\ display' = SetMainViewMode(cleared, "TopDownXY")
     ELSE display' = cleared /\ UNCHANGED <<effective, pending>>
  /\ dived' = Debounce /\ UNCHANGED requested
ActivatePlayback == NewSession("Ros2Bag")
OpenConnection == NewSession("Remote")
\* A position before the last one: the next refresh draws the scene.
PositionBack ==
  /\ snapshot.source = "Ros2Bag" /\ sceneAge' = SceneInterval
  /\ UNCHANGED <<snapshot, choice, display, dived>>
-----------------------------------------------------------------------------
(* Surroundings                                                            *)
Replaced == \* replaceVisualizationSnapshot, by the worker or the remote source
  /\ \E report \in Reports, content \in Contents :
       snapshot' = [snapshot EXCEPT !.runMode = Mode(report.action, report.task),
                                    !.content = content]
  /\ UNCHANGED <<choice, sceneAge, display, dived>>
Tick ==
  /\ since' = IF since = 0 THEN 0 ELSE Min(since + 1, Debounce + 1)
  /\ sceneAge' = Min(sceneAge + 1, SceneInterval)
  /\ dived' = Min(dived + 1, Debounce)
  /\ UNCHANGED <<snapshot, requested, effective, pending, display>>

Init ==
  /\ snapshot = [source |-> "Remote", runMode |-> "Unknown", content |-> Blank]
  /\ requested = "Auto" /\ effective = "TopDownXY" /\ pending = "TopDownXY"
  /\ since = 0 /\ sceneAge = SceneInterval /\ dived = Debounce
  /\ display \in [mode : {"TopDownXY"}, content : {Blank}, showVehicle : BOOLEAN,
                  centered : BOOLEAN, fit : {NoRegion}, autoFit : {TRUE},
                  viewport : {Origin}, lastFit : {NoRegion}]
Next == RefreshVisualization \/ SetRequestedMainViewMode \/ Navigate \/ Resize \/ Refit
        \/ SetCentered \/ SetLayerVisibility \/ ActivatePlayback \/ OpenConnection
        \/ PositionBack \/ Replaced \/ Tick
Spec == Init /\ [][Next]_vars
\* The refresh timer never stops, and time passes.
FairSpec == Spec /\ WF_vars(RefreshVisualization) /\ WF_vars(Tick)
-----------------------------------------------------------------------------
(* Properties                                                              *)
\* Whatever the user, the sessions and the refreshes did before, the scene
\* draws the view that was chosen, and a view that the user asked for stays.
SceneShowsChoice ==
  display.mode = effective /\ (requested # "Auto" => effective = requested)

\* The comment in updateMainViewMode: the first frame of a vertical action is
\* shown at once.  A wait that is running is always one for the plan view.
VerticalNeverWaits == since # 0 => pending = "TopDownXY"

\* Refreshes do not leave the profile of their own before Debounce ticks have
\* passed since a vertical motion was seen, however the run mode flickers.
AutoSwitchSettled ==
  [][ effective = "VerticalProfile" /\ effective' = "TopDownXY" => dived' >= Debounce ]_vars

\* A viewport the user has moved is left alone until the view changes, the
\* user asks for a fit, or turns the following of the vehicle on.
UserViewKept ==
  [][ display.viewport = <<"user">> /\ display'.viewport # <<"user">> =>
        \/ display'.mode # display.mode
        \/ display'.autoFit /\ display' = RefitVisibleData(display)
        \/ display'.centered ]_vars

\* While the vehicle is centered and drawn, the viewport is at its place in
\* the scene, through mode changes, refits, resizes and layer changes.
FollowsVehicle ==
  (/\ display.mode = "TopDownXY" /\ display.centered /\ "vehicle" \in Visible(display))
    => display.viewport = Vehicle(display)

\* In automatic mode the view a lasting motion calls for is shown in the end.
AutoCatchesUp ==
  \A view \in Views :
    <>[](requested = "Auto" /\ Wanted = view) => <>[](display.mode = view)

\* The comments in redrawTopDownXY and autoFitAndCenter: the view is fitted
\* to the visible data and does not jump back to the origin.
FittedToData ==
  (/\ display.mode = "TopDownXY" /\ display.autoFit /\ ~display.centered
   /\ Visible(display) # {})
    => display.viewport = Fitted(display)
=============================================================================
