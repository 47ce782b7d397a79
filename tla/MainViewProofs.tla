--------------------------- MODULE MainViewProofs ---------------------------
(* The choice of the main view and its viewport, for every set of reports  *)
(* and contents, every debounce and every sequence of user, session and    *)
(* refresh: what is shown, when it may change and whose the viewport is.   *)
EXTENDS MainView, TLAPS

User == <<"user">>
Fields == {"mode", "content", "showVehicle", "centered", "fit", "autoFit", "viewport", "lastFit"}
IsDisplay(d) ==
  /\ DOMAIN d = Fields
  /\ d.showVehicle \in BOOLEAN /\ d.centered \in BOOLEAN /\ d.autoFit \in BOOLEAN
\* A centered vehicle that is drawn has the viewport, also after a resize.
Follows(d) ==
  (/\ d.mode = "TopDownXY" /\ d.centered /\ "vehicle" \in Visible(d))
    => d.viewport = Vehicle(d) /\ d.lastFit = Vehicle(d)
\* The fits never make a viewport that is taken for the user's.
OwnFits(d) == d.lastFit # User /\ (d.autoFit => d.viewport # User)
GoodDisplay(d) == IsDisplay(d) /\ Follows(d) /\ OwnFits(d)

\* A wait is for the plan view, is not older than the last vertical motion
\* seen, and runs in automatic mode only.
ChoiceInv ==
  /\ requested \in Views \cup {"Auto"} /\ effective \in Views /\ pending \in Views
  /\ since \in Nat /\ dived \in Nat /\ since <= dived + 1
  /\ since # 0 => pending = "TopDownXY" /\ requested = "Auto"
  /\ requested # "Auto" => effective = requested
ViewInv == ChoiceInv /\ GoodDisplay(display) /\ display.mode = effective

\* What a run mode calls for is a view or nothing.
LEMMA WantedIsView ==
  /\ Wanted \in Views \cup {"none"} /\ "none" \notin Views /\ "Auto" \notin Views
  /\ Wanted = "VerticalProfile" <=> snapshot.runMode = "VerticalMotion"
BY DEF Wanted, Candidate, Views

\* fitToRegion moves the viewport in automatic mode only.
LEMMA FitChanges ==
  ASSUME NEW d, IsDisplay(d), NEW region
  PROVE  LET e == FitToRegion(d, region)
         IN  /\ IsDisplay(e) /\ e.mode = d.mode /\ e.content = d.content
             /\ e.showVehicle = d.showVehicle /\ e.centered = d.centered /\ e.autoFit = d.autoFit
             /\ e.lastFit = region /\ e.viewport = IF d.autoFit THEN region ELSE d.viewport
BY DEF FitToRegion, IsDisplay, Fields

\* A redraw follows the vehicle if it is centered; else it leaves a viewport
\* that is not fitted automatically alone, and any if nothing is visible.
LEMMA RedrawFollows ==
  ASSUME NEW d, IsDisplay(d), OwnFits(d)
  PROVE  LET e == Redraw(d)
         IN  /\ GoodDisplay(e) /\ e.mode = d.mode
             /\ e.centered = d.centered /\ e.autoFit = d.autoFit
             /\ ~d.autoFit /\ ~d.centered => e.viewport = d.viewport
             /\ Visible(d) = {} => e = d
<1> DEFINE e == Redraw(d)
           fitted == FitToRegion(d, Vehicle(d))
<1>0. Vehicle(d) # User /\ Fitted(d) # User
  BY SMT DEF Vehicle, Fitted, User
<1>1. CASE d.mode # "TopDownXY" \/ Visible(d) = {}
  <2>1. e = d
    BY <1>1 DEF Redraw, AutoFitAndCenter
  <2> QED BY <1>1, <2>1 DEF GoodDisplay, Follows
<1>2. CASE d.mode = "TopDownXY" /\ Visible(d) # {} /\ d.centered /\ "vehicle" \in Visible(d)
  <2>1. e = [fitted EXCEPT !.fit = NoRegion, !.viewport = Vehicle(d)]
    BY <1>2 DEF Redraw, AutoFitAndCenter
  <2>2. /\ IsDisplay(fitted) /\ fitted.mode = d.mode /\ fitted.content = d.content
        /\ fitted.showVehicle = d.showVehicle /\ fitted.centered = d.centered
        /\ fitted.autoFit = d.autoFit /\ fitted.lastFit = Vehicle(d)
    BY FitChanges
  <2> HIDE DEF e, fitted
  <2>3. /\ IsDisplay(e) /\ e.mode = d.mode /\ e.content = d.content
        /\ e.showVehicle = d.showVehicle /\ e.centered = d.centered
        /\ e.autoFit = d.autoFit /\ e.lastFit = Vehicle(d) /\ e.viewport = Vehicle(d)
    BY <2>1, <2>2 DEF IsDisplay, Fields
  <2>4. Vehicle(e) = Vehicle(d)
    BY <2>3 DEF Vehicle
  <2>5. GoodDisplay(e)
    BY <1>0, <2>3, <2>4 DEF GoodDisplay, Follows, OwnFits
  <2> QED BY <1>2, <2>3, <2>5 DEF e
<1>3. CASE d.mode = "TopDownXY" /\ Visible(d) # {} /\ ~(d.centered /\ "vehicle" \in Visible(d))
  <2> DEFINE moved == FitToRegion(d, Fitted(d))
  <2>1. e = d \/ (d.autoFit /\ e = [moved EXCEPT !.fit = Fitted(d)])
    <3>1. CASE d.autoFit /\ d.fit # Fitted(d)
      BY <1>3, <3>1 DEF Redraw, AutoFitAndCenter
    <3>2. CASE ~(d.autoFit /\ d.fit # Fitted(d))
      BY <1>3, <3>2 DEF Redraw, AutoFitAndCenter
    <3> QED BY <3>1, <3>2
  <2>2. CASE e = d
    BY <1>3, <2>2 DEF GoodDisplay, Follows
  <2>3. CASE d.autoFit /\ e = [moved EXCEPT !.fit = Fitted(d)]
    <3>1. /\ IsDisplay(moved) /\ moved.mode = d.mode /\ moved.content = d.content
          /\ moved.showVehicle = d.showVehicle /\ moved.centered = d.centered
          /\ moved.autoFit = d.autoFit /\ moved.lastFit = Fitted(d) /\ moved.viewport = Fitted(d)
      <4>1. /\ IsDisplay(moved) /\ moved.mode = d.mode /\ moved.content = d.content
            /\ moved.showVehicle = d.showVehicle /\ moved.centered = d.centered
            /\ moved.autoFit = d.autoFit /\ moved.lastFit = Fitted(d)
            /\ moved.viewport = IF d.autoFit THEN Fitted(d) ELSE d.viewport
        BY FitChanges
      <4> HIDE DEF e, moved
      <4> QED BY <2>3, <4>1
    <3> HIDE DEF e, moved
    <3>2. /\ IsDisplay(e) /\ e.mode = d.mode /\ e.content = d.content
          /\ e.showVehicle = d.showVehicle /\ e.centered = d.centered
          /\ e.autoFit = d.autoFit /\ e.lastFit = Fitted(d) /\ e.viewport = Fitted(d)
      BY <2>3, <3>1 DEF IsDisplay, Fields
    <3>3. Visible(e) = Visible(d)
      BY <3>2 DEF Visible
    <3>4. GoodDisplay(e)
      BY <1>0, <1>3, <3>2, <3>3 DEF GoodDisplay, Follows, OwnFits
    <3> QED BY <1>3, <2>3, <3>2, <3>4 DEF e
  <2> QED BY <2>1, <2>2, <2>3
<1> QED BY <1>1, <1>2, <1>3

\* Resetting the view gives the viewport back to the fits.
LEMMA ResetGivesBack ==
  ASSUME NEW d, IsDisplay(d), OwnFits(d)
  PROVE  /\ IsDisplay(ResetView(d)) /\ OwnFits(ResetView(d)) /\ ResetView(d).autoFit
         /\ ResetView(d).mode = d.mode
<1>1. Origin # User
  BY SMT DEF Origin, User
<1> QED BY <1>1 DEF ResetView, IsDisplay, OwnFits, Fields

\* The view is changed only if it is another one; a new one is drawn.
LEMMA SetModeShows ==
  ASSUME NEW d, GoodDisplay(d), NEW mode
  PROVE  LET e == SetMainViewMode(d, mode)
         IN  GoodDisplay(e) /\ e.mode = mode /\ (d.mode = mode => e = d)
<1> DEFINE changed == [d EXCEPT !.mode = mode]
<1>1. CASE d.mode = mode
  BY <1>1 DEF SetMainViewMode
<1>2. CASE d.mode # mode
  <2>1. IsDisplay(changed) /\ OwnFits(changed) /\ changed.mode = mode
    BY DEF GoodDisplay, IsDisplay, OwnFits, Fields
  <2> HIDE DEF changed
  <2>2. IsDisplay(ResetView(changed)) /\ OwnFits(ResetView(changed)) /\ ResetView(changed).mode = mode
    BY <2>1, ResetGivesBack
  <2>3. GoodDisplay(Redraw(ResetView(changed))) /\ Redraw(ResetView(changed)).mode = mode
    BY <2>2, RedrawFollows
  <2> QED BY <1>2, <2>3 DEF SetMainViewMode, changed
<1> QED BY <1>1, <1>2

\* A scene with other contents or layers: a viewport that is the user's stays,
\* unless the vehicle is centered.
LEMMA SceneKeeps ==
  ASSUME NEW d, GoodDisplay(d), NEW content, NEW on \in BOOLEAN
  PROVE  /\ LET e == UpdateScene(d, content)
            IN  /\ GoodDisplay(e) /\ e.mode = d.mode /\ e.centered = d.centered
                /\ d.viewport = User /\ ~d.centered => e.viewport = User
         /\ LET e == Redraw([d EXCEPT !.showVehicle = on])
            IN  /\ GoodDisplay(e) /\ e.mode = d.mode /\ e.centered = d.centered
                /\ d.viewport = User /\ ~d.centered => e.viewport = User
<1> DEFINE filled == [d EXCEPT !.content = content]
           layered == [d EXCEPT !.showVehicle = on]
<1>1. /\ IsDisplay(filled) /\ OwnFits(filled) /\ filled.mode = d.mode
      /\ filled.centered = d.centered /\ filled.autoFit = d.autoFit
      /\ filled.viewport = d.viewport
  BY DEF GoodDisplay, IsDisplay, OwnFits, Fields
<1>2. /\ IsDisplay(layered) /\ OwnFits(layered) /\ layered.mode = d.mode
      /\ layered.centered = d.centered /\ layered.autoFit = d.autoFit
      /\ layered.viewport = d.viewport
  BY DEF GoodDisplay, IsDisplay, OwnFits, Fields
<1> HIDE DEF filled, layered
<1>3. d.viewport = User => ~d.autoFit
  BY DEF GoodDisplay, OwnFits
<1>4. /\ GoodDisplay(Redraw(filled)) /\ Redraw(filled).mode = d.mode
      /\ Redraw(filled).centered = d.centered
      /\ d.viewport = User /\ ~d.centered => Redraw(filled).viewport = User
  BY <1>1, <1>3, RedrawFollows
<1>5. /\ GoodDisplay(Redraw(layered)) /\ Redraw(layered).mode = d.mode
      /\ Redraw(layered).centered = d.centered
      /\ d.viewport = User /\ ~d.centered => Redraw(layered).viewport = User
  BY <1>2, <1>3, RedrawFollows
<1> QED BY <1>4, <1>5 DEF UpdateScene, filled, layered

\* Following the vehicle is turned on or off.
LEMMA CenteringKeeps ==
  ASSUME NEW d, GoodDisplay(d), NEW on \in BOOLEAN
  PROVE  LET e == SetVehicleCentered(d, on)
         IN  /\ GoodDisplay(e) /\ e.mode = d.mode /\ e.centered = on /\ e.autoFit = d.autoFit
             /\ d.viewport = User /\ ~on => e.viewport = User
<1> DEFINE turned == [d EXCEPT !.centered = on, !.fit = NoRegion]
<1>1. CASE d.centered = on
  BY <1>1 DEF SetVehicleCentered
<1>2. CASE d.centered # on
  <2>1. /\ IsDisplay(turned) /\ OwnFits(turned) /\ turned.mode = d.mode
        /\ turned.centered = on /\ turned.autoFit = d.autoFit /\ turned.viewport = d.viewport
    BY DEF GoodDisplay, IsDisplay, OwnFits, Fields
  <2> HIDE DEF turned
  <2>2. d.viewport = User => ~d.autoFit
    BY DEF GoodDisplay, OwnFits
  <2>3. /\ GoodDisplay(Redraw(turned)) /\ Redraw(turned).mode = d.mode
        /\ Redraw(turned).centered = on /\ Redraw(turned).autoFit = d.autoFit
        /\ d.viewport = User /\ ~on => Redraw(turned).viewport = User
    BY <2>1, <2>2, RedrawFollows
  <2> QED BY <1>2, <2>3 DEF SetVehicleCentered, turned
<1> QED BY <1>1, <1>2

\* Zooming and panning take the viewport, and it follows no vehicle then.
LEMMA NavigatedTakes ==
  ASSUME NEW d, GoodDisplay(d)
  PROVE  GoodDisplay(Navigated(d)) /\ Navigated(d).mode = d.mode /\ Navigated(d).viewport = User
<1> DEFINE manual == [d EXCEPT !.autoFit = FALSE]
           e == SetVehicleCentered(manual, FALSE)
<1>1. /\ IsDisplay(manual) /\ manual.mode = d.mode /\ ~manual.autoFit
      /\ manual.lastFit = d.lastFit /\ manual.viewport = d.viewport /\ manual.content = d.content
      /\ manual.showVehicle = d.showVehicle /\ manual.centered = d.centered
  BY DEF GoodDisplay, IsDisplay, Fields
<1> HIDE DEF manual
<1>2. GoodDisplay(manual)
  <2>1. Visible(manual) = Visible(d) /\ Vehicle(manual) = Vehicle(d)
    BY <1>1 DEF Visible, Vehicle
  <2> QED BY <1>1, <2>1 DEF GoodDisplay, Follows, OwnFits
<1>3. GoodDisplay(e) /\ e.mode = d.mode /\ ~e.centered /\ ~e.autoFit
  <2>1. /\ GoodDisplay(e) /\ e.mode = manual.mode /\ e.centered = FALSE
        /\ e.autoFit = manual.autoFit
    BY <1>2, CenteringKeeps, FALSE \in BOOLEAN
  <2> HIDE DEF e
  <2> QED BY <1>1, <2>1, Zenon
<1> HIDE DEF e
<1>4. Navigated(d) = [e EXCEPT !.viewport = User]
  BY DEF Navigated, e, manual, User
<1>5. /\ IsDisplay(Navigated(d)) /\ Navigated(d).mode = d.mode /\ Navigated(d).viewport = User
      /\ ~Navigated(d).centered /\ ~Navigated(d).autoFit /\ Navigated(d).lastFit = e.lastFit
  BY <1>3, <1>4 DEF GoodDisplay, IsDisplay, Fields
<1> QED BY <1>3, <1>5 DEF GoodDisplay, Follows, OwnFits

\* A resize fits the last region again, unless the viewport is the user's.
LEMMA ResizedKeeps ==
  ASSUME NEW d, GoodDisplay(d)
  PROVE  /\ GoodDisplay(Resized(d)) /\ Resized(d).mode = d.mode
         /\ d.viewport = User => Resized(d) = d
<1> DEFINE e == FitToRegion(d, d.lastFit)
<1>1. d.viewport = User => ~d.autoFit
  BY DEF GoodDisplay, OwnFits
<1>2. CASE ~(d.autoFit /\ d.lastFit # NoRegion)
  BY <1>2 DEF Resized
<1>3. CASE d.autoFit /\ d.lastFit # NoRegion
  <2>1. /\ IsDisplay(e) /\ e.mode = d.mode /\ e.content = d.content
        /\ e.showVehicle = d.showVehicle /\ e.centered = d.centered /\ e.autoFit = d.autoFit
        /\ e.lastFit = d.lastFit /\ e.viewport = IF d.autoFit THEN d.lastFit ELSE d.viewport
    BY FitChanges DEF GoodDisplay
  <2> HIDE DEF e
  <2>2. Visible(e) = Visible(d) /\ Vehicle(e) = Vehicle(d)
    BY <2>1 DEF Visible, Vehicle
  <2>3. GoodDisplay(e)
    BY <1>3, <2>1, <2>2 DEF GoodDisplay, Follows, OwnFits
  <2> QED BY <1>1, <1>3, <2>1, <2>3 DEF Resized, e
<1> QED BY <1>2, <1>3

\* A fit that the user asks for.
LEMMA RefitShows ==
  ASSUME NEW d, GoodDisplay(d)
  PROVE  /\ GoodDisplay(RefitVisibleData(d)) /\ RefitVisibleData(d).mode = d.mode
         /\ RefitVisibleData(d).autoFit
<1> DEFINE free == [ResetView(d) EXCEPT !.fit = NoRegion]
<1>1. /\ IsDisplay(ResetView(d)) /\ OwnFits(ResetView(d)) /\ ResetView(d).autoFit
      /\ ResetView(d).mode = d.mode
  BY ResetGivesBack DEF GoodDisplay
<1>2. IsDisplay(free) /\ OwnFits(free) /\ free.mode = d.mode /\ free.autoFit
  BY <1>1 DEF IsDisplay, OwnFits, Fields
<1> HIDE DEF free
<1>3. GoodDisplay(Redraw(free)) /\ Redraw(free).mode = d.mode /\ Redraw(free).autoFit
  BY <1>2, RedrawFollows
<1> QED BY <1>3 DEF RefitVisibleData, free

\* A new session empties the scene where it is.
LEMMA SessionKeeps ==
  ASSUME NEW d, GoodDisplay(d)
  PROVE  LET e == ResetPlaybackSession(d)
         IN  /\ GoodDisplay(e) /\ e.mode = d.mode
             /\ d.viewport = User => e.viewport = User
<1> DEFINE emptied == [d EXCEPT !.content = Blank, !.fit = NoRegion]
<1>1. /\ IsDisplay(emptied) /\ OwnFits(emptied) /\ emptied.mode = d.mode
      /\ emptied.viewport = d.viewport /\ emptied.content = Blank
  BY DEF GoodDisplay, IsDisplay, OwnFits, Fields
<1> HIDE DEF emptied
<1>2. Visible(emptied) = {}
  BY <1>1 DEF Visible, Blank
<1>3. Redraw(emptied) = emptied /\ GoodDisplay(Redraw(emptied))
  BY <1>1, <1>2, RedrawFollows
<1> QED BY <1>1, <1>3 DEF ResetPlaybackSession, emptied

\* A refresh chooses a view and draws the scene, or leaves it.
LEMMA RefreshKeeps ==
  ASSUME ViewAssumption, ViewInv, RefreshVisualization
  PROVE  /\ ViewInv'
         /\ effective = "VerticalProfile" /\ effective' = "TopDownXY" => dived' >= Debounce
         /\ display.viewport = User /\ display'.mode = display.mode /\ ~display'.centered
              => display'.viewport = User
<1> DEFINE chosen == SetMainViewMode(display, effective')
<1>1. /\ requested' = requested /\ requested \in Views \cup {"Auto"}
      /\ effective' \in Views /\ pending' \in Views /\ since' \in Nat
      /\ dived' = IF snapshot.runMode = "VerticalMotion" THEN 0 ELSE dived
      /\ since' # 0 => pending' = "TopDownXY" /\ requested = "Auto"
      /\ requested # "Auto" => effective' = requested
      /\ since' <= dived' + 1
      /\ effective = "VerticalProfile" /\ effective' = "TopDownXY" => dived' >= Debounce
  <2>1. dived' = IF snapshot.runMode = "VerticalMotion" THEN 0 ELSE dived
    BY DEF RefreshVisualization
  <2>2. CASE requested # "Auto"
    <3>1. effective' = requested /\ UNCHANGED <<requested, pending, since>>
      BY <2>2 DEF RefreshVisualization, UpdateMainViewMode
    <3> QED BY <2>1, <2>2, <3>1 DEF ViewInv, ChoiceInv, Views
  <2>3. CASE requested = "Auto" /\ Wanted = "none"
    <3>1. UNCHANGED choice
      BY <2>3, WantedIsView
      DEF RefreshVisualization, UpdateMainViewMode, AutoMode, Keep, ViewInv, ChoiceInv
    <3> QED BY <2>1, <2>3, <3>1, WantedIsView DEF ViewInv, ChoiceInv, Views, choice, Wanted, Candidate
  <2>4. CASE requested = "Auto" /\ Wanted = effective
    <3>1. since' = 0 /\ UNCHANGED <<requested, effective, pending>>
      BY <2>4, WantedIsView DEF RefreshVisualization, UpdateMainViewMode, AutoMode, Settled, ViewInv, ChoiceInv
    <3> QED BY <2>1, <2>4, <3>1 DEF ViewInv, ChoiceInv, Views
  <2>5. CASE /\ requested = "Auto" /\ Wanted \notin {"none", effective}
             /\ since = 0 \/ pending # Wanted
    <3>1. FirstSeen
      BY <2>5 DEF RefreshVisualization, UpdateMainViewMode, AutoMode
    <3>2. CASE Wanted = "VerticalProfile"
      <4>1. effective' = Wanted /\ since' = 0 /\ pending' = Wanted /\ requested' = requested
        BY <3>1, <3>2 DEF FirstSeen
      <4> QED BY <2>1, <2>5, <3>2, <4>1 DEF ViewInv, ChoiceInv, Views
    <3>3. CASE Wanted # "VerticalProfile"
      <4>1. effective' = effective /\ since' = 1 /\ pending' = Wanted /\ requested' = requested
        BY <3>1, <3>3 DEF FirstSeen
      <4>2. Wanted = "TopDownXY" /\ dived' = dived
        BY <2>1, <2>5, <3>3, WantedIsView DEF Views
      <4> QED BY <2>1, <2>5, <4>1, <4>2 DEF ViewInv, ChoiceInv, Views
    <3> QED BY <3>2, <3>3
  <2>6. CASE /\ requested = "Auto" /\ Wanted \notin {"none", effective}
             /\ ~(since = 0 \/ pending # Wanted)
    <3>1. Wanted = "TopDownXY" /\ dived' = dived /\ since # 0
      BY <2>1, <2>6, WantedIsView DEF ViewInv, ChoiceInv
    <3>2. IF since > Debounce THEN Switch ELSE Keep
      BY <2>6 DEF RefreshVisualization, UpdateMainViewMode, AutoMode
    <3>3. CASE since > Debounce
      <4>1. effective' = Wanted /\ since' = 0 /\ UNCHANGED <<requested, pending>>
        BY <3>2, <3>3 DEF Switch
      <4>2. dived >= Debounce
        BY <3>3 DEF ViewInv, ChoiceInv, ViewAssumption
      <4> QED BY <2>1, <2>6, <3>1, <4>1, <4>2 DEF ViewInv, ChoiceInv, Views
    <3>4. CASE ~(since > Debounce)
      <4>1. UNCHANGED choice
        BY <3>2, <3>4 DEF Keep
      <4> QED BY <2>1, <2>6, <3>1, <4>1 DEF ViewInv, ChoiceInv, Views, choice
    <3> QED BY <3>3, <3>4
  <2> QED BY <2>2, <2>3, <2>4, <2>5, <2>6
<1>2. /\ GoodDisplay(chosen) /\ chosen.mode = effective'
      /\ display.mode = effective' => chosen = display
  BY SetModeShows DEF ViewInv
<1>3. display' = UpdateScene(chosen, snapshot.content) \/ display' = chosen
  BY DEF RefreshVisualization
<1> HIDE DEF chosen
<1>4. /\ GoodDisplay(display') /\ display'.mode = effective' /\ display'.centered = chosen.centered
      /\ chosen.viewport = User /\ ~chosen.centered => display'.viewport = User
  <2> DEFINE drawn == UpdateScene(chosen, snapshot.content)
  <2>1. /\ GoodDisplay(drawn) /\ drawn.mode = chosen.mode /\ drawn.centered = chosen.centered
        /\ chosen.viewport = User /\ ~chosen.centered => drawn.viewport = User
    BY <1>2, SceneKeeps, TRUE \in BOOLEAN
  <2> HIDE DEF drawn
  <2>2. display' = drawn \/ display' = chosen
    BY <1>3 DEF drawn
  <2>3. CASE display' = drawn
    BY <1>2, <2>1, <2>3
  <2>4. CASE display' = chosen
    BY <1>2, <2>4
  <2> QED BY <2>2, <2>3, <2>4
<1>5. ViewInv'
  <2>1. ChoiceInv'
    BY <1>1 DEF ViewInv, ChoiceInv, ViewAssumption
  <2> QED BY <1>4, <2>1 DEF ViewInv
<1> QED BY <1>1, <1>2, <1>4, <1>5

\* A choice of the user is shown at once.
LEMMA ChoosingKeeps ==
  ASSUME ViewAssumption, ViewInv, SetRequestedMainViewMode
  PROVE  /\ ViewInv' /\ dived' >= Debounce
         /\ display'.mode = display.mode => display' = display
<1>1. PICK mode \in Views \cup {"Auto"} :
        LET view == IF mode # "Auto" THEN mode ELSE IF Wanted # "none" THEN Wanted ELSE effective
        IN  /\ requested' = mode /\ effective' = view /\ since' = 0
            /\ pending' = IF mode = "Auto" /\ Wanted # "none" THEN Wanted ELSE pending
            /\ display' = IF mode = "Auto" /\ Wanted = "none" THEN display
                          ELSE SetMainViewMode(display, view)
            /\ dived' = Debounce /\ UNCHANGED <<snapshot, sceneAge>>
  BY DEF SetRequestedMainViewMode
<1>2. /\ effective' \in Views /\ pending' \in Views /\ since' = 0 /\ dived' = Debounce
      /\ requested' = mode /\ (mode # "Auto" => effective' = mode)
  BY <1>1, WantedIsView DEF ViewInv, ChoiceInv
<1>3. \/ display' = display /\ effective' = effective
      \/ display' = SetMainViewMode(display, effective')
  BY <1>1
<1>4. /\ GoodDisplay(display') /\ display'.mode = effective'
      /\ display'.mode = display.mode => display' = display
  BY <1>3, SetModeShows DEF ViewInv
<1>5. ChoiceInv'
  BY <1>2 DEF ChoiceInv, ViewAssumption
<1> QED BY <1>2, <1>4, <1>5 DEF ViewInv, ViewAssumption

\* A session that begins shows the plan view in automatic mode.
LEMMA BeginningKeeps ==
  ASSUME ViewAssumption, ViewInv, NEW source, NewSession(source)
  PROVE  /\ ViewInv' /\ dived' >= Debounce
         /\ display.viewport = User /\ display'.mode = display.mode => display'.viewport = User
<1> DEFINE cleared == ResetPlaybackSession(display)
<1>1. /\ GoodDisplay(cleared) /\ cleared.mode = effective
      /\ display.viewport = User => cleared.viewport = User
  BY SessionKeeps DEF ViewInv
<1>2. /\ since' = 0 /\ dived' = Debounce /\ requested' = requested
      /\ \/ /\ requested = "Auto" /\ effective' = "TopDownXY" /\ pending' = "TopDownXY"
            /\ display' = SetMainViewMode(cleared, "TopDownXY")
         \/ requested # "Auto" /\ display' = cleared /\ UNCHANGED <<effective, pending>>
  BY DEF NewSession
<1> HIDE DEF cleared
<1>3. ChoiceInv'
  BY <1>2 DEF ViewInv, ChoiceInv, Views, ViewAssumption
<1>4. /\ GoodDisplay(display') /\ display'.mode = effective'
      /\ display'.mode = cleared.mode => display' = cleared
  BY <1>1, <1>2, SetModeShows
<1> QED BY <1>1, <1>2, <1>3, <1>4 DEF ViewInv, ViewAssumption

\* What only the display sees.
LEMMA DisplayOnly ==
  ASSUME ViewInv, NEW new, OnDisplay(new), GoodDisplay(new), new.mode = display.mode
  PROVE  ViewInv' /\ effective' = effective
BY DEF ViewInv, ChoiceInv, OnDisplay, choice

\* One step of the view: the invariant, the wait before the profile is left,
\* and the user's viewport.
LEMMA StepKeeps ==
  ASSUME ViewAssumption, ViewInv, [Next]_vars
  PROVE  /\ ViewInv'
         /\ effective = "VerticalProfile" /\ effective' = "TopDownXY" => dived' >= Debounce
         /\ display.viewport = User /\ display'.viewport # User =>
              \/ display'.mode # display.mode
              \/ display'.autoFit /\ display' = RefitVisibleData(display)
              \/ display'.centered
<1>g. GoodDisplay(display)
  BY DEF ViewInv
<1>1. CASE RefreshVisualization
  BY <1>1, RefreshKeeps
<1>2. CASE SetRequestedMainViewMode
  BY <1>2, ChoosingKeeps
<1>3. CASE Navigate
  <2>1. /\ GoodDisplay(Navigated(display)) /\ Navigated(display).mode = display.mode
        /\ Navigated(display).viewport = User /\ OnDisplay(Navigated(display))
    BY <1>g, <1>3, NavigatedTakes DEF Navigate
  <2>2. ViewInv' /\ effective' = effective /\ display' = Navigated(display)
    BY <2>1, DisplayOnly DEF OnDisplay
  <2> QED BY <2>1, <2>2 DEF Views
<1>4. CASE Resize
  <2>1. /\ GoodDisplay(Resized(display)) /\ Resized(display).mode = display.mode
        /\ display.viewport = User => Resized(display) = display
        /\ OnDisplay(Resized(display))
    BY <1>g, <1>4, ResizedKeeps DEF Resize
  <2>2. ViewInv' /\ effective' = effective /\ display' = Resized(display)
    BY <2>1, DisplayOnly DEF OnDisplay
  <2> QED BY <2>1, <2>2
<1>5. CASE Refit
  <2>1. /\ GoodDisplay(RefitVisibleData(display)) /\ RefitVisibleData(display).mode = display.mode
        /\ RefitVisibleData(display).autoFit /\ OnDisplay(RefitVisibleData(display))
    BY <1>g, <1>5, RefitShows DEF Refit
  <2>2. ViewInv' /\ effective' = effective /\ display' = RefitVisibleData(display)
    BY <2>1, DisplayOnly DEF OnDisplay
  <2> QED BY <2>1, <2>2
<1>6. CASE SetCentered
  <2>1. PICK on \in BOOLEAN : OnDisplay(SetVehicleCentered(display, on))
    BY <1>6 DEF SetCentered
  <2>2. /\ GoodDisplay(SetVehicleCentered(display, on))
        /\ SetVehicleCentered(display, on).mode = display.mode
        /\ SetVehicleCentered(display, on).centered = on
        /\ display.viewport = User /\ ~on => SetVehicleCentered(display, on).viewport = User
    BY <1>g, CenteringKeeps
  <2>3. ViewInv' /\ effective' = effective /\ display' = SetVehicleCentered(display, on)
    BY <2>1, <2>2, DisplayOnly DEF OnDisplay
  <2> QED BY <2>2, <2>3
<1>7. CASE SetLayerVisibility
  <2>1. PICK on \in BOOLEAN : OnDisplay(Redraw([display EXCEPT !.showVehicle = on]))
    BY <1>7 DEF SetLayerVisibility
  <2> DEFINE e == Redraw([display EXCEPT !.showVehicle = on])
  <2>2. /\ GoodDisplay(e) /\ e.mode = display.mode /\ e.centered = display.centered
        /\ display.viewport = User /\ ~display.centered => e.viewport = User
    BY <1>g, SceneKeeps
  <2> HIDE DEF e
  <2>3. ViewInv' /\ effective' = effective /\ display' = e
    <3>1. OnDisplay(e)
      BY <2>1 DEF e
    <3> QED BY <2>2, <3>1, DisplayOnly DEF OnDisplay
  <2> QED BY <2>2, <2>3
<1>8. CASE ActivatePlayback \/ OpenConnection
  BY <1>8, BeginningKeeps DEF ActivatePlayback, OpenConnection
<1>9. CASE PositionBack \/ Replaced \/ UNCHANGED vars
  <2>1. UNCHANGED <<choice, display, dived>>
    BY <1>9 DEF PositionBack, Replaced, vars, choice
  <2>2. ViewInv'
    BY <2>1 DEF ViewInv, ChoiceInv, choice
  <2> QED BY <2>1, <2>2 DEF choice
<1>10. CASE Tick
  <2>1. /\ since' = IF since = 0 THEN 0 ELSE Min(since + 1, Debounce + 1)
        /\ dived' = Min(dived + 1, Debounce)
        /\ UNCHANGED <<requested, effective, pending, display>>
    BY <1>10 DEF Tick
  <2>2. since' \in Nat /\ dived' \in Nat /\ since' <= dived' + 1 /\ (since' # 0 => since # 0)
    BY <2>1 DEF ViewInv, ChoiceInv, Min, ViewAssumption
  <2>3. ViewInv'
    BY <2>1, <2>2 DEF ViewInv, ChoiceInv
  <2> QED BY <2>1, <2>3
<1> QED BY <1>1, <1>2, <1>3, <1>4, <1>5, <1>6, <1>7, <1>8, <1>9, <1>10 DEF Next

\* The view is chosen and drawn as one: what is shown is what was chosen, and
\* the viewport is the vehicle's, the fits' or the user's.
THEOREM ViewCorrect == Spec => []ViewInv
<1>1. Init => ViewInv
  <2> SUFFICES ASSUME Init PROVE ViewInv
    OBVIOUS
  <2>1. ChoiceInv
    BY ViewAssumption DEF Init, ChoiceInv, Views, ViewAssumption
  <2>2. PICK show \in BOOLEAN, on \in BOOLEAN :
          display = [mode |-> "TopDownXY", content |-> Blank, showVehicle |-> show,
                     centered |-> on, fit |-> NoRegion, autoFit |-> TRUE,
                     viewport |-> Origin, lastFit |-> NoRegion]
    BY DEF Init
  <2>3. IsDisplay(display) /\ display.mode = effective
    BY <2>2 DEF IsDisplay, Fields, Init
  <2>4. Visible(display) = {}
    BY <2>2 DEF Visible, Blank
  <2>5. Origin # User /\ NoRegion # User
    BY SMT DEF Origin, NoRegion, User
  <2>6. GoodDisplay(display)
    BY <2>2, <2>3, <2>4, <2>5 DEF GoodDisplay, Follows, OwnFits
  <2> QED BY <2>1, <2>3, <2>6 DEF ViewInv
<1>2. ViewInv /\ [Next]_vars => ViewInv'
  BY StepKeeps, ViewAssumption
<1> QED BY <1>1, <1>2, PTL DEF Spec

\* A running wait is always one for the plan view: updateMainViewMode shows a
\* vertical motion at the first frame.
THEOREM ProfileAtOnce == Spec => []VerticalNeverWaits
<1>1. ViewInv => VerticalNeverWaits
  BY DEF ViewInv, ChoiceInv, VerticalNeverWaits
<1> QED BY <1>1, ViewCorrect, PTL

\* What setMainViewMode shows is what MainWindow chose, and a choice of the
\* user stays.
THEOREM ShownIsChosen == Spec => []SceneShowsChoice
<1>1. ViewInv => SceneShowsChoice
  BY DEF ViewInv, ChoiceInv, SceneShowsChoice
<1> QED BY <1>1, ViewCorrect, PTL

\* A vehicle that is centered and drawn has the viewport.
THEOREM VehicleFollowed == Spec => []FollowsVehicle
<1>1. ViewInv => FollowsVehicle
  BY DEF ViewInv, GoodDisplay, Follows, FollowsVehicle
<1> QED BY <1>1, ViewCorrect, PTL

\* The profile is not left by a refresh before the debounce has passed since
\* the last vertical motion seen, for every debounce.
THEOREM SwitchSettled == Spec => AutoSwitchSettled
<1>1. ViewInv /\ [Next]_vars =>
        [ effective = "VerticalProfile" /\ effective' = "TopDownXY" => dived' >= Debounce ]_vars
  BY StepKeeps, ViewAssumption
<1> QED BY <1>1, ViewCorrect, PTL DEF Spec, AutoSwitchSettled

\* Nothing but another view, a fit that was asked for and the following of
\* the vehicle takes the viewport from the user.
THEOREM ViewportKept == Spec => UserViewKept
<1>1. ViewInv /\ [Next]_vars =>
        [ display.viewport = <<"user">> /\ display'.viewport # <<"user">> =>
            \/ display'.mode # display.mode
            \/ display'.autoFit /\ display' = RefitVisibleData(display)
            \/ display'.centered ]_vars
  BY StepKeeps, ViewAssumption DEF User
<1> QED BY <1>1, ViewCorrect, PTL DEF Spec, UserViewKept
=============================================================================
