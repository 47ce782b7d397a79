------------------------------ MODULE MCPanels ------------------------------
(* One instance each of what the client derives from its snapshots: the    *)
(* depth profile, the control curves, the trail and the status panel.      *)
(* They have no state in common: TLC explores each while the others rest.  *)
EXTENDS DepthProfile, ControlCurves, HistoryTrail, StatusPanel

Vertical(goal, depth) ==
  [NoReport EXCEPT !.action = [NoAction EXCEPT !.valid = TRUE, !.state = 1, !.owner = 2,
                                 !.chassisMode = 1, !.vertical = "DepthHold", !.goal = goal],
                   !.planned["depth"] = depth]
Emergency(report) ==
  [report EXCEPT !.task = [NoTask EXCEPT !.valid = TRUE, !.emergencyStop = TRUE]]
Commanded(report, height) == [report EXCEPT !.command["height"] = height]
SomeReports ==
  {NoReport, Emergency(NoReport), Vertical(0, 1), Vertical(1, 1), Vertical(1, 2),
   [Vertical(2, 1) EXCEPT !.started = 1], Emergency(Vertical(1, 1)),
   Commanded(Vertical(1, 1), 2), Emergency(Commanded(NoReport, 2))}

SomeValues ==
  [location |-> {{}}, chassis |-> {{}, {"ascending"}, {"warning"}},
   command |-> {{"crawl"}, {"ascent"}}, action |-> {{"enabled"}, {"aborted"}},
   task |-> {{"stop"}}, targets |-> {{"rejected"}}]
SomeLeads == {-1, 1}

\* The part a behaviour is about; the others rest.
VARIABLE part
vars == <<part, profileVars, curvesVars, trailVars, panelVars>>
Init ==
  /\ part \in {"profile", "curves", "trail", "panel"}
  /\ ProfileInit /\ CurvesInit /\ TrailInit /\ PanelInit
  /\ part = "panel" \/ lead = 1
Next ==
  \/ part = "profile" /\ ProfileNext /\ UNCHANGED <<part, curvesVars, trailVars, panelVars>>
  \/ part = "curves" /\ CurvesNext /\ UNCHANGED <<part, profileVars, trailVars, panelVars>>
  \/ part = "trail" /\ TrailNext /\ UNCHANGED <<part, profileVars, curvesVars, panelVars>>
  \/ part = "panel" /\ PanelNext /\ UNCHANGED <<part, profileVars, curvesVars, trailVars>>
Spec == Init /\ [][Next]_vars
=============================================================================
