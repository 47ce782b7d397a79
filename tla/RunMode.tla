------------------------------ MODULE RunMode -------------------------------
(* inferRunVisualizationMode: what the client takes the robot to be doing, *)
(* from the action and the task it was told last.                          *)
EXTENDS Naturals

NoAction == [valid |-> FALSE, state |-> 0, owner |-> 0, chassisMode |-> 0, vertical |-> "None",
             goal |-> 0]
NoTask == [valid |-> FALSE, emergencyStop |-> FALSE, task |-> 0]

Holding(action) == action.vertical \in {"DepthHold", "HeightHold"}
Sails(action) == action.owner = 1 \/ action.chassisMode \in {4, 5, 6, 7, 8, 10, 11}
Dives(action) == action.owner = 2 \/ action.chassisMode \in {1, 2}

Executed(action) ==
  CASE Holding(action) -> "VerticalMotion"
    [] ~Holding(action) /\ Sails(action) -> "HorizontalMotion"
    [] ~Holding(action) /\ ~Sails(action) /\ Dives(action) -> "VerticalMotion"
    [] ~Holding(action) /\ ~Sails(action) /\ ~Dives(action) /\ action.owner = 0 -> "Idle"
    [] OTHER -> "Unknown"
Mode(action, task) ==
  CASE task.valid /\ task.emergencyStop -> "EmergencyStop"
    [] action.valid /\ ~(task.valid /\ task.emergencyStop) ->
         IF action.state = 1 THEN Executed(action)
         ELSE IF action.state = 0 /\ action.owner = 0 THEN "Idle" ELSE "Unknown"
    [] OTHER -> "Unknown"

\* The main view a run mode calls for, if any: runModeHasMainViewCandidate.
Candidate(mode) ==
  CASE mode = "HorizontalMotion" -> "TopDownXY"
    [] mode = "VerticalMotion" -> "VerticalProfile"
    [] OTHER -> "none"
=============================================================================
