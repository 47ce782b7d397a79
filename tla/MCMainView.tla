----------------------------- MODULE MCMainView -----------------------------
(* Instances of MainView for TLC.                                          *)
EXTENDS MainView

Action(owner, mode, vertical) ==
  [NoAction EXCEPT !.valid = TRUE, !.state = 1, !.owner = owner, !.chassisMode = mode,
                   !.vertical = vertical]
Stop == [NoTask EXCEPT !.valid = TRUE, !.emergencyStop = TRUE]
SomeReports ==
  {[action |-> NoAction, task |-> NoTask],
   [action |-> Action(1, 6, "None"), task |-> NoTask],
   [action |-> Action(2, 1, "DepthHold"), task |-> NoTask],
   [action |-> Action(2, 1, "DepthHold"), task |-> Stop]}
SomeContents == {[vehicle |-> 0, path |-> FALSE], [vehicle |-> 1, path |-> TRUE],
                 [vehicle |-> 2, path |-> TRUE]}
=============================================================================
