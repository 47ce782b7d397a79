---------------------------- MODULE HistoryTrail ----------------------------
(***************************************************************************)
(* The trail of the vehicle that DataManager keeps while it replaces its   *)
(* snapshot: a new sample is appended when the vehicle has moved, dived or *)
(* risen far enough, or, in a vertical motion, when time has passed; the   *)
(* same sample told again only completes the last one.                     *)
(*                                                                         *)
(* Places are on a line, in half metres; levels stand for depth and        *)
(* height, which the code treats alike, in half decimetres; times are in   *)
(* half seconds: two units of each are the thresholds                      *)
(* kHistoryTrailMinDistance, kHistoryTrailMinDepthDelta and                *)
(* kVerticalHistoryMinTimeIntervalSec.                                     *)
(***************************************************************************)
EXTENDS Integers, Sequences

CONSTANTS Places, Levels, Times, \* what a location says
          MaxPoints              \* kMaxHistoryTrailPoints

ASSUME TrailAssumption ==
  /\ Places \subseteq Int /\ Levels \subseteq Nat /\ Times \subseteq Nat
  /\ MaxPoints \in Nat \ {0}

VARIABLES
  trail,    \* m_snapshot.historyTrail.points
  latest,   \* the last location replaced
  vertical  \* m_snapshot.runVisualizationMode is VerticalMotion

trailVars == <<trail, latest, vertical>>

\* A location without a level: its time is not that of the localization.
NoLevel == -1
Locations == [at : Times, place : Places, level : Levels \cup {NoLevel}]
NoLocation == [at |-> 0, place |-> 0, level |-> NoLevel]

Distance(a, b) == IF a > b THEN a - b ELSE b - a
Same(point, last) == point.at = last.at /\ point.place = last.place
\* Mutant: a dive is no motion.
MovedInPlane(point, last, diving) ==
  \/ Distance(point.place, last.place) >= 2
  \/ diving /\ point.at - last.at >= 2
Moved(point, last, diving) ==
  \/ Distance(point.place, last.place) >= 2
  \/ NoLevel \notin {point.level, last.level} /\ Distance(point.level, last.level) >= 2
  \/ point.level # NoLevel /\ last.level = NoLevel
  \/ diving /\ point.at - last.at >= 2
Completed(last, point) == IF point.level = NoLevel THEN last ELSE [last EXCEPT !.level = point.level]
Newest(points) ==
  SubSeq(points, IF Len(points) > MaxPoints THEN Len(points) - MaxPoints + 1 ELSE 1, Len(points))
\* appendHistoryTrailPointLocked
Appended(points, point, diving) ==
  IF points = <<>> THEN <<point>>
  ELSE LET n == Len(points) IN
       IF Same(point, points[n]) THEN [points EXCEPT ![n] = Completed(@, point)]
       ELSE IF Moved(point, points[n], diving) THEN Newest(Append(points, point))
       ELSE points
-----------------------------------------------------------------------------
\* A snapshot with a location; the trail outlives snapshots without one.
ReplaceSnapshot ==
  \E point \in Locations, diving \in BOOLEAN :
    /\ trail' = Appended(trail, point, diving)
    /\ latest' = point /\ vertical' = diving
ClearHistoryTrail == trail' = <<>> /\ UNCHANGED <<latest, vertical>>
ResetVisualizationData == trail' = <<>> /\ latest' = NoLocation /\ vertical' = FALSE

TrailInit == trail = <<>> /\ latest = NoLocation /\ vertical = FALSE
TrailNext == ReplaceSnapshot \/ ClearHistoryTrail \/ ResetVisualizationData
TrailSpec == TrailInit /\ [][TrailNext]_trailVars
-----------------------------------------------------------------------------
(* Properties                                                              *)
\* The trail ends where the vehicle is, to within the thresholds, also when
\* it is full, when locations repeat and when time goes back; and it holds no
\* sample twice in a row.
TrailKeepsUp ==
  /\ Len(trail) <= MaxPoints
  /\ trail # <<>> =>
       LET last == trail[Len(trail)]
       IN  /\ Distance(last.place, latest.place) < 2
           /\ latest.level # NoLevel =>
                last.level # NoLevel /\ Distance(last.level, latest.level) < 2
           /\ vertical => latest.at - last.at < 2
  /\ \A i \in 1 .. Len(trail) - 1 : ~Same(trail[i + 1], trail[i])
=============================================================================
