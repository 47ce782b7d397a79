---------------------------- MODULE MCTopicLinks ----------------------------
(* Instances of TopicLinks, ActionTracker and FrameCodec for TLC: the      *)
(* messages of the two links, those of an action in any order, and the     *)
(* frames that carry a server's snapshots.  They have no state in common.  *)
EXTENDS TopicLinks, ActionTracker, FrameCodec

\* Actions are interchangeable.
GoalSymmetry == Permutations(Goals)

Target(id, fault, class, boundary, stamp) ==
  [id |-> id, fault |-> fault, class |-> class, boundary |-> boundary, stamp |-> stamp]
Sound == {Target(1, "none", 1, "none", 7), Target(2, "none", 2, "good", 0),
          Target(2, "none", 2, "flat", 0), Target(1, "none", 2, "none", 0)}
Bad == {Target(2, f, 1, "none", 0) : f \in {"frame", "point", "radius", "class"}}

Array(odom, targets) == [odom |-> odom, targets |-> targets]
\* Sets whose fault, if any, ends the payload.
LateFaults ==
  {Array(TRUE, <<>>), Array(FALSE, <<>>)} \cup {Array(TRUE, <<t>>) : t \in Sound \cup Bad}
  \cup {Array(TRUE, <<t, u>>) : t \in Sound, u \in Sound \cup Bad}
\* Sets with a fault anywhere.
AnyFaults == LateFaults \cup {Array(TRUE, <<t, u>>) : t \in Bad, u \in Sound}
             \cup {Array(FALSE, <<t>>) : t \in Sound}

SomePayloads == {<<>>, <<0>>, <<1>>, <<0, 1>>, <<1, 0>>, <<0, 0, 1>>}
\* A frame of no length, one of a length too great, one that is no envelope,
\* one that breaks off.
SomeBroken == {<<0, 0, 0, 0>>, <<0, 0, 1, 1, 0>>, <<0, 0, 1, 0, 1, 1>>, <<0, 0, 0, 1>>}

\* The part a behaviour is about; the others rest.
VARIABLE part
LinksInit == part \in {"messages", "action", "frames"} /\ Init /\ TrackerInit /\ FrameInit
LinksNext ==
  \/ part = "messages" /\ Next /\ UNCHANGED <<part, trackerVars, frameVars>>
  \/ part = "action" /\ TrackerNext /\ UNCHANGED <<part, vars, frameVars>>
  \/ part = "frames" /\ FrameNext /\ UNCHANGED <<part, vars, trackerVars>>
LinksSpec == LinksInit /\ [][LinksNext]_<<part, vars, trackerVars, frameVars>>
=============================================================================
