-------------------------- MODULE MCPlaybackWorker --------------------------
(* Instances of PlaybackWorker for TLC: all bags of a few rows.             *)
EXTENDS PlaybackWorker

CONSTANTS MaxRows,  \* length of the bags
          MaxTime,  \* latest time
          Kinds     \* kinds of rows in them

MCBags == {b \in [1 .. MaxRows -> [ts : 1 .. MaxTime, kind : Kinds]] :
             /\ b[1].ts = 1
             /\ \A i \in 1 .. MaxRows - 1 : b[i].ts <= b[i + 1].ts}
=============================================================================
