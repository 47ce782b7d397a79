--------------------------- MODULE MCRemoteSource ---------------------------
(* Instances of RemoteSource for TLC.                                       *)
EXTENDS RemoteSource, TLC

\* Sessions are interchangeable in Init and Next.
SessionSymmetry == Permutations(Sessions)
=============================================================================
