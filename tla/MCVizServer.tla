---------------------------- MODULE MCVizServer -----------------------------
(* The instance of VizServer for TLC takes its constants from the cfg.     *)
EXTENDS VizServer
=============================================================================
