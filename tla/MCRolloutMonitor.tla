--------------------------- MODULE MCRolloutMonitor ---------------------------
(* RolloutMonitor as TLC checks it; the constants are in the .cfg files. *)
EXTENDS RolloutMonitor

=============================================================================
