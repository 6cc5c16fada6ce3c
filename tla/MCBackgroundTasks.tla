------------------------- MODULE MCBackgroundTasks -------------------------
(* The instance of BackgroundTasks for TLC.  The run checks liveness, so   *)
(* it uses no symmetry.                                                    *)
EXTENDS BackgroundTasks
=============================================================================
