---------------------------- MODULE MCTaskQueues ----------------------------
(* Instances of TaskQueues for TLC. *)
EXTENDS TaskQueues

\* The raster queue 1 is merged into the platform queue 0.
RasterPair == {<<0, 1>>}
=============================================================================
