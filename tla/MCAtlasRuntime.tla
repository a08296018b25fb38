--------------------------- MODULE MCAtlasRuntime ---------------------------
(***************************************************************************)
(* Instances of AtlasRuntime for TLC.  The state space is finite: the      *)
(* counters are bounded by MaxGeneration and MaxRevision, as the code      *)
(* bounds them by u64::MAX.                                                *)
(***************************************************************************)
EXTENDS AtlasRuntime
=============================================================================
