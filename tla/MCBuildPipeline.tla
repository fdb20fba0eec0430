--------------------------- MODULE MCBuildPipeline ---------------------------
(***************************************************************************)
(* Instances of BuildPipeline for TLC.                                     *)
(***************************************************************************)
EXTENDS BuildPipeline, TLC
==============================================================================
