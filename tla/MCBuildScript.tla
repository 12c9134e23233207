---------------------------- MODULE MCBuildScript ----------------------------
(* The instance of BuildScript for TLC.                                     *)
EXTENDS BuildScript
==============================================================================
