---------------------------- MODULE MCLiveReload ----------------------------
(* Instances of LiveReload for TLC are given by its bounds alone.      *)
EXTENDS LiveReload
=============================================================================
