-------------------------- MODULE MCStreamingCycle --------------------------
(* The instance of StreamingCycle for TLC.                                  *)
EXTENDS StreamingCycle
=============================================================================
