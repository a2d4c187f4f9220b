------------------------- MODULE MCDictationDaemon -------------------------
(* Instances of DictationDaemon for TLC.                                   *)
EXTENDS DictationDaemon, TLC

CONSTANTS key, tray     \* the hotkey's goroutine and the tray's

MCCallers == {key, tray}
MCOneCaller == {key}
CallerSymmetry == Permutations(MCCallers)
=============================================================================
