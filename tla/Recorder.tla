------------------------------ MODULE Recorder ------------------------------
(***************************************************************************)
(* The microphone recorder, pkg/capture/subprocess_linux.go: one call of    *)
(* RecordToFile, the recording child it starts, and the stop that races     *)
(* with the child's own end.  Each action leaves the other components'      *)
(* variables to the module that composes it.                                *)
(***************************************************************************)
EXTENDS Naturals, Sequences

VARIABLES
  rec,       \* where RecordToFile is
  recChild,  \* pw-record or parecord
  recErr,    \* what Wait says of the child: did it end with an error
  reason,    \* stopReason
  file,      \* the WAV file
  take       \* the words in it

recVars == <<rec, recChild, recErr, reason, file, take>>

(* "waiting" in orchestrateStop, "signalled" and "killed" in signalAndKill, *)
(* "checking" when Run has returned without an error.                       *)
RecSteps == {"idle", "waiting", "signalled", "killed", "checking", "ok", "failed"}

(* "finishing": the child works on the SIGINT and closes its WAV.           *)
ChildStates == {"none", "running", "finishing", "exited"}

(* "empty" as CreateTemp left it; "cut" while the header is not final,      *)
(* "whole" once the child closed it.                                        *)
FileStates == {"none", "empty", "cut", "whole"}

RecorderType ==
  /\ rec \in RecSteps
  /\ recChild \in ChildStates
  /\ recErr \in BOOLEAN
  /\ reason \in {"natural", "graceful", "forced"}
  /\ file \in FileStates

RecorderInit ==
  /\ rec = "idle"
  /\ recChild = "none"
  /\ recErr = FALSE
  /\ reason = "natural"
  /\ file = "none"
  /\ take = <<>>

(* RecordToFile up to the start of the child: options and temporary file,   *)
(* then Run; a failure removes the file.                                    *)
StartRecording ==
  /\ rec = "idle"
  /\ \/ /\ rec' = "waiting" /\ recChild' = "running" /\ file' = "empty"
     \/ /\ rec' = "failed" /\ UNCHANGED <<recChild, file>>
  /\ UNCHANGED <<recErr, reason, take>>

(* The child hears a word.                                                  *)
RecorderHears(word) ==
  IF recChild = "running"
  THEN take' = Append(take, word) /\ file' = "cut"
  ELSE UNCHANGED <<take, file>>

(* The child ends: on its own or on the SIGINT, with its file closed or not.*)
RecorderChildExits ==
  /\ recChild \in {"running", "finishing"}
  /\ recChild' = "exited"
  /\ recErr' \in BOOLEAN
  /\ \/ file' = "whole"
     \/ recErr' /\ UNCHANGED file
  /\ UNCHANGED <<rec, reason, take>>

(* orchestrateStop: the select between the exit of the child, the timer of  *)
(* the maximal duration and the context; more than one may be ready.        *)
NaturalExit ==
  /\ rec = "waiting" /\ recChild = "exited"
  /\ IF recErr THEN rec' = "failed" /\ file' = "none"
               ELSE rec' = "checking" /\ UNCHANGED file
  /\ UNCHANGED <<recChild, recErr, reason, take>>

SendStop ==
  /\ rec = "waiting"
  /\ rec' = "signalled"
  /\ recChild' = IF recChild = "running" THEN "finishing" ELSE recChild
  /\ UNCHANGED <<recErr, reason, file, take>>

(* Within the grace any exit counts as a clean stop: SIGINT makes the       *)
(* recorder exit with an error.                                             *)
GracefulExit ==
  /\ rec = "signalled" /\ recChild = "exited"
  /\ rec' = "checking"
  /\ reason' = "graceful"
  /\ UNCHANGED <<recChild, recErr, file, take>>

(* The grace is over: SIGKILL, if the child has not just ended.             *)
GraceExpires ==
  /\ rec = "signalled"
  /\ rec' = "killed"
  /\ reason' = "forced"
  /\ \/ recChild = "exited" /\ UNCHANGED <<recChild, recErr>>
     \/ recChild = "finishing" /\ recChild' = "exited" /\ recErr' = TRUE
  /\ UNCHANGED <<file, take>>

(* Seeded fault: what the kill left is handed on like a clean stop.         *)
ForcedExitIsGraceful ==
  /\ rec = "killed"
  /\ rec' = "checking"
  /\ UNCHANGED <<recChild, recErr, reason, file, take>>

ForcedExit ==
  /\ rec = "killed"
  /\ IF recErr THEN rec' = "failed" /\ file' = "none"
               ELSE rec' = "checking" /\ UNCHANGED file
  /\ UNCHANGED <<recChild, recErr, reason, take>>

(* ValidateAudioFormat reads the header alone: it refuses an empty file,    *)
(* accepts a closed one, and may take either view of one that was cut off.  *)
(* A refused file is removed.                                               *)
CheckRecording ==
  /\ rec = "checking"
  /\ \/ file # "empty" /\ rec' = "ok" /\ UNCHANGED file
     \/ file # "whole" /\ rec' = "failed" /\ file' = "none"
  /\ UNCHANGED <<recChild, recErr, reason, take>>

(* RecordToFile's own steps; whether the context is done is the caller's    *)
(* business, the timer may elapse at any time.                              *)
RecorderGoesOn ==
  NaturalExit \/ GracefulExit \/ GraceExpires \/ ForcedExit \/ CheckRecording
=============================================================================
