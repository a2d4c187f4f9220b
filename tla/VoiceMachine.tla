---------------------------- MODULE VoiceMachine ----------------------------
(***************************************************************************)
(* The dictation state machine as a pure table: what                       *)
(* internal/usecases/voice/state_machine.go answers to every event in      *)
(* every state.  An answer says whether the event was accepted, the state  *)
(* the machine is in afterwards and the action the daemon must dispatch;   *)
(* a rejected event leaves the state alone and asks for no action.         *)
(***************************************************************************)

States == {"idle", "recording", "transcribing", "delivering", "error",
           "shutting_down"}

(* What the daemon, the hotkey and the tray may ask for, and what a cycle   *)
(* reports about itself.                                                    *)
Events == {"toggle", "start", "stop", "timeout", "record_failed",
           "transcribe_done", "transcribe_failed", "empty_result",
           "deliver_done", "shutdown"}

Actions == {"none", "start_recording", "stop_recording", "discard_audio",
            "finish_cycle", "shutdown_now"}

Accept(next, action) == [err |-> "nil", state |-> next, action |-> action]
Busy(current) == [err |-> "busy", state |-> current, action |-> "none"]

(* The events each state accepts; every other event is answered ErrBusy.    *)

FromRest ==
  [toggle   |-> Accept("recording", "start_recording"),
   start    |-> Accept("recording", "start_recording"),
   shutdown |-> Accept("shutting_down", "shutdown_now")]

FromRecording ==
  [toggle        |-> Accept("transcribing", "stop_recording"),
   stop          |-> Accept("transcribing", "stop_recording"),
   timeout       |-> Accept("transcribing", "stop_recording"),
   record_failed |-> Accept("error", "none"),
   shutdown      |-> Accept("shutting_down", "discard_audio")]

(* Seeded fault: a toggle during transcription starts over at once.         *)
FromTranscribingBargeIn ==
  [transcribe_done   |-> Accept("delivering", "none"),
   transcribe_failed |-> Accept("error", "none"),
   empty_result      |-> Accept("idle", "finish_cycle"),
   toggle            |-> Accept("recording", "start_recording"),
   shutdown          |-> Accept("shutting_down", "shutdown_now")]

FromTranscribing ==
  [transcribe_done   |-> Accept("delivering", "none"),
   transcribe_failed |-> Accept("error", "none"),
   empty_result      |-> Accept("idle", "finish_cycle"),
   shutdown          |-> Accept("shutting_down", "shutdown_now")]

FromDelivering ==
  [deliver_done |-> Accept("idle", "finish_cycle"),
   shutdown     |-> Accept("shutting_down", "shutdown_now")]

FromShuttingDown == [event \in {} |-> Busy("shutting_down")]

Table == [idle          |-> FromRest,
          error         |-> FromRest,
          recording     |-> FromRecording,
          transcribing  |-> FromTranscribing,
          delivering    |-> FromDelivering,
          shutting_down |-> FromShuttingDown]

Transition(state, event) ==
  IF event \in DOMAIN Table[state] THEN Table[state][event] ELSE Busy(state)

=============================================================================
