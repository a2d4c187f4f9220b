--------------------------- MODULE StreamingCycle ---------------------------
(***************************************************************************)
(* One dictation with a streaming transcriber                               *)
(* (internal/usecases/voice/streaming.go): the recorder writes the WAV, a   *)
(* second capture, the side channel, pipes audio to the live session, and a *)
(* side channel that cannot start leaves the sequential path.               *)
(***************************************************************************)
EXTENDS Recorder, DeepgramStream

CONSTANT MaxWords   \* bound: words the user says

ASSUME WordsAssumption == MaxWords \in Nat

Words == 1..MaxWords

VARIABLES
  spoken,      \* how many words were said
  cyc,         \* where the goroutine of Cycle is
  streaming,   \* did the side channel start
  pcm,         \* the side channel's child
  pcmStopped,  \* did this program interrupt it
  recordDone,  \* is recordCtx cancelled
  ctxDone,     \* is ctx cancelled; recordCtx is derived from it
  outcome,     \* what Cycle is going to return
  delivered    \* what Deliver was given

pcmVars == <<pcm, pcmStopped>>
ctxVars == <<recordDone, ctxDone>>
vars == <<rec, recChild, recErr, reason, file, take, streamer, pipe, pipeEnd,
          link, sent, answered, interim, inbox, hand, segment, late, finals,
          drainEnded, text, streamErr, spoken, cyc, streaming, pcm, pcmStopped,
          recordDone, ctxDone, outcome, delivered>>

CycleSteps == {"begin", "grace", "record", "tail", "closing", "awaiting",
               "deliver", "cleanup", "done"}

(* "record", "transcribe" and "deliver" are the phases of a CycleError,     *)
(* "empty" is ErrEmptyResult.                                               *)
Outcomes == {"none", "record", "transcribe", "deliver", "empty", "text"}

TypeOK ==
  /\ RecorderType /\ take \in Seq(Words)
  /\ SessionType(Words)
  /\ spoken \in 0..MaxWords
  /\ cyc \in CycleSteps
  /\ streaming \in BOOLEAN
  /\ pcm \in ChildStates
  /\ pcmStopped \in BOOLEAN
  /\ recordDone \in BOOLEAN /\ ctxDone \in BOOLEAN
  /\ outcome \in Outcomes
  /\ delivered \in Seq(Words)

Init ==
  /\ RecorderInit
  /\ SessionInit
  /\ spoken = 0
  /\ cyc = "begin" /\ streaming = FALSE
  /\ pcm = "none" /\ pcmStopped = FALSE
  /\ recordDone = FALSE /\ ctxDone = FALSE
  /\ outcome = "none" /\ delivered = <<>>

-----------------------------------------------------------------------------
(* Around the program: the user and the children.                           *)

(* A word reaches every capture that runs.                                  *)
Speak ==
  /\ spoken < MaxWords
  /\ spoken' = spoken + 1
  /\ RecorderHears(spoken + 1)
  /\ pipe' = IF pcm = "running" /\ pipeEnd = "open"
             THEN Append(pipe, spoken + 1) ELSE pipe
  /\ UNCHANGED <<rec, recChild, recErr, reason, streamer, pipeEnd, link, inbox,
                 drainEnded, text, streamErr, cyc, streaming, outcome, delivered>>
  /\ UNCHANGED ServerVars /\ UNCHANGED HandlerVars
  /\ UNCHANGED pcmVars /\ UNCHANGED ctxVars

(* The user stops the recording: recordCtx.                                 *)
Stop ==
  /\ cyc # "done" /\ ~recordDone
  /\ recordDone' = TRUE
  /\ UNCHANGED <<ctxDone, spoken, cyc, streaming, outcome, delivered>>
  /\ UNCHANGED recVars /\ UNCHANGED dgVars /\ UNCHANGED pcmVars

(* The dictation is discarded, or the daemon shuts down.                    *)
Discard ==
  /\ cyc # "done" /\ ~ctxDone
  /\ ctxDone' = TRUE /\ recordDone' = TRUE
  /\ UNCHANGED <<spoken, cyc, streaming, outcome, delivered>>
  /\ UNCHANGED recVars /\ UNCHANGED dgVars /\ UNCHANGED pcmVars

(* The side channel's child ends, interrupted or not.                       *)
SideChannelExits ==
  /\ pcm \in {"running", "finishing"}
  /\ pcm' = "exited"
  /\ pipeEnd' = IF pipeEnd = "open" THEN "eof" ELSE pipeEnd
  /\ UNCHANGED <<pipe, streamer, link, inbox, drainEnded, text, streamErr, spoken,
                 pcmStopped, cyc, streaming, outcome, delivered>>
  /\ UNCHANGED ServerVars /\ UNCHANGED HandlerVars
  /\ UNCHANGED recVars /\ UNCHANGED ctxVars

-----------------------------------------------------------------------------
(* The goroutine of Cycle.                                                  *)

(* startStreamingPCM; the streamer's goroutine starts with it.              *)
BeginCycle ==
  /\ cyc = "begin"
  /\ cyc' = "grace"
  /\ \/ /\ streaming' = TRUE /\ pcm' = "running" /\ streamer' = "connecting"
     \/ UNCHANGED <<streaming, pcm, streamer>>
  /\ UNCHANGED <<pcmStopped, pipe, pipeEnd, link, inbox, drainEnded, text,
                 streamErr, spoken, outcome, delivered>>
  /\ UNCHANGED ServerVars /\ UNCHANGED HandlerVars
  /\ UNCHANGED recVars /\ UNCHANGED ctxVars

(* 200 ms later, with a side channel; at once without.                      *)
BeginRecording ==
  /\ cyc = "grace"
  /\ cyc' = "record"
  /\ StartRecording
  /\ UNCHANGED <<spoken, streaming, outcome, delivered>>
  /\ UNCHANGED dgVars /\ UNCHANGED pcmVars /\ UNCHANGED ctxVars

(* The recorder is stopped by recordCtx or by its own timer.                *)
StopRecorder ==
  /\ cyc = "record" /\ SendStop
  /\ UNCHANGED <<spoken, cyc, streaming, outcome, delivered>>
  /\ UNCHANGED dgVars /\ UNCHANGED pcmVars /\ UNCHANGED ctxVars

RecorderRuns ==
  /\ RecorderGoesOn
  /\ UNCHANGED <<spoken, cyc, streaming, outcome, delivered>>
  /\ UNCHANGED dgVars /\ UNCHANGED pcmVars /\ UNCHANGED ctxVars

RecorderExits ==
  /\ RecorderChildExits
  /\ UNCHANGED <<spoken, cyc, streaming, outcome, delivered>>
  /\ UNCHANGED dgVars /\ UNCHANGED pcmVars /\ UNCHANGED ctxVars

(* shutdown of the side channel, up to its wait: its output is closed, its  *)
(* child interrupted.                                                       *)
Interrupt ==
  /\ pcm' = IF pcm = "running" THEN "finishing" ELSE pcm
  /\ pcmStopped' = TRUE

CloseSideChannel ==
  /\ Interrupt
  /\ pipeEnd' = "closed"
  /\ cyc' = "closing"
  /\ UNCHANGED <<pipe, streamer, link, inbox, drainEnded, text, streamErr, spoken, streaming, delivered>>
  /\ UNCHANGED ServerVars /\ UNCHANGED HandlerVars /\ UNCHANGED ctxVars

(* Seeded fault: a failed recording leaves the side channel open.           *)
RecordFailsUnclosed ==
  /\ cyc = "record" /\ rec = "failed"
  /\ outcome' = "record"
  /\ IF streaming THEN cyc' = "awaiting" ELSE cyc' = "done"
  /\ UNCHANGED <<spoken, streaming, delivered>>
  /\ UNCHANGED dgVars /\ UNCHANGED pcmVars
  /\ UNCHANGED recVars /\ UNCHANGED ctxVars

RecordFails ==
  /\ cyc = "record" /\ rec = "failed"
  /\ outcome' = "record"
  /\ IF streaming
     THEN CloseSideChannel
     ELSE /\ cyc' = "done"
          /\ UNCHANGED <<spoken, streaming, delivered>>
          /\ UNCHANGED dgVars /\ UNCHANGED pcmVars /\ UNCHANGED ctxVars
  /\ UNCHANGED recVars

(* A recording for the sequential path: the streaming transcriber sends the *)
(* file instead.                                                            *)
Transcribe ==
  /\ cyc = "record" /\ rec = "ok" /\ ~streaming
  /\ IF ctxDone
     THEN /\ cyc' = "cleanup" /\ outcome' = "transcribe"
          /\ UNCHANGED <<streamer, pipe, pipeEnd>>
     ELSE /\ cyc' = "awaiting" /\ UNCHANGED outcome
          /\ streamer' = "connecting" /\ pipe' = take /\ pipeEnd' = "eof"
  /\ UNCHANGED <<link, inbox, drainEnded, text, streamErr, spoken, streaming, delivered>>
  /\ UNCHANGED ServerVars /\ UNCHANGED HandlerVars
  /\ UNCHANGED recVars /\ UNCHANGED pcmVars /\ UNCHANGED ctxVars

(* A recording for the streaming path: the tail grace begins.               *)
RecordSucceeds ==
  /\ cyc = "record" /\ rec = "ok" /\ streaming
  /\ cyc' = "tail"
  /\ UNCHANGED <<spoken, streaming, outcome, delivered>>
  /\ UNCHANGED dgVars /\ UNCHANGED recVars /\ UNCHANGED pcmVars /\ UNCHANGED ctxVars

(* waitTailGrace returns, by its time or by the context.                    *)
TailGraceEnds ==
  /\ cyc = "tail"
  /\ CloseSideChannel
  /\ UNCHANGED outcome /\ UNCHANGED recVars

(* The rest of shutdown: the child ended, or is killed when the grace is    *)
(* over.  finaliseStream looks at the context before it waits.              *)
SideChannelClosed ==
  /\ cyc = "closing"
  /\ pcm' = "exited"
  /\ cyc' = "awaiting"
  /\ outcome' = IF ctxDone /\ outcome = "none" THEN "transcribe" ELSE outcome
  /\ UNCHANGED <<pcmStopped, spoken, streaming, delivered>>
  /\ UNCHANGED dgVars /\ UNCHANGED recVars /\ UNCHANGED ctxVars

(* The answer of the streamer: an error counts only on the sequential path, *)
(* where Transcribe returns it.                                             *)
StreamerAnswers ==
  /\ cyc = "awaiting" /\ streamer = "returned"
  /\ outcome' = IF outcome # "none" THEN outcome
                ELSE IF streamErr /\ ~streaming THEN "transcribe"
                ELSE IF text = <<>> THEN "empty"
                ELSE IF ctxDone THEN "deliver"
                ELSE "none"
  /\ cyc' = IF outcome' = "none" THEN "deliver"
            ELSE IF outcome' = "record" THEN "done" ELSE "cleanup"
  /\ UNCHANGED <<spoken, streaming, delivered>>
  /\ UNCHANGED dgVars /\ UNCHANGED recVars /\ UNCHANGED pcmVars /\ UNCHANGED ctxVars

Deliver ==
  /\ cyc = "deliver"
  /\ cyc' = "cleanup"
  /\ \/ outcome' = "text" /\ delivered' = text
     \/ outcome' = "deliver" /\ UNCHANGED delivered
  /\ UNCHANGED <<spoken, streaming>>
  /\ UNCHANGED dgVars /\ UNCHANGED recVars /\ UNCHANGED pcmVars /\ UNCHANGED ctxVars

(* Seeded fault: the recording is kept when its dictation was cancelled.    *)
CleanUpUnlessCancelled ==
  /\ cyc = "cleanup"
  /\ cyc' = "done"
  /\ file' = IF ctxDone THEN file ELSE "none"
  /\ UNCHANGED <<rec, recChild, recErr, reason, take, spoken, streaming, outcome, delivered>>
  /\ UNCHANGED dgVars /\ UNCHANGED pcmVars /\ UNCHANGED ctxVars

(* archiveAndCleanup, deferred once the recording is there.                 *)
CleanUp ==
  /\ cyc = "cleanup"
  /\ cyc' = "done"
  /\ file' = "none"
  /\ UNCHANGED <<rec, recChild, recErr, reason, take, spoken, streaming, outcome, delivered>>
  /\ UNCHANGED dgVars /\ UNCHANGED pcmVars /\ UNCHANGED ctxVars

-----------------------------------------------------------------------------
(* Seeded fault: the side channel is bound to recordCtx.                    *)
WatchRecordCancel ==
  /\ recordDone /\ pcm = "running" /\ ~pcmStopped
  /\ Interrupt
  /\ UNCHANGED <<spoken, cyc, streaming, outcome, delivered>>
  /\ UNCHANGED dgVars /\ UNCHANGED recVars /\ UNCHANGED ctxVars

(* watchCancel: the side channel is bound to ctx.                           *)
WatchCancel ==
  /\ ctxDone /\ pcm = "running" /\ ~pcmStopped
  /\ Interrupt
  /\ UNCHANGED <<spoken, cyc, streaming, outcome, delivered>>
  /\ UNCHANGED dgVars /\ UNCHANGED recVars /\ UNCHANGED ctxVars

OthersUnchanged ==
  /\ UNCHANGED <<spoken, cyc, streaming, outcome, delivered>>
  /\ UNCHANGED recVars /\ UNCHANGED pcmVars /\ UNCHANGED ctxVars

StreamerRuns == StreamGoesOn /\ OthersUnchanged
ServerRuns   == (ServerAnswers \/ LinkIsLost) /\ OthersUnchanged
HandlerRuns  == HandlerGoesOn /\ OthersUnchanged

CycleRuns ==
  \/ BeginCycle \/ BeginRecording \/ StopRecorder
  \/ RecordFails \/ Transcribe \/ RecordSucceeds \/ TailGraceEnds
  \/ SideChannelClosed \/ StreamerAnswers \/ Deliver \/ CleanUp

Next ==
  \/ Speak \/ Stop \/ Discard \/ SideChannelExits \/ WatchCancel
  \/ CycleRuns \/ RecorderRuns \/ RecorderExits \/ StreamerRuns \/ ServerRuns \/ HandlerRuns

Spec == Init /\ [][Next]_vars

(* Go runs what can run; the recorder's timer elapses (the daemon always    *)
(* gives a maximal duration), and so do the graces and the drain window.    *)
(* Nothing is assumed of the user, the server or the side channel's child.  *)
FairSpec ==
  /\ Spec
  /\ WF_vars(CycleRuns) /\ WF_vars(RecorderRuns)
  /\ WF_vars(StreamerRuns) /\ WF_vars(HandlerRuns)

-----------------------------------------------------------------------------
(* What was said is delivered at most once and in the order it was said:    *)
(* interim results, late finals and the sequential path add nothing twice.  *)
SpokenOnce ==
  \A i, j \in 1..Len(delivered) : i < j => delivered[i] < delivered[j]

(* The text is what the handler kept until the drain window ended, but for  *)
(* one final: the one it was handling, which loaded drainEnded before the   *)
(* end and takes the mutex after the text was read.                         *)
AtMostOneSlips ==
  streamer = "returned" /\ ~streamErr =>
    /\ Len(finals) - Len(text) \in {0, 1}
    /\ text = SubSeq(finals, 1, Len(text))

(* As long as the recorder listens, the program does not stop the side      *)
(* channel, unless the dictation is discarded: the last word is in flight.  *)
SideChannelOutlivesRecorder ==
  recChild \in {"running", "finishing"} /\ ~ctxDone => ~pcmStopped

(* The Recorder's contract (interfaces.go:63-73): a file on success, none   *)
(* after an error; an error is the child's fault, and an error of the child *)
(* is forgiven only to one that was asked to stop and did.                  *)
RecorderContract ==
  /\ rec = "failed" => file = "none" /\ (recErr \/ recChild = "none")
  /\ rec = "ok" => /\ cyc # "done" => file \in {"cut", "whole"}
                   /\ recErr => reason = "graceful"

(* When Cycle returns, nothing of the dictation is left: no child, no       *)
(* goroutine of the streamer, no recording in the temporary directory.      *)
CleanReturn ==
  cyc = "done" =>
    /\ {recChild, pcm} \subseteq {"none", "exited"}
    /\ streamer \in {"none", "returned"}
    /\ file = "none"

(* Every dictation returns, stopped, discarded or forgotten: no wait of     *)
(* this pipeline lasts for ever.                                            *)
CycleReturns == <>(cyc = "done")
=============================================================================
