-------------------------- MODULE DictationDaemon --------------------------
(***************************************************************************)
(* The daemon around the state machine: the goroutines that ask for a      *)
(* dictation, the goroutine that runs one, the timer that caps its         *)
(* recording and the shutdown path, interleaved the way the locks of       *)
(* internal/infra/daemon/{daemon,cycle}.go let them interleave.  Every     *)
(* Apply is atomic (Machine.mu), every access to the pair                  *)
(* cycleCancel / recordingCancel is atomic (Daemon.cycleMu), and nothing   *)
(* ties one of these to the next.                                          *)
(*                                                                         *)
(* Dictations ("sessions") are numbered as the machine accepts them; the   *)
(* cycle that serves session s is cycle s.  The numbers are ours, the      *)
(* code's goroutines do not know them.                                     *)
(***************************************************************************)
EXTENDS VoiceMachine, Naturals, Sequences

CONSTANTS
  Callers,       \* goroutines that deliver toggles: hotkey device, tray
  MaxSessions    \* bound: dictations the machine accepts

ASSUME SessionsAssumption == MaxSessions \in Nat

Sessions == 1..MaxSessions

VARIABLES
  state,         \* Machine.state
  lastErr,       \* Machine.lastErr: "", or the phase that failed
  at,            \* at[h]: where caller h is in Toggle / applyHotkeyEvent
  mine,          \* mine[h]: the session caller h is about to start, 0 if none
  quiet,         \* has toggleMinInterval passed since lastToggleAt?
  session,       \* number of sessions accepted so far
  registered,    \* the cycle cycleCancel/recordingCancel belong to, 0 for nil
  step,          \* step[c]: where the goroutine of cycle c is
  recordDone,    \* recordDone[c]: c's own recordCtx is cancelled
  cycleDone,     \* cycleDone[c]: c's own cycleCtx is cancelled
  rootDone,      \* the daemon's ctx is cancelled (signal)
  timer,         \* timer[c]: the recording cap of cycle c
  shut,          \* where Shutdown is
  delivered,     \* the texts Output.Deliver put in front of the user
  returned       \* what useCase.Cycle returned last, and to which cycle

machineVars == <<state, lastErr>>
callerVars  == <<at, mine, quiet>>
ctxVars     == <<recordDone, cycleDone, rootDone>>
vars == <<state, lastErr, at, mine, quiet, session, registered, step,
          recordDone, cycleDone, rootDone, timer, shut, delivered, returned>>

(* A caller about to apply an event is at the event's name; "stopToggle" is *)
(* a toggle let through because the machine was seen recording.             *)
CallerSteps == {"ready", "debounce", "toggle", "stopToggle", "start", "stop",
                "startCycle", "cancelRecording"}
Asking(event) == IF event = "toggle" THEN {"toggle", "stopToggle"} ELSE {event}

(* Before "cleanup" the cycle still has events to give the machine.        *)
PipelineSteps == {"record", "transcribe", "deliver"}
ReportSteps   == {"ok", "transcribe_done", "deliver_done", "empty",
                  "empty_result", "failed", "transcribe_failed",
                  "record_failed"}
LiveSteps  == PipelineSteps \cup ReportSteps \cup {"cleanup"}
CycleSteps == {"none", "gone"} \cup LiveSteps

TimerSteps == {"none", "armed", "fired", "cancelling", "over"}
ShutSteps  == {"up", "signalled", "applied", "closing", "done"}
Outcomes   == {"nothing", "ok", "empty", "failed", "record_failed"}

TypeOK ==
  /\ state \in States
  /\ lastErr \in {"", "record", "cycle"}
  /\ at \in [Callers -> CallerSteps]
  /\ mine \in [Callers -> 0..MaxSessions]
  /\ quiet \in BOOLEAN
  /\ session \in 0..MaxSessions
  /\ registered \in 0..MaxSessions
  /\ step \in [Sessions -> CycleSteps]
  /\ recordDone \in [Sessions -> BOOLEAN]
  /\ cycleDone \in [Sessions -> BOOLEAN]
  /\ rootDone \in BOOLEAN
  /\ timer \in [Sessions -> TimerSteps]
  /\ shut \in ShutSteps
  /\ delivered \in Seq(Sessions)
  /\ returned \in [to : 0..MaxSessions, what : Outcomes]

Init ==
  /\ state = "idle"
  /\ lastErr = ""
  /\ at = [h \in Callers |-> "ready"]
  /\ mine = [h \in Callers |-> 0]
  /\ quiet = TRUE
  /\ session = 0
  /\ registered = 0
  /\ step = [c \in Sessions |-> "none"]
  /\ recordDone = [c \in Sessions |-> FALSE]
  /\ cycleDone = [c \in Sessions |-> FALSE]
  /\ rootDone = FALSE
  /\ timer = [c \in Sessions |-> "none"]
  /\ shut = "up"
  /\ delivered = <<>>
  /\ returned = [to |-> 0, what |-> "nothing"]

Live(c) == step[c] \in LiveSteps

(* cycleCtx is derived from the caller's ctx, recordCtx from cycleCtx: a   *)
(* cancelled parent reaches both.                                          *)
CycleCtxDone(c)  == cycleDone[c] \/ rootDone
RecordCtxDone(c) == recordDone[c] \/ CycleCtxDone(c)

-----------------------------------------------------------------------------
(* Machine.Apply and Machine.ApplyWithError.  Rejected events change        *)
(* nothing; an accepted one keeps lastErr only if it leads to "error".      *)

Answer(event) == Transition(state, event)
Accepted(event) == Answer(event).err = "nil"

(* Seeded fault: the message survives the recovery from "error".            *)
ApplyKeepsMessage(event) ==
  /\ state' = Answer(event).state
  /\ lastErr' = lastErr

Apply(event) ==
  /\ state' = Answer(event).state
  /\ lastErr' = IF Accepted(event) /\ Answer(event).state # "error"
                THEN "" ELSE lastErr

ApplyWithError(event, msg) ==
  /\ state' = Answer(event).state
  /\ lastErr' = CASE ~Accepted(event)              -> lastErr
                  [] Answer(event).state = "error"  -> msg
                  [] OTHER                          -> ""

-----------------------------------------------------------------------------
(* A caller: Toggle and the toggle path of HotkeyHandler.                   *)

Goto(h, where) == at' = [at EXCEPT ![h] = where]

(* acceptToggle reads the state on its own, before the debounce lock and    *)
(* before Apply; a toggle seen in "recording" is never rate limited.        *)
ReadState(h) ==
  /\ at[h] = "ready"
  /\ Goto(h, IF state = "recording" THEN "stopToggle" ELSE "debounce")
  /\ UNCHANGED <<state, lastErr, mine, quiet, session, registered, step,
                 recordDone, cycleDone, rootDone, timer, shut,
                 delivered, returned>>

Debounce(h) ==
  /\ at[h] = "debounce"
  /\ quiet' = FALSE
  /\ Goto(h, IF quiet THEN "toggle" ELSE "ready")
  /\ UNCHANGED <<state, lastErr, mine, session, registered, step,
                 recordDone, cycleDone, rootDone, timer, shut,
                 delivered, returned>>

IntervalPasses ==
  /\ ~quiet
  /\ quiet' = TRUE
  /\ UNCHANGED <<state, lastErr, at, mine, session, registered, step,
                 recordDone, cycleDone, rootDone, timer, shut,
                 delivered, returned>>

(* The event is applied and its action remembered for dispatch.  A new      *)
(* session takes the next number; MaxSessions bounds them.                  *)
ApplyEvent(h, event) ==
  /\ at[h] \in Asking(event)
  /\ Apply(event)
  /\ LET action == Answer(event).action
     IN  \/ /\ action = "start_recording"
            /\ session < MaxSessions
            /\ session' = session + 1
            /\ mine' = [mine EXCEPT ![h] = session + 1]
            /\ Goto(h, "startCycle")
         \/ /\ action = "stop_recording"
            /\ Goto(h, "cancelRecording")
            /\ UNCHANGED <<session, mine>>
         \/ /\ action \notin {"start_recording", "stop_recording"}
            /\ Goto(h, "ready")
            /\ UNCHANGED <<session, mine>>
  /\ UNCHANGED <<quiet, registered, step, recordDone, cycleDone, rootDone,
                 timer, shut, delivered, returned>>

(* Seeded fault: startCycle trusts the machine and registers unconditionally. *)
StartCycleUnguarded(h) ==
  /\ at[h] = "startCycle"
  /\ registered' = mine[h]
  /\ step' = [step EXCEPT ![mine[h]] = "record"]
  /\ timer' = [timer EXCEPT ![mine[h]] = "armed"]
  /\ mine' = [mine EXCEPT ![h] = 0]
  /\ Goto(h, "ready")
  /\ UNCHANGED <<state, lastErr, quiet, session, recordDone, cycleDone,
                 rootDone, shut, delivered, returned>>

(* startCycle: under cycleMu it refuses when a cycle is registered, else    *)
(* registers the new one, arms the cap and spawns the goroutine.            *)
StartCycle(h) ==
  /\ at[h] = "startCycle"
  /\ registered = 0
  /\ registered' = mine[h]
  /\ step' = [step EXCEPT ![mine[h]] = "record"]
  /\ timer' = [timer EXCEPT ![mine[h]] = "armed"]
  /\ mine' = [mine EXCEPT ![h] = 0]
  /\ Goto(h, "ready")
  /\ UNCHANGED <<state, lastErr, quiet, session, recordDone, cycleDone,
                 rootDone, shut, delivered, returned>>

RefuseCycle(h) ==
  /\ at[h] = "startCycle"
  /\ registered # 0
  /\ mine' = [mine EXCEPT ![h] = 0]
  /\ Goto(h, "ready")
  /\ UNCHANGED <<state, lastErr, quiet, session, registered, step,
                 recordDone, cycleDone, rootDone, timer, shut,
                 delivered, returned>>

(* cancelRecordingPhase cancels whatever recording is registered by now.    *)
CancelRegisteredRecording ==
  recordDone' = IF registered = 0 THEN recordDone
                ELSE [recordDone EXCEPT ![registered] = TRUE]

CancelRecording(h) ==
  /\ at[h] = "cancelRecording"
  /\ CancelRegisteredRecording
  /\ Goto(h, "ready")
  /\ UNCHANGED <<state, lastErr, mine, quiet, session, registered, step,
                 cycleDone, rootDone, timer, shut, delivered, returned>>

Caller(h) ==
  \/ ReadState(h)
  \/ Debounce(h)
  \/ ApplyEvent(h, "toggle")
  \/ StartCycle(h)
  \/ RefuseCycle(h)
  \/ CancelRecording(h)

-----------------------------------------------------------------------------
(* The recording cap: time.AfterFunc runs its callback in a goroutine of    *)
(* its own, so the callback may be late.                                    *)

TimerFires(c) ==
  /\ timer[c] = "armed"
  /\ timer' = [timer EXCEPT ![c] = "fired"]
  /\ UNCHANGED <<state, lastErr, at, mine, quiet, session, registered, step,
                 recordDone, cycleDone, rootDone, shut, delivered, returned>>

TimerApplies(c) ==
  /\ timer[c] = "fired"
  /\ Apply("timeout")
  /\ timer' = [timer EXCEPT
                 ![c] = IF Accepted("timeout") THEN "cancelling" ELSE "over"]
  /\ UNCHANGED <<at, mine, quiet, session, registered, step,
                 recordDone, cycleDone, rootDone, shut, delivered, returned>>

TimerCancels(c) ==
  /\ timer[c] = "cancelling"
  /\ CancelRegisteredRecording
  /\ timer' = [timer EXCEPT ![c] = "over"]
  /\ UNCHANGED <<state, lastErr, at, mine, quiet, session, registered, step,
                 cycleDone, rootDone, shut, delivered, returned>>

-----------------------------------------------------------------------------
(* The goroutine of a cycle: useCase.Cycle, then what it reports.           *)

StepTo(c, where) == step' = [step EXCEPT ![c] = where]

(* useCase.Cycle returns to the goroutine, or has a phase to go.            *)
Returns(c, what) ==
  /\ StepTo(c, what)
  /\ returned' = [to |-> c, what |-> what]

Proceeds(c, phase) ==
  /\ StepTo(c, phase)
  /\ UNCHANGED returned

(* The recorder ends when it is cancelled, when its own MaxDuration is up   *)
(* or when its subprocess dies; either way the file may be unusable.        *)
(* Audio in hand, a cancelled cycle goes no further.                        *)
RecordEnds(c) ==
  /\ step[c] = "record"
  /\ \/ Returns(c, "record_failed")
     \/ CycleCtxDone(c) /\ Returns(c, "failed")
     \/ ~CycleCtxDone(c) /\ Proceeds(c, "transcribe")
  /\ UNCHANGED <<state, lastErr, at, mine, quiet, session, registered,
                 recordDone, cycleDone, rootDone, timer, shut, delivered>>

TranscribeEnds(c) ==
  /\ step[c] = "transcribe"
  /\ \/ Returns(c, "failed")
     \/ Returns(c, "empty")
     \/ ~CycleCtxDone(c) /\ Proceeds(c, "deliver")
  /\ UNCHANGED <<state, lastErr, at, mine, quiet, session, registered,
                 recordDone, cycleDone, rootDone, timer, shut, delivered>>

(* Seeded fault: a delivery that failed half-way is tried again.            *)
DeliverEndsRetrying(c) ==
  /\ step[c] = "deliver"
  /\ \/ Returns(c, "ok")
     \/ Returns(c, "failed")
     \/ Proceeds(c, "deliver")
  /\ delivered' = Append(delivered, c)
  /\ Len(delivered) < 2 * MaxSessions
  /\ UNCHANGED <<state, lastErr, at, mine, quiet, session, registered,
                 recordDone, cycleDone, rootDone, timer, shut>>

(* Output.Deliver may fail with the text already in front of the user: on   *)
(* the clipboard when the autopaste is refused, or typed when the paste     *)
(* tool is killed at its time limit.                                        *)
DeliverEnds(c) ==
  /\ step[c] = "deliver"
  /\ \/ /\ Returns(c, "ok")
        /\ delivered' = Append(delivered, c)
     \/ /\ Returns(c, "failed")
        /\ delivered' \in {delivered, Append(delivered, c)}
  /\ UNCHANGED <<state, lastErr, at, mine, quiet, session, registered,
                 recordDone, cycleDone, rootDone, timer, shut>>

(* Seeded fault: the report is sent without the bridge.                     *)
BridgeSkipped(c) ==
  /\ \/ /\ step[c] = "ok"
        /\ StepTo(c, "transcribe_done")
     \/ /\ step[c] = "empty"
        /\ StepTo(c, "empty_result")
     \/ /\ step[c] = "failed"
        /\ StepTo(c, "transcribe_failed")
  /\ UNCHANGED <<state, lastErr, at, mine, quiet, session, registered,
                 recordDone, cycleDone, rootDone, timer, shut,
                 delivered, returned>>

(* The cycle is over while the machine may still say "recording": the       *)
(* bridge applies "timeout" and takes a rejection for an answer.            *)
Bridge(c) ==
  /\ Apply("timeout")
  /\ \/ /\ step[c] = "ok"
        /\ StepTo(c, "transcribe_done")
     \/ /\ step[c] = "empty"
        /\ StepTo(c, "empty_result")
     \/ /\ step[c] = "failed"
        /\ StepTo(c, "transcribe_failed")
  /\ UNCHANGED <<at, mine, quiet, session, registered, recordDone, cycleDone,
                 rootDone, timer, shut, delivered, returned>>

ReportTranscribeDone(c) ==
  /\ step[c] = "transcribe_done"
  /\ Apply("transcribe_done")
  /\ StepTo(c, IF Accepted("transcribe_done") THEN "deliver_done"
                                               ELSE "cleanup")
  /\ UNCHANGED <<at, mine, quiet, session, registered, recordDone, cycleDone,
                 rootDone, timer, shut, delivered, returned>>

ReportDeliverDone(c) ==
  /\ step[c] = "deliver_done"
  /\ Apply("deliver_done")
  /\ StepTo(c, "cleanup")
  /\ UNCHANGED <<at, mine, quiet, session, registered, recordDone, cycleDone,
                 rootDone, timer, shut, delivered, returned>>

ReportEmpty(c) ==
  /\ step[c] = "empty_result"
  /\ Apply("empty_result")
  /\ StepTo(c, "cleanup")
  /\ UNCHANGED <<at, mine, quiet, session, registered, recordDone, cycleDone,
                 rootDone, timer, shut, delivered, returned>>

ReportFailure(c) ==
  /\ \/ /\ step[c] = "transcribe_failed"
        /\ ApplyWithError("transcribe_failed", "cycle")
     \/ /\ step[c] = "record_failed"
        /\ ApplyWithError("record_failed", "record")
  /\ StepTo(c, "cleanup")
  /\ UNCHANGED <<at, mine, quiet, session, registered, recordDone, cycleDone,
                 rootDone, timer, shut, delivered, returned>>

(* The deferred function: stop the timer if it has not fired, forget the    *)
(* registration, cancel both contexts.                                      *)
Cleanup(c) ==
  /\ step[c] = "cleanup"
  /\ StepTo(c, "gone")
  /\ timer' = [timer EXCEPT ![c] = IF @ = "armed" THEN "over" ELSE @]
  /\ registered' = 0
  /\ recordDone' = [recordDone EXCEPT ![c] = TRUE]
  /\ cycleDone' = [cycleDone EXCEPT ![c] = TRUE]
  /\ UNCHANGED <<state, lastErr, at, mine, quiet, session, rootDone, shut,
                 delivered, returned>>

Cycle(c) ==
  \/ RecordEnds(c)
  \/ TranscribeEnds(c)
  \/ DeliverEnds(c)
  \/ Bridge(c)
  \/ ReportTranscribeDone(c)
  \/ ReportDeliverDone(c)
  \/ ReportEmpty(c)
  \/ ReportFailure(c)
  \/ Cleanup(c)

-----------------------------------------------------------------------------
(* Serve's watcher: the root ctx is cancelled, then Shutdown moves the       *)
(* machine, cancels the registered cycle and closes the resources.           *)

Signal ==
  /\ shut = "up"
  /\ shut' = "signalled"
  /\ rootDone' = TRUE
  /\ UNCHANGED <<state, lastErr, at, mine, quiet, session, registered, step,
                 recordDone, cycleDone, timer, delivered, returned>>

ShutdownApplies ==
  /\ shut = "signalled"
  /\ Apply("shutdown")
  /\ shut' = "applied"
  /\ UNCHANGED <<at, mine, quiet, session, registered, step, recordDone,
                 cycleDone, rootDone, timer, delivered, returned>>

ShutdownCancels ==
  /\ shut = "applied"
  /\ CancelRegisteredRecording
  /\ cycleDone' = IF registered = 0 THEN cycleDone
                  ELSE [cycleDone EXCEPT ![registered] = TRUE]
  /\ shut' = "closing"
  /\ UNCHANGED <<state, lastErr, at, mine, quiet, session, registered, step,
                 rootDone, timer, delivered, returned>>

ShutdownCloses ==
  /\ shut = "closing"
  /\ shut' = "done"
  /\ UNCHANGED <<state, lastErr, at, mine, quiet, session, registered, step,
                 recordDone, cycleDone, rootDone, timer, delivered, returned>>

Shutdown == ShutdownApplies \/ ShutdownCancels \/ ShutdownCloses

-----------------------------------------------------------------------------
Timer(c) == TimerFires(c) \/ TimerApplies(c) \/ TimerCancels(c)

Next ==
  \/ \E h \in Callers : Caller(h)
  \/ \E c \in Sessions : Timer(c)
  \/ \E c \in Sessions : Cycle(c)
  \/ IntervalPasses
  \/ Signal
  \/ Shutdown

Spec == Init /\ [][Next]_vars

(* A goroutine that can take a step takes it: a caller already inside its   *)
(* handler, the timers, the cycles (the recorder has its MaxDuration and    *)
(* the transcriber its own deadline) and Shutdown once it is asked for.     *)
(* The user and the signal owe nothing.                                     *)
CallerContinues(h) == at[h] # "ready" /\ Caller(h)

Fairness ==
  /\ \A h \in Callers : WF_vars(CallerContinues(h))
  /\ \A c \in Sessions : WF_vars(Timer(c)) /\ WF_vars(Cycle(c))
  /\ WF_vars(Shutdown)

FairSpec == Spec /\ Fairness

-----------------------------------------------------------------------------
(* Properties.                                                             *)

(* Never two cycles at once: from the moment startCycle spawns a goroutine  *)
(* until its deferred cleanup, no other goroutine records, transcribes or   *)
(* delivers, although the machine is back in "idle" before the cleanup.     *)
OneCycle == \A c, d \in Sessions : Live(c) /\ Live(d) => c = d

(* cancelRecordingPhase, cancelCycle and Shutdown reach the cycle that is   *)
(* running, and a cancel they hold belongs to a cycle that is running.      *)
Registration == \A c \in Sessions : Live(c) <=> registered = c

(* Why a completion is never foreign: a session is accepted only after the  *)
(* one before it reported its last event, so at most one caller is about to *)
(* start a cycle, always the current session's, and the only cycle with     *)
(* events left to report is the current session's too.                      *)
Engaged(c) == step[c] \in PipelineSteps \cup ReportSteps

PendingStartIsCurrent ==
  \A h \in Callers : at[h] = "startCycle" =>
    /\ mine[h] = session /\ session \in Sessions
    /\ step[session] = "none"
    /\ \A g \in Callers : at[g] = "startCycle" => g = h
    /\ state \notin {"idle", "error"}

EngagedIsCurrent ==
  \A c \in Sessions :
    /\ Engaged(c) => c = session /\ state \notin {"idle", "error"}
    /\ c > session => step[c] = "none"

DeliveredIsPast ==
  \A i \in DOMAIN delivered :
    /\ delivered[i] <= session
    /\ step[delivered[i]] \notin {"none"} \cup PipelineSteps

SessionOrder == PendingStartIsCurrent /\ EngagedIsCurrent /\ DeliveredIsPast

(* What the machine shows at rest is what useCase.Cycle really returned for *)
(* the last dictation, however the bridges, the cap, the toggles and the    *)
(* earlier cycles' goroutines came between: "error" is a failure of that    *)
(* dictation, with the message of the phase that failed, "idle" is its      *)
(* delivered or empty text, and LastError has a message exactly in "error". *)
(* An error may be shown for a text that did reach the user: Deliver can    *)
(* fail after the text is out.                                              *)
ErrorIsHonest ==
  /\ state = "error" <=> lastErr # ""
  /\ state \in {"idle", "error"} => returned.to = session
  /\ state = "error" =>
       returned.what = IF lastErr = "record" THEN "record_failed" ELSE "failed"
  /\ state = "idle" /\ session # 0 =>
       \/ returned.what = "empty"
       \/ /\ returned.what = "ok"
          /\ \E i \in DOMAIN delivered : delivered[i] = session

(* What a cycle reports moves the machine only within the dictation that    *)
(* cycle serves: no late completion lands in the recording of a later one.  *)
NoForeignCompletion ==
  [][\A c \in Sessions :
        step[c] \in ReportSteps /\ step'[c] # step[c] /\ state' # state
          => c = session]_vars

(* Once the audio of a dictation is captured, the machine comes to rest:    *)
(* whatever the transcriber and the output answer, and whether or not the   *)
(* timer or a toggle moved the machine first.                               *)
AtRest == state \in {"idle", "error", "shutting_down"}
CapturedComesToRest ==
  \A c \in Sessions : step[c] \in {"transcribe", "deliver"} ~> AtRest

(* The daemon implements the contract: one holder of the pipeline, text     *)
(* delivered at most once per dictation and in the order of dictation.      *)
Stage ==
  IF registered = 0 THEN "idle"
  ELSE CASE step[registered] = "record"                    -> "capture"
         [] step[registered] \in {"transcribe", "deliver"} -> "process"
         [] OTHER                                          -> "finish"

Contract == INSTANCE DictationContract WITH
              MaxSessions <- MaxSessions, holder <- registered,
              stage <- Stage,
              delivered <- delivered

ImplementsContract == Contract!Spec

-----------------------------------------------------------------------------
(* What the comments say and the interleavings do not keep.                *)

(* cycle.go:289-295: with the bridges no cycle leaves the daemon wedged.    *)
EveryDictationComesToRest ==
  (session > 0 /\ ~AtRest) ~> AtRest

=============================================================================
