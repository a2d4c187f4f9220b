# A verification development for a2text

a2text is a desktop dictation daemon: a hotkey or a tray click starts a
recording, a second one (or a release, or a cap) ends it, a speech-to-text
backend turns the audio into text, and the text is put on the clipboard and
pasted into the focused window. This directory holds TLA+ specifications of
the parts of it whose correctness depends on an order of events, the TLC
configurations that check them on small instances, and proofs, checked by
TLAPS, of what holds for instances of any size.

Paths below are relative to the repository root (`src/` in `PROJECT.json`).

## 1. Inventory

| Component | State it keeps | Operations | Talks to |
|---|---|---|---|
| State machine (`internal/usecases/voice/state_machine.go`, `internal/domain/state.go`) | `state`, `lastErr` under `Machine.mu` | `Apply`, `ApplyWithError`, `State`, `LastError` | calls its listener after unlocking |
| Daemon (`internal/infra/daemon/daemon.go`, `cycle.go`) | `cycleCancel`, `recordingCancel` under `cycleMu`; `lastToggleAt` under `toggleMu`; config, transcriber and hotkey under `reloadMu` | `Toggle`, `HotkeyHandler`, `startCycle`, the recording cap, `handleCycleError`, `advanceCycleSuccess`, `Shutdown`, `ReloadConfig` | everything |
| Hold gate (`daemon/hold_gate.go`) | `timer`, `fired`, `pressAt` under `mu` | `OnPress`, `OnRelease`, the timer's callback | daemon |
| Hotkey (`pkg/hotkey/evdev_linux.go`) | pressed modifiers and main key under a mutex, one reader goroutine per input device | `Listen`, `Stop`, `handleKey` | calls the daemon's handler |
| Dictation use case (`internal/usecases/voice/voice.go`, `streaming.go`) | transcriber and output held in atomics | `Cycle`, `SwapTranscriber`, `SwapOutput` | recorder, transcriber, output |
| Recorder (`pkg/capture/subprocess_linux.go`) | a child process, a stop orchestrator | `RecordToFile`, `Run` | arecord/ffmpeg |
| Output (`internal/adapters/output`) | pre-snapshot slot, counters of restores | `Deliver`, `PreSnapshot`, background restore | clipboard, paste tool |
| Speech to text (`pkg/stt`) | model handle and its lock (whisper), websocket session (Deepgram) | `Transcribe`, `ReloadModel`, `Close`, `Stream`; retry and fallback decorators | HTTP, cgo |
| Factories (`internal/infra/factory`) | none | build transcribers (silence gate, retry, fallback), outputs, archives | stt, output |
| systemd integration (`internal/infra/sysd`) | `ready`, `stopped` of the notifier; lock file | `Ready`, `Stopping`, `SetStatus`, `AcquireDaemonLock`, `Release` | `NOTIFY_SOCKET`, `flock` |
| Tray (`internal/adapters/tray`) | displayed state | state channel relay, menu clicks | daemon, settings |
| Settings (`internal/adapters/settings`) | edited config, debounced auto-saver | `Schedule`, `Flush`, `save` | config file, daemon reload |
| Configuration (`internal/infra/config`) | a YAML file | load, validate, `SaveConfig` | disk |
| Model download (`pkg/whispercpp/download.go`) | `.partial` file, final file | `Download` over several sources | HTTP, disk |
| Audio (`pkg/audio`, `pkg/audio/wav`) | none | convert, probe, RMS, WAV headers, splitting | ffmpeg |
| Clipboard backends (`pkg/clipboard`) | none | read, write, paste | wl-clipboard, xclip, uinput |
| Session files (`daemon/tempclean.go`, `pkg/audioarchive`) | directories on disk | make, clean, archive | disk |
| Bootstrap, CLI, dependency check, autostart, i18n | process start-up | wiring | all of the above |

How they interact: the hotkey's reader goroutines and the tray's goroutine
call into the daemon; the daemon applies an event to the machine and performs
the action the machine answers; a cycle runs in a goroutine of its own and
reports back to the machine through the same `Apply`; the recording cap is a
`time.AfterFunc` callback; shutdown comes from a signal watcher. The machine,
the pair of cancel functions and the debounce each have a mutex, and no lock
covers two of them: that is where most of the hazards are.

What must hold of each component:

* state machine: every event has one answer in every state, a rejection
  changes nothing, the error message belongs to the error state;
* daemon: never two recordings, no completion in a foreign dictation, a stop
  ends the recording it was meant for, the machine comes to rest again;
* hold gate: a tap starts nothing, a hold starts once and stops once, start
  before stop;
* hotkey: one press and one release per chord, whatever the order in which
  devices deliver their keys;
* use case and streaming: no audio lost or repeated between the recorder, the
  streamer and the sequential fallback; text is delivered at most once;
* recorder: a stop leaves a finished file or an error, never a live child;
* output: the user's own clipboard is put back unless somebody wrote to it
  since, and a transcript is never restored over by an older one;
* stt: a model is never used after it is closed, retries are bounded, every
  final segment received before the end is in the text;
* sysd: READY and STOPPING at most once and in order, one daemon per lock;
* settings: the last edit is what ends up on disk and in the daemon;
* download: the final file is complete and verified whenever it exists.

The hard behaviours, component by component, are listed with their lines under
`hazards` in `PROJECT.json`, each with the properties that would catch it going
wrong, or with a note that says why none does yet.

## 2. Plan

In order of what matters to the user of the program:

1. **The daemon around the state machine** (`VoiceMachine`, `DictationDaemon`,
   abstract specification `DictationContract`): done, with proofs.
2. **Hold-to-talk** (`HoldHotkey`, composed with `VoiceMachine`): done, every
   invariant proved.
3. **Delivery through the clipboard** (`ClipboardAutopaste`): done, every
   safety property proved.
4. **Live reload of the settings** (`LiveReload`): done, every invariant
   proved.
5. **Streaming dictation** (`StreamingCycle`, which composes `Recorder` and
   `DeepgramStream`): done, every invariant proved.
6. **Speech-to-text stack** (`SttStack`, which composes `WhisperModel` and
   `WavFile`): done, proved but for what the decoder computes.
7. **Process life cycle** (`ProcessLifecycle`, which composes `InstanceLock`,
   `StateNotify`, which brings `VoiceMachine`, and `Wiring`): done, every
   invariant proved.
8. **Files** (`SettingsWindow`, which composes `ConfigFile` and
   `ModelDownload`): done, both invariants proved.

The type invariant of every one of these systems is proved too. What stays
with TLC is liveness and the arithmetic of the decoder (section 6). Left to
model, if the code comes to use it: the fallback
transcriber (section 8).

The runs are kept few: one passing run per system, one more for the daemon's
liveness, whose fair specification needs a smaller instance, and one for each
disagreement worth demonstrating. Three properties would have shown the rest
of section 7; they are described there instead.

## 3. The modules

Every model describes goroutines as control points (`at`, `step`, `save`, ...)
and makes one action of what the code does between two points where another
goroutine can be seen to interfere: a lock taken and released, a channel, a
read of a shared field. Definitions named "Seeded fault" are mutated
forms of the definition that follows; no specification uses them, and each
property is checked to fail when one of them takes its original's place.

### 3.1 VoiceMachine

The transition table of `internal/usecases/voice/state_machine.go` as a
function from states to functions from events to answers (next state, action,
error). `DictationDaemon` and `HoldHotkey` extend it.

### 3.2 DictationDaemon (and DictationContract)

| In the model | In the code |
|---|---|
| `state`, `lastErr` | `Machine.state`, `Machine.lastErr`; every `Apply` is one step, as under `Machine.mu` |
| `at[h]`, `mine[h]` | where a goroutine that toggles is in `acceptToggle` / `Toggle` / `applyHotkeyEvent` / `dispatch` |
| `quiet` | has `toggleMinInterval` passed since `lastToggleAt` |
| `registered` | whose functions are in `cycleCancel`, `recordingCancel` |
| `step[c]` | where the goroutine that `startCycle` spawned is: pipeline, report, deferred cleanup |
| `recordDone`, `cycleDone`, `rootDone` | the contexts and their parents |
| `timer[c]` | the `time.AfterFunc` of the recording cap, with a callback that may run late |
| `shut` | `Shutdown` |
| `returned` | what `useCase.Cycle` returned last, and to which cycle |
| `delivered` | what `Output.Deliver` put in front of the user |

A delivery that fails may have put the text out before
(`clipboard_autopaste.go:438`, 462, 466): the failing branch of `DeliverEnds`
leaves it open.

The number of the current dictation (`session`) exists in the model only:
the point of several properties is that the code, which has no such number,
behaves as if it had. `DictationContract` says what the user relies on: one
dictation holds the pipeline, captures, then processes, and its text is
delivered at most once and never behind a later one's. The refinement maps
`holder` to `registered` and `stage` to the holder's `step`.

### 3.3 HoldHotkey

The readers of `evdev_linux.go`, one per keyboard (`held`: the keys that are
down on it, `modState`/`keyDown`: what the listener believes), the hold gate
(`pending`, `started`, `handle`: the timer `g.timer` points to) and its
timers, whose callbacks may be late. A reader calls the handler after it has
released the listener's mutex, so an edge can overtake another.
`tally` counts what became of the presses; the code has no such counters.

### 3.4 ClipboardAutopaste

The goroutine of a dictation from the start of its recording to the end of
`Deliver`, the goroutine of its pre-snapshot (`chan`), the slot of each output
(`slot`), a reload that swaps the output, and the user, who may copy at any
moment. The clipboard is the desktop's: each read and each write is one step
and may fail. `seen`, `before`, `clean` and `touched` are history for
the properties.

### 3.5 LiveReload

| In the model | In the code |
|---|---|
| `form`, `forms`, `edits` | the form on screen and what its widgets show |
| `save[k]`, `source[k]` | the goroutine of the k-th debounce timer: armed, applying fields, writing, then the three parts of `ReloadConfig` |
| `lock` | `reloadMu`, held over build, swap and close |
| `installed`, `owned`, `transcriber[k]` | `VoiceUseCase.transcriber`, `Daemon.transcriber`, the life of each transcriber |
| `hotkey`, `stopped`, `supervisor[k]`, `listener[k]` | `Daemon.hotkey`, the closed `stopCh`s, the goroutines of `runHotkey` and the listener each of them read, without the lock |
| `root`, `shut`, `doomed` | the signal, `Shutdown`, and the transcriber it read without the lock |
| `cycle`, `parent`, `using` | the dictation in flight, whose context its own is derived from, the transcriber it loaded |

A configuration is the set of the edits it contains. The transcriber is a
local model, whose `Close` waits for the mutex a transcription works under; for
the HTTP backends `Close` frees nothing. A debounce timer that is re-armed
counts as the same timer. `DictationDaemon` has the whole of a dictation;
here it is reduced to the points at which it meets a reload.

### 3.6 StreamingCycle, Recorder, DeepgramStream

| In the model | In the code |
|---|---|
| `cyc`, `outcome`, `delivered` | where `Cycle` is in `cycleStreaming`, the tail grace, `shutdownPCM`, `finaliseStream`, the sequential path and `cleanup`; what it returns |
| `streaming`, `pcm`, `pcmStopped` | the side channel of `startStreamingPCM` and its child |
| `rec`, `recChild`, `reason`, `file`, `take` | `RecordToFile`, the child, `stopReason`, the WAV file and the words in it |
| `streamer`, `pipe`, `pipeEnd` | the goroutine in `Stream` and the audio between the child and it |
| `link`, `sent`, `answered`, `inbox` | the websocket, the server, `messageChan` |
| `hand`, `segment`, `late`, `finals`, `drainEnded` | the handler's goroutine, the final it has in hand, the drain window |

Audio is a sequence of words, numbered as they were said; a word is said while
either child listens, and reaches the file, the pipe, both or neither. The
server answers each word with a final, with an interim and a final, or not at
all, and the connection may be lost at any moment. The drain window ends at any
moment after the end of the audio: that covers the timer, its resets and the
cap. The file of the sequential path goes to the same server as one piece.

`Recorder` leaves out the failures of closing the empty temporary file and of
`os.Stat` and `os.Remove` on it. The archiver is a stutter of `cleanup`.

### 3.7 SttStack, WhisperModel, WavFile

One `Transcribe` through the stack that the factory builds, with the
context cancelled at any moment: the gate reads the recording, the retries wrap
the provider, a provider is OpenAI, Deepgram or go-whisper over HTTP, the
local model, or the stub for one that could not be built. `uploads` are the
requests that left and what came of them, `rows` the lines of the audit log,
`dropped` the lines that are missing from it: a write that fails is not
noticed, and a log that cannot be opened is none (`audit.go:107-126`,
`bootstrap.go:123-135`). A lost line leaves the log as it was.
`WhisperModel` is `w.mu`, `w.ctx`, `w.modelPath` and the contexts that
are allocated and not freed; several goroutines transcribe, reload, load and
close it. A context is named by the number of its allocation, so that a use
after a free can be seen.

`WavFile` is the decoder as a function from bytes: chunk headers, the walk
over them, the padding, the clamps, the errors, the loudness. Its sizes are scaled
down (16 bytes, `maxDataBytes` and `rmsChunkSamples` to 2, 8 and 2; a header is
one cell, a sample two bytes, loud or still). A file may be cut anywhere.
The error that `io.ReadFull` then gives decides: with a part of a block on disk
it is `io.ErrUnexpectedEOF`, the loudness cannot be measured, the gate lets
the recording pass, and the local model's error is retried; between two blocks
it is `io.EOF`, which `rms.go:90` takes for the end. `IsQuiet` is the reference
definition: what the layout and the cut say of the recording, without decoding it.

### 3.8 ProcessLifecycle, InstanceLock, StateNotify, Wiring

| In the model | In the code |
|---|---|
| `pc[p]` | the main goroutine of invocation `p`: `run` of the CLI, `Bootstrap`, `AcquireDaemonLock` step by step, the sweep, the model, the factories, `Serve`, the window's event loop, `Release` |
| `ctx[p]`, `watch[p]`, `quit[p]` | the signal's context, the goroutine that waits for it and calls `Shutdown` and `Stop` of the window |
| `dir`, `path`, `files`, `fd`, `flock`, `pidIn` | the runtime directory, the name of the lock file, the inodes it has had, who has which open and locked, the pid in it |
| `desk[p]` | the state machine's notifications: calls that have left the mutex, `notifyCh`, the tray's `stateIn`, the icon, the status line |
| `setup`, `failed` | the machine and the configuration of a start that failed, and the factory that failed it |

Any process may crash at any step; the kernel then frees its descriptors and
locks. `InTemp` says whether the runtime directory lies inside the swept
temporary directory, which is the case without `XDG_RUNTIME_DIR`. `Wiring` is
two independent readings of a machine, the probes of the dependency check and
the rules of the factories, as functions of the tools that are installed.

### 3.9 SettingsWindow, ConfigFile, ModelDownload

The settings window on disk rather than in the daemon: forms with the locale
of their labels, debounced savers on goroutines of their own, a close that
flushes, a rebuild after a switch of language, a save that reads, merges,
truncates and writes, and the next start, which loads, migrates, normalises and
validates what it finds. `ConfigFile` holds these as functions on a
configuration whose numbers are reduced to their signs. `ModelDownload`
is the mirrors, the `.partial` and the rename of several downloads at once. The
process crashes at any step.

`clean` and `shared` are observers. `clean` says that since the start no save
failed and no two overlapped: for the others `RestartKeepsSettings`
promises nothing, because the code does not (of two saves that overlap the
older may win, one that cannot open the file leaves it as it was, and a
failure or a crash while writing leaves an empty or a cut file).
`shared` marks two downloads that worked on one `.partial`, which nothing
excludes either.

## 4. What the runs check

| Run | Instance | Distinct states | Result |
|---|---|---|---|
| `daemon_safety` | 2 interchangeable callers, 3 dictations | 712,700 | safety and the contract hold |
| `daemon_rest` | 2 callers, 2 dictations, fair | 177,730 | a dictation with captured audio comes to rest |
| `hold_edges` | 2 keyboards (main key on one), one modifier with two keycodes, 2 presses, fair | 34,656 | presses are accounted for, the gate follows the key |
| `clipboard_giveback` | 2 dictations, 1 copy by the user, 2 outputs, fair | 656,147 | the clipboard is given back, the user is spared |
| `reload_effect` | 2 edits, 2 saves, 2 forms, any number of dictations one after the other | 2,844,833 | models are handed over, edits take effect |
| `streaming_dictation` | 1 dictation, 2 words, a channel of 1, fair | 462,300 | no word twice, at most one lost to the drain window, no child left |
| `stt_transcribe` | 2 users of the model, 2 model files, 3 loads, up to 3 attempts, 17 recordings, every provider, fair | 618,026 | nothing is asked twice, memory is sound, the gate withholds silence only |
| `process_start` | 2 invocations that may restart, 2 lock files, channels of 1, 2 transitions, fair | 439,825 | one daemon listens, the lock file tells the truth |
| `settings_files` | 2 starts, 3 user acts, 2 forms, 2 overlapping saves, 2 downloads beside the start-up's, 2 mirrors | 3,759,093 | a restart keeps the settings, a model at its path is whole |
| `daemon_wedge` | 1 caller, 2 dictations, fair | | violated: see section 7 |
| `settings_refused`, `settings_language` | as `settings_files`, 1 mirror | | violated |

Why the bounds are enough. In the daemon every interference is between two
goroutines and two successive dictations; the third dictation lets a late
callback of the first meet one that is not its neighbour. Callers are
interchangeable, so symmetry is used where no liveness is checked. In
`HoldHotkey` the second press meets the leftovers of the first; two keyboards
are needed because their readers run concurrently. In `ClipboardAutopaste` the
second dictation meets the slot the first left, on the same output or on a
swapped one, and one copy is enough to be lost. In `LiveReload` two
saves overlap in every way, and the second form is what a change of language
builds. In `StreamingCycle` two words let one be in the file, the pipe, the
server or the handler while the other is elsewhere, and a channel of one is
full as soon as one message waits. In `SttStack` three attempts let a retry
follow a retry, and three loads let a reload roll back to a model that was
itself reloaded. In `ProcessLifecycle` the second invocation starts while the
first is at any step, and a crash or an exit lets the first start again; a
second lock file is what a sweep would make necessary. In `SettingsWindow` the
second start reads what the first left, the second form meets the timer of the
first, and the second mirror meets the partial file of the first. The saves are
interchangeable there. For every safety property the proofs then remove the
bound, but for what `OnlyQuietIsWithheld` says of the decoder; what is left to
the instances is liveness.

Deadlock is not checked: all these systems may stop (nobody has to press a key,
and the bounded inputs run out).

### Fairness

Fairness only of what the Go scheduler, the timers and the time limits of
external commands and HTTP clients give. Weak fairness: a goroutine that can go
on does (`Cycle`, `CallerContinues`, `Handler`, `Shutdown`, `Deliver`;
`CycleRuns`, `RecorderRuns`, `StreamerRuns` and `HandlerRuns` of the streaming
dictation; `StackRuns` and the computations of the other users of the model;
`Main`, `Watcher` and `Listener` of each invocation), an armed timer fires
(`Timer`, `HoldTimer`). Strong fairness once, for `TakeModel`: `sync.Mutex`
hands itself over to a waiter that has starved for a millisecond, so that a
transcription gets `w.mu` even if others keep taking it. No fairness is assumed
of the user, of a signal, of a crash or of a failure. Commands the
delivery starts end because each has a time limit
(`pkg/clipboard/autopaste_linux.go:58-111`). The fairness of `Cycle`
includes that a recording ends, by its stop, its cap, its context or the
recorder's own failure, and that a transcription does, by its answer, its
context or its time limit; `StreamingCycle` and `SttStack` have the steps that
this takes.

`LiveReload` states its progress without temporal operators: `Settled` spells
out that no goroutine that is under way can take a step (no save can go on, no
supervisor has a listener to take or a return to notice, the shutdown waits for
a dictation, and that one has ended or is at work). Each of
them takes a bounded number of steps, so a weakly fair execution reaches such
a state whenever the user stops editing, and `EditsTakeEffect` also says that
no save is stuck there.

## 5. What the properties say

* `OneCycle`: between the last event of a cycle and
  its deferred function the machine is already at rest, so a new start
  is accepted; still no two cycles ever run together.
* `SessionOrder`, `NoForeignCompletion`: completions carry no identity; that
  they cannot land in another dictation rests on where every goroutine may be.
* `ErrorIsHonest`: at rest the machine shows what `Cycle` returned for the last
  dictation, whoever moved it in between: an error, with the message of the phase
  that failed, or idle after a text that was delivered or empty. The error
  may be shown for a text that reached the user before the delivery failed.
* `CapturedComesToRest`: the bridges of `cycle.go` do their work; no dictation
  with audio leaves the machine busy.
* `PressesBalance`, `GateFollowsKey`, `ReleaseFreesGate`, `PressDoesNotWait`:
  no late timer callback breaks the gate's accounts, and a released chord
  leaves nothing behind that swallows the next press.
* `BelievedKeysWereHeld`: the listener never believes in a key nobody pressed.
* `CleanCycleGivesBack`, `NothingOlderIsRestored`, `RestoreSparesTheUser`,
  `PasteIsGuarded`, `CycleEnds`: what the snapshot, the re-read and the race
  check are for.
* `InstalledIsOpen`, `NoModelForgotten`, `ModelOutlivesItsUse`: overlapping
  reloads and the shutdown neither install a closed model, nor leak one, nor
  free one under a transcription.
* `EditsTakeEffect`, `CurrentHotkeyIsHeard`: once all is quiet, transcriber,
  output and hotkey were built from the configuration as it is, and exactly
  the current hotkey is heard, although supervisors read `Daemon.hotkey` late and
  without the lock.
* `SpokenOnce`, `AtMostOneSlips`: whichever of the live session and the
  sequential path delivers, a word is never delivered twice or out of order;
  of the finals the handler keeps, the one it had in hand when the drain window
  closed is the only one that can be missing from the text.
* `SideChannelOutlivesRecorder`, `RecorderContract`, `CleanReturn`,
  `CycleReturns`: the second capture is stopped only after the first has
  returned, a recording that is there was closed by its writer or was cut by a
  stop, a failed one is removed, and when `Cycle` returns, which it does, no
  child, no streamer and no file are left.
* `NoAnswerAskedTwice`, `NothingUploadedAfterCancel`, `AuditTellsUploads`:
  retries repeat only what was not answered, a cancelled dictation is not
  uploaded any more, and the audit log misses only what could not be written: no
  line tells of an answer or a success that was not, and without a loss there
  is a line for every attempt.
* `ModelMemory`, `TranscribeReturns`: no C context is used or freed after it was
  freed, and none is forgotten; every call of `Transcribe` returns.
* `OnlyQuietIsWithheld`: the gate keeps back what is quiet by the layout of
  the file, as far as it is on disk, whatever chunks stand around the samples
  and wherever it was cut; a cut within a block never silences anybody.
* `OneDaemonListens`, `PidFileNamesHolder`: mutual exclusion over crashes,
  failed starts and restarts; the lock file names the process that holds it.
* `ShownIsFromLastBurst`: notifications leave the mutex before they are made and
  both channels drop, so the icon may be behind; it never shows a state from
  before the last moment of quiet.
* `DepcheckForesees`: a start that a factory refuses was announced by the
  dependency check.
* `StopsWhenTold`: a signal ends a daemon whose event loop runs.
* `RestartKeepsSettings`: what a save wrote is what the next start runs with,
  through migration, normalisation and validation (the UI language, which no
  save writes, is excepted, and so are saves that failed or overlapped).
* `ModelOnDiskIsWhole`: a model at its final path is complete whatever
  download was cancelled, failed or crashed before.

## 6. What is proved

All theorems hold for every value of the constants, under the named
assumptions of the modules: natural numbers for the bounds, non-zero capacities
of channels, model values outside the sets they are distinguished from, a set
of keyboards that has the key, a main key that is no modifier
(`KeycodesAssumption`: the tables of `evdev_linux.go` share no keycode), output
modes and paste commands that the validators let through (`ConfigsAssumption`),
files written by hand that are YAML or torn (`HandFilesAssumption`: whatever
else a file holds does not parse), `Dictation \in Users`. Three
hypotheses are stated in the theorems themselves: `OneListens` and
`PidNamesHolder` assume `~InTemp`, and `GateShutsWithTheKey` one keyboard with
the main key; without them TLC finds the properties violated (section 7).
`GateSparesSpeech` assumes `Withheld = Quiet`, which is about data alone.

Every proof has the same shape: an invariant that is inductive where the
property is not, one lemma for each action (or for each way an action can
touch it), and a last step that combines them. What each invariant adds:

* `DictationDaemonProofs`: `TypeCorrect`, `Invariance`, `CyclesExclude`,
  `RegistrationFollows`, `SessionsInOrder`, `ReportsStayHome` from
  `TypeOK /\ Registration /\ SessionOrder`. `OneCycle` alone is
  not inductive: that a second cycle does not start rests on the registration,
  and that the machine is not at rest while a start is pending or a report is
  due rests on `PendingStartIsCurrent` and `EngagedIsCurrent`, which need each
  other (a start is accepted only at rest, rest is reached only by the last
  report). The table enters through one lemma, `TransitionFacts`.
  `ErrorTellsTheTruth` adds what the report that a cycle is about to make
  stands for (`StandsFor`): from the return of `Cycle` on, its step says what was
  returned, and it is the last to have returned (`HonestInv`); the bridges and the
  callbacks leave that alone. `DaemonImplementsContract` is the
  refinement of `DictationContract`: initial states map to initial states, and
  each step of a caller, a cycle, a callback or the shutdown is a step of the
  contract or leaves `registered`, `step` and `delivered` alone.
* `HoldHotkeyProofs`: `EveryPressCounted` from `GateType /\ PressesBalance`,
  which says nothing of keyboards and so holds for any order in which the
  edges reach the gate. `BeliefIsGrounded` needs only the types of the keys: a
  release on any keyboard clears the belief, so what is left is held somewhere.
  `GateShutsWithTheKey` says of the one reader that runs the handlers what the
  flags are at each of its steps (`ReaderAgrees`), and that a timer that fires
  late finds them so. `TypeCorrect` adds the rest of the state (`RestType`).
* `ClipboardAutopasteProofs`: `TypeCorrect`, `Invariance`,
  `UndisturbedGivesBack`, `RestoresOwnSnapshot`, and the action properties
  `UsersCopySurvives` and `PastesTheTranscript`. `SlotInv` says that the
  snapshot a delivery finds in the slot of its output is its own dictation's,
  whatever was swapped or failed before; `SeenInv` that what a snapshot brings
  was on the clipboard during the dictation; `CleanInv` where the user's
  content is at each step, on the clipboard or in `prev`; `TouchInv` that the
  last re-read is still right unless the user has copied since.
* `LiveReloadProofs`: `TypeCorrect`, `Invariance`, `InstalledStaysOpen`,
  `NoneForgotten`, `ModelsOutliveTheirUse`. The invariant adds to the types
  who holds the lock (`LockHolder`), that installed and owned differ only
  between swap and close (`Handover`), that neither the daemon nor the shutdown
  knows a model before its save handed it over (`NotYetOwned`, without which
  the close could hit the new model), that every open model belongs to
  somebody (`OpenIsAccounted`), and that timers are numbered in order
  (`Unarmed`). `EditsAreNotLost` and `HotkeyIsHeard` follow from `EffectInv`:
  what no save is still to build was built from the configuration as it is
  (`ConfigReachesAll`), every edit is in the configuration or a timer or a save
  is about to put it there (`EditsReachConfig`), and the current listener is
  watched or a supervisor is about to find it (`HotkeyIsWatched`, which needs
  `NotYetCurrent`: a listener becomes current only when its save is done).
* `StreamingCycleProofs`: `RecorderKeepsContract`, `SideChannelIsLast`,
  `ReturnIsClean` from `ControlInv`, which says of the control alone who waits
  for whom; `FlowIsSound`, `DeliveredOnce` from `FlowInv`; `OneSlipsAtMost`
  from `DrainInv`. The flow invariant divides the words into those that
  were delivered to the text, those in the handler's hand, in its
  channel, at the server and in the pipe (`InHand`, `InInbox`, `AtServer`,
  `InPipe`), each ahead of the next; that the sequential path cannot repeat a
  word rests on `NothingSentYet`: where there is no side channel, nothing was
  sent before the file. `TypeCorrect` adds that the handler's channel never
  holds more than it takes (`FlagType`).
* `SttStackProofs`: `TypeCorrect`, `MemoryIsSound`, `AnsweredOnce`,
  `NothingAfterCancel`. Who computes has the mutex and nobody else; every
  upload belongs to an attempt of its own, and an attempt that was answered is
  the last one. `AuditTellsTheTruth` counts (`AuditInv`): a line or a
  lost line for each attempt that is over, lines with a status and answered
  uploads that differ by no more than the lost lines, by cardinalities that one
  step changes together. `GateKeepsItsMeasure` is the
  control half of `OnlyQuietIsWithheld`: the recordings that come back empty
  without an attempt are those the gate measured below its threshold, whatever
  provider, retries and cancellation do (`GateInv`). `GateSparesSpeech`
  concludes `OnlyQuietIsWithheld` where that measure is right.
* `ProcessLifecycleProofs`: `LockIsSound`, `OneListens`, `PidNamesHolder`.
  Without the sweep of the runtime directory there is one lock file
  (`OneFile`), whoever has passed `flock` holds it, and only such a process
  reaches a step at which the hotkey is listened to. `RefusalsForeseen` is a
  lemma about the operators of `Wiring` (what `BuildRecorder`, `BuildOutput`
  and `BuildHotkey` refuse, the probes miss) carried to the state by
  `SetupInv`. `ShownIsRecent` follows from `DeskInv`: whatever is on its way to
  the icon belongs to the last burst, and what is shown does too once nothing is
  on its way to replace it; the first state of a burst meets empty channels, so
  a full channel drops only later ones. `TypeCorrect` holds with a swept runtime
  directory too (`LockType`, `RunType`, `DesksType`) and needs none of the facts
  about the one file; that a channel takes what is put in is `SizedDesks`.
* `SettingsWindowProofs`: `DownloadsTyped`, `ModelIsWhole`, `RestartKeeps`.
  `PartialInv`: as long as no two downloads met at the partial file, at most one
  is between opening and renaming it, and it is whole before the rename.
  `SettingsInv` says that in a process without a mishap one save writes at a
  time and that what it writes, or else the file, comes to the configuration in
  memory after migration, normalisation and validation (`SavesInTurn`, by
  `Alike`), and that a configuration without an API key has left none in the
  file (`NoKeyBehind`, needed because no save ever takes that key out). It
  holds for any file the user may write by hand. `TypeCorrect` adds
  `WindowInv`, that a save under way always has a form to read from: forms are
  replaced but never taken away.

Only model-checked:

* Liveness: `CapturedComesToRest`, `CycleEnds`, `ReleaseFreesGate`,
  `PressDoesNotWait`, `StopsWhenTold`, `CycleReturns`, `TranscribeReturns`. The
  prover does not reach fairness.
* That the decoder measures rightly (`Withheld = Quiet`), the data half of
  `OnlyQuietIsWithheld`: what functions defined by recursion over the bytes
  compute takes an induction that the prover cannot instantiate. TLC evaluates
  it on the recordings of the run, which cover every way a file is refused, the
  edges of the blocks, and cuts in the format, in a block and between two.

## 7. Where the code and its comments disagree

Shown by a run:

* `daemon_wedge` (`cycle.go:273`): a recording that fails after the machine
  left `recording`, or a start that `startCycle` drops, leaves the machine
  busy with no cycle alive; `cycle.go:289-295` promises it does not wedge.
* `settings_refused` (`config.go:788`): a timeout that is cleared or half typed
  when the saver fires is saved as zero, which the next start refuses;
  `validators.go:18-19` says that empty means the default.
* `settings_language` (`tab_stt.go:408`): a switch of the UI language saves the
  form it leaves, whose labels no longer resolve; the dictation language
  becomes auto on disk, although `tab_stt.go:1064-1066` says a stale label
  never corrupts the saved config.

Met while modelling, without a run of their own:

* daemon: a stop between the machine's step and the registration of
  the cancel functions is forgotten (`cycle.go:207`, against
  `daemon.go:704-706`); a start is accepted while the previous
  cycle is still registered, which `cycle.go:59-61` leaves to the machine to
  prevent; a cap whose callback is late ends a later recording
  (`cycle.go:95`, against 109-111);
* hold gate and hotkey: the late callback of a dropped tap starts the next
  press at once (`hold_gate.go:55`, against 8-11); with the main key on two
  keyboards a release can reach the gate before its press (`hold_gate.go:24-26`
  counts on one backend to serialise them);
* clipboard: a paste tool killed by its own time limit fails the delivery
  (`clipboard_autopaste.go:467`, against 106-108); a failed pre-snapshot
  is not retried synchronously (253 against 256); when the text only
  reached the log and no snapshot is kept, Ctrl+V still follows (466);
* reload: every saved edit cancels a dictation that the hotkey started
  (`daemon.go:629`, against 256-258); a dictation that loaded its transcriber
  and waits for the model's mutex finds the model gone (`daemon.go:240`,
  against `voice.go:76-78`); an edit still pending when the language changes is
  taken back by the next save of the rebuilt form (`window.go:530`, against
  469-471);
* process: without `XDG_RUNTIME_DIR` the lock's directory can be swept by a
  second start, which then locks a new file (`tempclean.go:113-114`); a signal
  before the window's event loop runs leaves the process running
  (`window.go:244`, against `daemon.go:427-428` and 473); a READY that could
  not be sent is not sent again (`daemon.go:430`); a second invocation "exits
  cleanly" (`bootstrap.go:32`) with an error; an X11 session with a Wayland
  paste tool refuses the start (`x11_autopaste.go:55`) although
  `depcheck.go:92` says optional dependencies degrade; the sweep knows session
  directories that nothing creates and not the recordings
  `a2text-voice-*.wav`; a recorder child has no parent-death signal;
* speech to text: `nextBackoff` with a zero `maxDelay` doubles
  (`retry.go:228` says it leaves the delay unchanged); Deepgram's
  `classifyOutcome` overwrites `build_err` and decoding errors with less
  precise outcomes (`deepgram.go:183-199`); the live session writes no audit
  row although `transcriber.go:77-78` promises one per cloud request; a failed
  load leaves the old `modelPath` (`whisper.go:293`); `skipWAVHeader`
  (`deepgram_stream.go:497-523`) does not skip pad bytes and takes any
  format, unlike `wav.go`; a recording cut between two blocks of 4096 samples,
  or before the first, is measured as far as it goes and may be withheld,
  although `silence_gate.go:106-109` says that the gate fails open
  (`wav.go:351-353` wraps the `io.EOF` that `rms.go:90` takes for the end);
* streaming: a final whose handler read `drainEnded` before the window closed
  and appends after it is lost without the "late" warning; a failed
  websocket is reported as an empty result; a recording that had to be killed is
  dropped although the streamer has its text;
* settings: `ui_language` is never written by a save though `window.go:503`
  says it is persisted; a second click on start after a cancel loses the cancel
  function of the second download (`download.go:175-177`); a cancelled
  download removes its partial file although `download.go:94-97` says it
  stays; overrides from the environment and the command line are persisted by
  the window, and edits under `--config` go to the user's own file;
  `README.md:35` names the lock `.pid`, the code `.lock`.

## 8. What is not modelled

Never called by this program, and so without behaviour to check:
`FallbackTranscriber` (nothing enables the cloud lane), go-whisper's
`LoadModel` and `ListModels`, `TranscribeFileUseCase`, `RecordOneshotUseCase`, `BuildConverter`, the making of
session directories, `Seek` of the decoder. (`ReloadModel` of the local model is
not called either, but shares its mutex and is modelled.)

Left out for good: how external tools are run and found, HTTP requests and
their parsing, rendering (tray icons, forms, themes), translations, the
autostart file, the profiling server, the names and pruning of kept audio, the
usage and balance look-ups of the settings window, overrides from the
environment, the command line and a developer's `config.local`. Nothing in
them depends on an order of events beyond the outcome (answer, failure, time
limit) that the models above choose freely. The restarts of a panicking
event loop are stutters of `ProcessLifecycle`, and the start of the window is
assumed to succeed there.

Data races that Go leaves undefined, such as the widgets read by a save's
goroutine while the user types or `Daemon.hotkey` read without its lock, are
modelled as a read of the old or the new value.
