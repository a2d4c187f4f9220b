----------------------------- MODULE LiveReload -----------------------------
(***************************************************************************)
(* From an edit in the settings window to a daemon that runs on it         *)
(* (internal/adapters/settings/window.go, daemon.go, evdev_linux.go): the  *)
(* debounced auto-saver, whose timers each save and reload in a goroutine  *)
(* of their own, the three parts of ReloadConfig under reloadMu, the       *)
(* goroutines that supervise a hotkey listener, the dictations in flight   *)
(* and the shutdown, which takes no lock of a reload's.                    *)
(*                                                                         *)
(* A configuration is the set of edits it contains.  The transcriber and   *)
(* the listener built by save k have number k, those of the start 0.       *)
(***************************************************************************)
EXTENDS Naturals

CONSTANTS
  MaxEdits,     \* bound: edits of the user
  MaxSaves,     \* bound: timers of the auto-savers
  MaxForms      \* bound: forms built (one, plus one per change of language)

ASSUME LiveReloadAssumption ==
  /\ MaxEdits \in Nat /\ MaxSaves \in Nat
  /\ MaxForms \in Nat \ {0}

Edits  == 1..MaxEdits
Forms  == 1..MaxForms
Saves  == 1..MaxSaves
Built  == 0..MaxSaves
Tray   == MaxSaves + 1      \* who starts a dictation, besides a supervisor

VARIABLES
  edits,        \* number of edits made
  form,         \* the form on screen, 0 once the window is closed
  forms,        \* forms[f]: the edits its widgets show
  saves,        \* number of timers armed
  save,         \* save[k]: where the goroutine of timer k is
  source,       \* source[k]: the form timer k saves
  cfg,          \* the shared configuration
  lock,         \* the save that holds reloadMu, 0 if none
  transcriber,  \* transcriber[k]: what became of the transcriber k
  installed,    \* the one VoiceUseCase loads
  owned,        \* Daemon.transcriber
  hotkey,       \* Daemon.hotkey
  stopped,      \* listeners whose stopCh is closed
  from,         \* from[what][k]: the configuration k was built from
  output,       \* the configuration the output was built from
  supervisor,   \* supervisor[k]: where the goroutine of runHotkey is
  listener,     \* listener[k]: the listener it read
  root,         \* is the daemon's context done?
  shut,         \* where Shutdown is
  doomed,       \* the transcriber it is about to close
  cycle,        \* where the dictation is
  parent,       \* whose context the dictation's is derived from
  using,        \* the transcriber it loaded
  kept          \* some write, build or open has failed

formVars   == <<edits, form, forms>>
saveVars   == <<saves, save, source, cfg>>
daemonVars == <<lock, transcriber, installed, owned, hotkey, stopped, from, output>>
watchVars  == <<supervisor, listener>>
shutVars   == <<root, shut, doomed>>
cycleVars  == <<cycle, parent, using>>
vars == <<edits, form, forms, saves, save, source, cfg, lock,
          transcriber, installed, owned, hotkey, stopped, from, output,
          supervisor, listener, root, shut, doomed, cycle, parent, using, kept>>

SaveSteps  == {"none", "armed", "apply", "write", "transcriber", "swap",
               "close", "output", "hotkey", "done"}
Configs    == SUBSET Edits

TypeOK ==
  /\ edits \in 0..MaxEdits /\ form \in 0..MaxForms
  /\ forms \in [Forms -> Configs]
  /\ saves \in 0..MaxSaves /\ save \in [Saves -> SaveSteps]
  /\ source \in [Saves -> Forms] /\ cfg \in Configs
  /\ lock \in 0..MaxSaves
  /\ transcriber \in [Built -> {"none", "open", "closed"}]
  /\ installed \in Built /\ owned \in Built /\ hotkey \in Built
  /\ stopped \subseteq Built
  /\ from \in [{"transcriber", "hotkey"} -> [Built -> Configs]]
  /\ output \in Configs
  /\ supervisor \in [Built -> {"none", "started", "listening", "gone"}]
  /\ listener \in [Built -> Built]
  /\ root \in BOOLEAN /\ kept \in BOOLEAN
  /\ shut \in {"up", "stopped", "done"}
  /\ doomed \in Built
  /\ cycle \in {"none", "record", "loaded", "work"}
  /\ parent \in Built \cup {Tray} /\ using \in Built

(* The window is open; Serve has started the first supervisor.              *)
Init ==
  /\ edits = 0 /\ form = 1
  /\ forms = [f \in Forms |-> {}]
  /\ saves = 0 /\ save = [k \in Saves |-> "none"]
  /\ source = [k \in Saves |-> 1] /\ cfg = {}
  /\ lock = 0
  /\ transcriber = [k \in Built |-> IF k = 0 THEN "open" ELSE "none"]
  /\ installed = 0 /\ owned = 0 /\ hotkey = 0 /\ stopped = {}
  /\ from = [what \in {"transcriber", "hotkey"} |-> [k \in Built |-> {}]]
  /\ output = {}
  /\ supervisor = [k \in Built |-> IF k = 0 THEN "started" ELSE "none"]
  /\ listener = [k \in Built |-> 0]
  /\ root = FALSE /\ shut = "up"
  /\ doomed = 0
  /\ cycle = "none" /\ parent = Tray /\ using = 0
  /\ kept = FALSE

-----------------------------------------------------------------------------
(* The settings window.                                                    *)

Pending(f) == {k \in Saves : save[k] = "armed" /\ source[k] = f}

(* Schedule re-arms a timer that has not fired: as it only counts that one  *)
(* is armed, the timer stays.                                               *)
Schedule(f) ==
  IF Pending(f) # {}
  THEN UNCHANGED <<saves, save, source>>
  ELSE /\ saves < MaxSaves
       /\ saves' = saves + 1
       /\ save' = [save EXCEPT ![saves + 1] = "armed"]
       /\ source' = [source EXCEPT ![saves + 1] = f]

Edit ==
  /\ form # 0 /\ edits < MaxEdits
  /\ edits' = edits + 1
  /\ forms' = [forms EXCEPT ![form] = @ \cup {edits + 1}]
  /\ Schedule(form)
  /\ UNCHANGED <<form, cfg, kept>>
  /\ UNCHANGED daemonVars /\ UNCHANGED watchVars /\ UNCHANGED shutVars
  /\ UNCHANGED cycleVars

(* The language is written to the configuration at once; the form, rebuilt  *)
(* from the configuration, gets a saver of its own.                         *)
ChangeLanguage ==
  /\ form # 0 /\ form < MaxForms /\ edits < MaxEdits
  /\ edits' = edits + 1
  /\ cfg' = cfg \cup {edits + 1}
  /\ forms' = [forms EXCEPT ![form] = @ \cup {edits + 1}, ![form + 1] = cfg']
  /\ Schedule(form)
  /\ form' = form + 1
  /\ UNCHANGED kept
  /\ UNCHANGED daemonVars /\ UNCHANGED watchVars /\ UNCHANGED shutVars
  /\ UNCHANGED cycleVars

(* Seeded fault: closing drops the pending save.                            *)
CloseWindowDropping ==
  /\ form # 0
  /\ form' = 0
  /\ save' = [k \in Saves |-> IF k \in Pending(form) THEN "done" ELSE save[k]]
  /\ UNCHANGED <<edits, forms, saves, source, cfg, kept>>
  /\ UNCHANGED daemonVars /\ UNCHANGED watchVars /\ UNCHANGED shutVars
  /\ UNCHANGED cycleVars

(* Flush saves here and now what a timer was still waiting to save.         *)
CloseWindow ==
  /\ form # 0
  /\ form' = 0
  /\ save' = [k \in Saves |-> IF k \in Pending(form) THEN "apply" ELSE save[k]]
  /\ UNCHANGED <<edits, forms, saves, source, cfg, kept>>
  /\ UNCHANGED daemonVars /\ UNCHANGED watchVars /\ UNCHANGED shutVars
  /\ UNCHANGED cycleVars

TimerFires(k) ==
  /\ save[k] = "armed"
  /\ save' = [save EXCEPT ![k] = "apply"]
  /\ UNCHANGED <<saves, source, cfg, kept>> /\ UNCHANGED formVars
  /\ UNCHANGED daemonVars /\ UNCHANGED watchVars /\ UNCHANGED shutVars
  /\ UNCHANGED cycleVars

-----------------------------------------------------------------------------
(* A save: every widget into the configuration, the configuration to disk,  *)
(* and only if that succeeded the reload.                                   *)

SaveGoes(k, where) == save' = [save EXCEPT ![k] = where]

ApplyFields(k) ==
  /\ save[k] = "apply"
  /\ cfg' = forms[source[k]]
  /\ SaveGoes(k, "write")
  /\ UNCHANGED <<saves, source, kept>> /\ UNCHANGED formVars
  /\ UNCHANGED daemonVars /\ UNCHANGED watchVars /\ UNCHANGED shutVars
  /\ UNCHANGED cycleVars

WriteConfig(k) ==
  /\ save[k] = "write"
  /\ \/ SaveGoes(k, "transcriber") /\ UNCHANGED kept
     \/ SaveGoes(k, "done") /\ kept' = TRUE
  /\ UNCHANGED <<saves, source, cfg>> /\ UNCHANGED formVars
  /\ UNCHANGED daemonVars /\ UNCHANGED watchVars /\ UNCHANGED shutVars
  /\ UNCHANGED cycleVars

AtWork(k) == cycle = "work" /\ using = k

(* ReloadTranscriber: build under the lock, which may take its time, swap,  *)
(* then close the one before.                                               *)
BuildTranscriber(k) ==
  /\ save[k] = "transcriber" /\ lock = 0
  /\ \/ /\ SaveGoes(k, "swap")
        /\ lock' = k
        /\ transcriber' = [transcriber EXCEPT ![k] = "open"]
        /\ from' = [from EXCEPT !["transcriber"][k] = cfg]
        /\ UNCHANGED kept
     \/ /\ SaveGoes(k, "output")
        /\ kept' = TRUE
        /\ UNCHANGED <<lock, transcriber, from>>
  /\ UNCHANGED <<saves, source, cfg, installed, owned, hotkey, stopped, output>>
  /\ UNCHANGED formVars /\ UNCHANGED watchVars /\ UNCHANGED shutVars
  /\ UNCHANGED cycleVars

(* Seeded fault: the old transcriber is closed before the swap.             *)
SwapClosingFirst(k) ==
  /\ save[k] = "swap"
  /\ transcriber' = [transcriber EXCEPT ![owned] = "closed"]
  /\ SaveGoes(k, "close")
  /\ UNCHANGED <<saves, source, cfg, lock, installed, owned, hotkey, stopped,
                 from, output, kept>>
  /\ UNCHANGED formVars /\ UNCHANGED watchVars /\ UNCHANGED shutVars
  /\ UNCHANGED cycleVars

SwapTranscriber(k) ==
  /\ save[k] = "swap"
  /\ installed' = k
  /\ SaveGoes(k, "close")
  /\ UNCHANGED <<saves, source, cfg, lock, transcriber, owned, hotkey, stopped,
                 from, output, kept>>
  /\ UNCHANGED formVars /\ UNCHANGED watchVars /\ UNCHANGED shutVars
  /\ UNCHANGED cycleVars

(* Seeded fault: nobody closes the transcriber that was replaced.           *)
ForgetPrevious(k) ==
  /\ save[k] = "close"
  /\ owned' = k /\ lock' = 0
  /\ SaveGoes(k, "output")
  /\ UNCHANGED <<saves, source, cfg, transcriber, installed, hotkey, stopped,
                 from, output, kept>>
  /\ UNCHANGED formVars /\ UNCHANGED watchVars /\ UNCHANGED shutVars
  /\ UNCHANGED cycleVars

(* Seeded fault: Close does not take the mutex of the model.                *)
CloseAtOnce(k) ==
  /\ save[k] = "close"
  /\ transcriber' = [transcriber EXCEPT ![owned] = "closed"]
  /\ from' = [from EXCEPT !["transcriber"][owned] = {}]
  /\ owned' = k /\ lock' = 0
  /\ SaveGoes(k, "output")
  /\ UNCHANGED <<saves, source, cfg, installed, hotkey, stopped, output, kept>>
  /\ UNCHANGED formVars /\ UNCHANGED watchVars /\ UNCHANGED shutVars
  /\ UNCHANGED cycleVars

(* A local model is freed under the mutex it works under.                   *)
ClosePrevious(k) ==
  /\ save[k] = "close" /\ ~AtWork(owned)
  /\ transcriber' = [transcriber EXCEPT ![owned] = "closed"]
  /\ from' = [from EXCEPT !["transcriber"][owned] = {}]
  /\ owned' = k /\ lock' = 0
  /\ SaveGoes(k, "output")
  /\ UNCHANGED <<saves, source, cfg, installed, hotkey, stopped, output, kept>>
  /\ UNCHANGED formVars /\ UNCHANGED watchVars /\ UNCHANGED shutVars
  /\ UNCHANGED cycleVars

ReloadOutput(k) ==
  /\ save[k] = "output" /\ lock = 0
  /\ SaveGoes(k, "hotkey")
  /\ \/ output' = cfg /\ UNCHANGED kept
     \/ UNCHANGED output /\ kept' = TRUE
  /\ UNCHANGED <<saves, source, cfg, lock, transcriber, installed, owned,
                 hotkey, stopped, from>>
  /\ UNCHANGED formVars /\ UNCHANGED watchVars /\ UNCHANGED shutVars
  /\ UNCHANGED cycleVars

(* Seeded fault: the listener before keeps listening.                       *)
ReloadHotkeyOnly(k) ==
  /\ save[k] = "hotkey" /\ lock = 0
  /\ SaveGoes(k, "done")
  /\ \/ /\ hotkey' = k
        /\ from' = [from EXCEPT !["hotkey"][k] = cfg]
        /\ supervisor' = [supervisor EXCEPT ![k] = "started"]
        /\ UNCHANGED <<stopped, kept>>
     \/ kept' = TRUE /\ UNCHANGED <<hotkey, stopped, from, supervisor>>
  /\ UNCHANGED <<saves, source, cfg, lock, transcriber, installed, owned,
                 output, listener>>
  /\ UNCHANGED formVars /\ UNCHANGED shutVars /\ UNCHANGED cycleVars

ReloadHotkey(k) ==
  /\ save[k] = "hotkey" /\ lock = 0
  /\ SaveGoes(k, "done")
  /\ \/ /\ stopped' = stopped \cup {hotkey}
        /\ hotkey' = k
        /\ from' = [from EXCEPT !["hotkey"] =
                                  [@ EXCEPT ![k] = cfg, ![hotkey] = {}]]
        /\ supervisor' = [supervisor EXCEPT ![k] = "started"]
        /\ UNCHANGED kept
     \/ kept' = TRUE /\ UNCHANGED <<hotkey, stopped, from, supervisor>>
  /\ UNCHANGED <<saves, source, cfg, lock, transcriber, installed, owned,
                 output, listener>>
  /\ UNCHANGED formVars /\ UNCHANGED shutVars /\ UNCHANGED cycleVars

Reload(k) ==
  \/ BuildTranscriber(k) \/ SwapTranscriber(k) \/ ClosePrevious(k)
  \/ ReloadOutput(k) \/ ReloadHotkey(k)

SaveRuns(k) == TimerFires(k) \/ ApplyFields(k) \/ WriteConfig(k) \/ Reload(k)

-----------------------------------------------------------------------------
(* runHotkey reads Daemon.hotkey when its goroutine gets to run, and        *)
(* without the lock; Listen refuses a context that is done.                 *)

Supervise(k) ==
  /\ supervisor[k] = "started"
  /\ \/ /\ ~root
        /\ supervisor' = [supervisor EXCEPT ![k] = "listening"]
        /\ listener' = [listener EXCEPT ![k] = hotkey]
        /\ UNCHANGED kept
     \/ /\ supervisor' = [supervisor EXCEPT ![k] = "gone"]
        /\ kept' = (kept \/ ~root)
        /\ UNCHANGED listener
  /\ UNCHANGED formVars /\ UNCHANGED saveVars /\ UNCHANGED daemonVars
  /\ UNCHANGED shutVars /\ UNCHANGED cycleVars

(* Listen ends with its context or with Stop, and takes the readers' own    *)
(* context along.                                                           *)
ListenEnds(k) ==
  /\ supervisor[k] = "listening"
  /\ root \/ listener[k] \in stopped
  /\ supervisor' = [supervisor EXCEPT ![k] = "gone"]
  /\ listener' = [listener EXCEPT ![k] = 0]
  /\ UNCHANGED kept
  /\ UNCHANGED formVars /\ UNCHANGED saveVars /\ UNCHANGED daemonVars
  /\ UNCHANGED shutVars /\ UNCHANGED cycleVars

-----------------------------------------------------------------------------
(* Signal and shutdown.  What is to be closed is read without reloadMu; the *)
(* listener is stopped first, and the transcriber, which may be at work, is *)
(* closed last.                                                             *)

Signal ==
  /\ ~root
  /\ root' = TRUE
  /\ UNCHANGED <<shut, doomed, kept>>
  /\ UNCHANGED formVars /\ UNCHANGED saveVars /\ UNCHANGED daemonVars
  /\ UNCHANGED watchVars /\ UNCHANGED cycleVars

ShutdownStops ==
  /\ root /\ shut = "up"
  /\ doomed' = owned
  /\ stopped' = stopped \cup {hotkey}
  /\ shut' = "stopped"
  /\ UNCHANGED <<lock, transcriber, installed, owned, hotkey, from, output>>
  /\ UNCHANGED <<root, kept>>
  /\ UNCHANGED formVars /\ UNCHANGED saveVars
  /\ UNCHANGED watchVars /\ UNCHANGED cycleVars

ShutdownCloses ==
  /\ shut = "stopped" /\ ~AtWork(doomed)
  /\ transcriber' = [transcriber EXCEPT ![doomed] = "closed"]
  /\ doomed' = 0
  /\ shut' = "done"
  /\ UNCHANGED <<lock, installed, owned, hotkey, stopped, from, output>>
  /\ UNCHANGED <<root, kept>>
  /\ UNCHANGED formVars /\ UNCHANGED saveVars
  /\ UNCHANGED watchVars /\ UNCHANGED cycleVars

Shutdown == ShutdownStops \/ ShutdownCloses

-----------------------------------------------------------------------------
(* Dictations, one at a time, started from the tray or by a reader of a     *)
(* listener.  DictationDaemon has the whole of them.                        *)

OthersUnchanged ==
  /\ UNCHANGED kept
  /\ UNCHANGED formVars /\ UNCHANGED saveVars /\ UNCHANGED daemonVars
  /\ UNCHANGED watchVars /\ UNCHANGED shutVars

CtxDone == root \/ (parent # Tray /\ supervisor[parent] = "gone")

StartCycle ==
  /\ cycle = "none" /\ ~root
  /\ parent' \in {Tray} \cup {k \in Built : supervisor[k] = "listening"}
  /\ cycle' = "record"
  /\ UNCHANGED using /\ OthersUnchanged

(* A recording whose cycle is cancelled is thrown away; after any other the *)
(* transcriber is loaded.                                                   *)
RecordEnds ==
  /\ cycle = "record"
  /\ \/ CtxDone /\ cycle' = "none" /\ parent' = Tray /\ UNCHANGED using
     \/ ~CtxDone /\ cycle' = "loaded" /\ using' = installed
        /\ UNCHANGED parent
  /\ OthersUnchanged

(* The samples are read, the mutex of the model is taken and only then is   *)
(* the model looked at: one that is gone is an error.  At work it cannot be *)
(* interrupted.                                                             *)
TranscribeBegins ==
  /\ cycle = "loaded"
  /\ ~CtxDone /\ transcriber[using] = "open"
  /\ cycle' = "work"
  /\ UNCHANGED <<parent, using>> /\ OthersUnchanged

(* However it ends: the text goes to the output, or the cycle fails.        *)
TranscribeEnds ==
  /\ \/ cycle = "work"
     \/ cycle = "loaded" /\ (CtxDone \/ transcriber[using] = "closed")
  /\ cycle' = "none" /\ parent' = Tray /\ using' = 0
  /\ OthersUnchanged

CycleRuns ==
  StartCycle \/ RecordEnds \/ TranscribeBegins \/ TranscribeEnds

Next ==
  \/ Edit \/ ChangeLanguage \/ CloseWindow
  \/ \E k \in Saves : SaveRuns(k)
  \/ \E k \in Built : Supervise(k) \/ ListenEnds(k)
  \/ Signal \/ Shutdown
  \/ CycleRuns

Spec == Init /\ [][Next]_vars

-----------------------------------------------------------------------------
(* Properties.                                                             *)

(* Until the shutdown closes it, the transcriber a dictation would load is  *)
(* never one that was closed, however reloads overlap.                      *)
InstalledIsOpen == shut # "done" => transcriber[installed] = "open"

(* Between reloads no model but the daemon's own is loaded: what a reload   *)
(* replaced has been closed, though several goroutines reload.              *)
NoModelForgotten ==
  lock = 0 => \A k \in Built : transcriber[k] = "open" => k = owned

(* A model is never freed under a transcription, and nobody ever begins to  *)
(* work with one that is gone, though reload and shutdown close models      *)
(* without asking the dictation.                                            *)
ModelOutlivesItsUse == cycle = "work" => transcriber[using] = "open"

(* What a save does next, it does unless another holds reloadMu or the      *)
(* model to be closed is at work.                                           *)
SaveCanGoOn(k) ==
  \/ save[k] \in {"armed", "apply", "write", "swap"}
  \/ save[k] \in {"transcriber", "output", "hotkey"} /\ lock = 0
  \/ save[k] = "close" /\ ~AtWork(owned)

(* Where the goroutines have come to when none of them can go on.  Every    *)
(* save, supervisor and shutdown takes finitely many steps, so what holds   *)
(* there is what an edit or a signal leads to.                              *)
Settled ==
  /\ \A k \in Saves : ~SaveCanGoOn(k)
  /\ \A k \in Built :
       /\ supervisor[k] # "started"
       /\ supervisor[k] = "listening" => ~root /\ listener[k] \notin stopped
  /\ root => shut # "up"
  /\ shut = "stopped" => AtWork(doomed)
  /\ cycle # "work"
  /\ cycle = "loaded" => ~CtxDone /\ transcriber[using] = "none"

(* Every save gets through, and if nothing failed all that the daemon runs  *)
(* on was built from the configuration as it is, and that has every edit:   *)
(* neither the debounce, nor a save that another overtook, nor closing the  *)
(* window loses one, as long as the form is not rebuilt.                    *)
EditsTakeEffect ==
  Settled =>
    /\ \A k \in Saves : save[k] \in {"none", "done"}
    /\ ~kept /\ ~root =>
         /\ from["transcriber"][installed] = cfg
         /\ output = cfg
         /\ from["hotkey"][hotkey] = cfg
         /\ (\A f \in Forms \ {1} : forms[f] = {}) => cfg = 1..edits

(* The current listener is listened to, and no other, whichever listener    *)
(* each supervisor found when its goroutine got to run.                     *)
Heard == {listener[k] : k \in {j \in Built : supervisor[j] = "listening"}}

CurrentHotkeyIsHeard ==
  Settled /\ ~root => Heard \subseteq {hotkey} /\ (~kept => hotkey \in Heard)

=============================================================================
