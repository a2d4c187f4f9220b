---------------------------- MODULE SettingsWindow ----------------------------
(***************************************************************************)
(* The settings window, the config it shares with the daemon and what both  *)
(* leave on disk for the next start (internal/adapters/settings,            *)
(* LoadVoice, EnsureUserConfig, EnsureWhisperCppModel).                     *)
(*                                                                          *)
(* A form saves itself half a second after its last edit, on a goroutine    *)
(* of its own; a switch of the UI language leaves the old form behind with  *)
(* its timer running.  A label is the value it shows and the locale of its  *)
(* form.  One user, one process at a time, one model file.                  *)
(***************************************************************************)
EXTENDS ConfigFile, ModelDownload, Sequences

CONSTANTS
  HandFiles,  \* files the user may write while nothing runs
  Edits,      \* the edits the user makes: records [key, value]
  Saves,      \* saves that may be under way at once
  MaxActs, MaxForms, MaxStarts  \* bounds on user acts, forms and starts

ASSUME SettingsAssumption ==
  MaxActs \in Nat /\ MaxForms \in Nat /\ MaxStarts \in Nat

ASSUME HandFilesAssumption == \A f \in HandFiles : f.is \in {"torn", "yaml"}

VARIABLES
  proc,       \* the process: down, template, load, model, up
  file,       \* config.yaml
  cfg,        \* the config of the process
  ui,         \* the active locale
  forms,      \* the forms built so far, [locale, w, armed]
  form,       \* the form in the window, 0 when it is closed
  save,       \* save[s]: step, form and data of a save; flush: the close waits
  downloadCancel,  \* the download a second click would cancel, or 0
  acts, starts,
  clean,      \* an observer: since the start, saves neither failed nor overlapped
  asked       \* an observer: dictation languages the file or the user asked for

diskVars == <<file, clean>>
uiVars == <<ui, forms, form, downloadCancel, acts, asked>>
vars == <<downloadVars, diskVars, uiVars, proc, cfg, save, starts>>

LabelKeys == {"language", "ui_language", "mode", "hotkey_mode"}
Fallback == [language |-> "auto", ui_language |-> "en", mode |-> "clipboard",
             hotkey_mode |-> "toggle"]
NoSave == [step |-> "idle", form |-> 0, data |-> Missing, flush |-> FALSE]

(* The values of the keys are whatever the user writes.  A save that is     *)
(* under way has a form to read, whatever became of the window.             *)
TypeOK ==
  /\ DownloadType
  /\ proc \in {"down", "template", "load", "model", "up"}
  /\ {file.is} \cup {save[s].data.is : s \in Saves} \subseteq {"missing", "torn", "yaml"}
  /\ DOMAIN cfg = Keys
  /\ Len(forms) \in 0..MaxForms /\ form \in 0..Len(forms)
  /\ \A f \in 1..Len(forms) : DOMAIN forms[f].w = Keys /\ forms[f].armed \in BOOLEAN
  /\ DOMAIN save = Saves
  /\ \A s \in Saves :
       /\ save[s].step \in {"idle", "apply", "read", "truncate", "fill"}
       /\ save[s].step # "idle" => save[s].form \in 1..Len(forms)
       /\ save[s].flush \in BOOLEAN
  /\ downloadCancel \in AllJobs
  /\ acts \in 0..MaxActs /\ starts \in 0..MaxStarts
  /\ clean \in BOOLEAN

Init ==
  /\ DownloadInit
  /\ proc = "down" /\ file \in HandFiles \cup {Missing} /\ cfg = Defaults
  /\ ui = "en" /\ forms = <<>> /\ form = 0
  /\ save = [s \in Saves |-> NoSave]
  /\ downloadCancel = 0 /\ acts = 0 /\ starts = 0
  /\ clean = TRUE /\ asked = {}

-----------------------------------------------------------------------------
(* The start.                                                               *)

HandEdit ==
  /\ proc = "down" /\ acts < MaxActs /\ acts' = acts + 1
  /\ file' \in HandFiles
  /\ UNCHANGED <<downloadVars, clean, ui, forms, form, downloadCancel, asked,
                 proc, cfg, save, starts>>

(* bootstrapUserConfig: a file is written only where there is none, and a   *)
(* home or a file that cannot be written stops nothing.                     *)
EnsureUserConfig ==
  /\ \/ /\ proc = "down" /\ starts < MaxStarts /\ starts' = starts + 1
        /\ \/ proc' = "load" /\ UNCHANGED file
           \/ file.is = "missing" /\ proc' = "template" /\ file' = Yaml(NoKeys)
     \/ /\ proc = "template" /\ proc' = "load"
        /\ file' \in {Yaml(Template), file, Torn} /\ UNCHANGED starts
  /\ UNCHANGED <<downloadVars, clean, uiVars, cfg, save>>

sttLanguageOrDefault(code) == IF code \in {"auto", "ru", "en"} THEN code ELSE "auto"

LoadVoice ==
  /\ proc = "load"
  /\ IF Loads(file)
     THEN /\ proc' = "model" /\ cfg' = Loaded(file) /\ clean' = TRUE
          /\ asked' = {cfg'.language, sttLanguageOrDefault(cfg'.language)}
     ELSE proc' = "down" /\ UNCHANGED <<cfg, clean, asked>>
  /\ UNCHANGED <<downloadVars, file, ui, forms, form, downloadCancel, acts,
                 save, starts>>

(* EnsureWhisperCppModel up to the download; nothing is saved.              *)
NeedsModel(c) == c.provider = "whisper-cpp" /\ ~(c.model_path = "model" /\ ModelExists)

ResolveModel ==
  /\ proc = "model" /\ job[0].step = "idle"
  /\ IF NeedsModel(cfg) /\ ~ModelExists
     THEN StartDownload(0) /\ UNCHANGED <<proc, cfg>>
     ELSE /\ proc' = "up" /\ UNCHANGED downloadVars
          /\ cfg' = IF NeedsModel(cfg) THEN [cfg EXCEPT !.model_path = "model"] ELSE cfg
  /\ UNCHANGED <<diskVars, uiVars, save, starts>>

(* A start without a model is a start all the same.                         *)
ModelResolved ==
  /\ proc = "model" /\ job[0].step \in {"done", "failed"}
  /\ proc' = "up"
  /\ cfg' = IF job[0].step = "done" THEN [cfg EXCEPT !.model_path = "model"] ELSE cfg
  /\ job' = [job EXCEPT ![0] = NoJob]
  /\ UNCHANGED <<final, partial, cancelled, shared, diskVars, uiVars, save, starts>>

-----------------------------------------------------------------------------
(* The window.  A close waits in the event loop for the save it flushes.    *)

EventLoop == proc = "up" /\ \A s \in Saves : ~save[s].flush
UserActs == EventLoop /\ acts < MaxActs /\ acts' = acts + 1

Text(n) == IF n = 0 THEN Unset ELSE IF n > 0 THEN "1" ELSE "-1"
Parsed(text) == IF text = "1" THEN 1 ELSE IF text = "-1" THEN -1 ELSE 0

(* The form of a config, in the active locale.                              *)
buildContent(c, locale) ==
  [locale |-> locale, armed |-> FALSE,
   w |-> [k \in Keys |->
     CASE k \in NumberKeys -> Text(c[k])
       [] k = "language" -> sttLanguageOrDefault(c[k])
       [] k \in {"mode", "hotkey_mode", "log_level"} -> OrElse(c[k],
            [mode |-> "clipboard", hotkey_mode |-> "toggle", log_level |-> "info"][k])
       [] OTHER -> c[k]]]

OpenWindow ==
  /\ EventLoop /\ form = 0 /\ Len(forms) < MaxForms
  /\ ui' = cfg.ui_language
  /\ forms' = Append(forms, buildContent(cfg, ui')) /\ form' = Len(forms')
  /\ UNCHANGED <<downloadVars, diskVars, proc, cfg, save, starts, acts, asked,
                 downloadCancel>>

Edit(e) ==
  /\ UserActs /\ form # 0 /\ forms[form].w[e.key] # e.value
  /\ forms' = [forms EXCEPT ![form].w[e.key] = e.value, ![form].armed = TRUE]
  /\ asked' = IF e.key = "language" THEN asked \cup {e.value} ELSE asked
  /\ UNCHANGED <<downloadVars, diskVars, proc, cfg, save, starts, ui, form,
                 downloadCancel>>

(* The handler of the UI language writes into the config at once, schedules *)
(* the saver of the form it leaves and rebuilds the window.                 *)
ChangeLanguage(code) ==
  /\ UserActs /\ form # 0 /\ code # forms[form].w.ui_language
  /\ Len(forms) < MaxForms
  /\ cfg' = [cfg EXCEPT !.ui_language = code] /\ ui' = code
  /\ forms' = Append([forms EXCEPT ![form].w.ui_language = code,
                                   ![form].armed = TRUE],
                     buildContent(cfg', code))
  /\ form' = Len(forms')
  /\ UNCHANGED <<downloadVars, diskVars, proc, save, starts, asked, downloadCancel>>

BeginSave(s, f, flush) ==
  save[s] = NoSave /\ save' = [save EXCEPT ![s] =
    [step |-> "apply", form |-> f, data |-> Missing, flush |-> flush]]

(* autoSaver.Flush: what is pending is saved now, by the close itself.      *)
CloseWindow ==
  /\ EventLoop /\ form # 0 /\ form' = 0
  /\ \/ /\ forms[form].armed
        /\ forms' = [forms EXCEPT ![form].armed = FALSE]
        /\ \E s \in Saves : BeginSave(s, form, TRUE)
     \/ ~forms[form].armed /\ UNCHANGED <<forms, save>>
  /\ UNCHANGED <<downloadVars, diskVars, proc, cfg, starts, ui, acts, asked,
                 downloadCancel>>

TimerFires(f, s) ==
  /\ proc = "up" /\ forms[f].armed
  /\ forms' = [forms EXCEPT ![f].armed = FALSE]
  /\ BeginSave(s, f, FALSE)
  /\ UNCHANGED <<downloadVars, diskVars, proc, cfg, starts, ui, form, acts, asked,
                 downloadCancel>>

-----------------------------------------------------------------------------
(* A save.                                                                  *)

(* Labels are read back in the locale of the moment; a number that does not *)
(* parse is zero; an empty key keeps the one the config has.                *)
Applied(c, f) ==
  [k \in Keys |->
     CASE k \in NumberKeys -> Parsed(f.w[k])
       [] k \in LabelKeys -> IF f.locale = ui THEN f.w[k] ELSE Fallback[k]
       [] k = "api_key" -> OrElse(f.w[k], c[k])
       [] OTHER -> f.w[k]]

ApplyFields(s) ==
  /\ save[s].step = "apply"
  /\ cfg' = Applied(cfg, forms[save[s].form])
  /\ save' = [save EXCEPT ![s].step = "read"]
  /\ UNCHANGED <<downloadVars, diskVars, uiVars, proc, starts>>

Writing(s) == save[s].step \in {"truncate", "fill"}

ReadFile(s) ==
  /\ save[s].step = "read"
  /\ save' = [save EXCEPT ![s].step = "truncate", ![s].data = Saved(file, cfg)]
  /\ clean' = (clean /\ \A t \in Saves : ~Writing(t))
  /\ UNCHANGED <<downloadVars, file, uiVars, proc, cfg, starts>>

(* A directory or a file that cannot be opened ends the save before it.     *)
TruncateFile(s) ==
  /\ save[s].step = "truncate"
  /\ \/ /\ save' = [save EXCEPT ![s].step = "fill"]
        /\ file' = Yaml(NoKeys) /\ UNCHANGED clean
     \/ /\ save' = [save EXCEPT ![s] = NoSave]
        /\ clean' = FALSE /\ UNCHANGED file
  /\ UNCHANGED <<downloadVars, uiVars, proc, cfg, starts>>

FillFile(s) ==
  /\ save[s].step = "fill"
  /\ save' = [save EXCEPT ![s] = NoSave]
  /\ \/ file' = save[s].data /\ UNCHANGED clean
     \/ file' \in {file, Torn} /\ clean' = FALSE
  /\ UNCHANGED <<downloadVars, uiVars, proc, cfg, starts>>

-----------------------------------------------------------------------------
(* The download button.                                                     *)

StartClicked(j) ==
  /\ UserActs /\ form # 0 /\ downloadCancel = 0 /\ forms[form].w.model_path # Unset
  /\ \A i \in Jobs : i <= j => (job[i].step = "idle" <=> i = j)  \* names only
  /\ StartDownload(j) /\ downloadCancel' = j
  /\ UNCHANGED <<diskVars, proc, cfg, save, starts, ui, forms, form, asked>>

CancelClicked ==
  /\ UserActs /\ form # 0 /\ downloadCancel # 0
  /\ cancelled' = cancelled \cup {downloadCancel} /\ downloadCancel' = 0
  /\ UNCHANGED <<final, partial, job, shared, diskVars, proc, cfg, save, starts,
                 ui, forms, form, asked>>

(* The end of runDownload takes the cancel of whichever download is the     *)
(* newest; a window that is open saves.                                     *)
RunDownloadEnds(j) ==
  /\ EventLoop /\ job[j].step \in {"done", "failed"}
  /\ job' = [job EXCEPT ![j] = NoJob] /\ downloadCancel' = 0
  /\ forms' = IF job[j].step = "done" /\ form # 0
              THEN [forms EXCEPT ![form].armed = TRUE] ELSE forms
  /\ UNCHANGED <<final, partial, cancelled, shared, diskVars, proc, cfg, save,
                 starts, ui, form, acts, asked>>

-----------------------------------------------------------------------------
(* Killed, crashed or told to stop: its memory, timers and goroutines go    *)
(* with it, and a write may break off.                                      *)
ProcessEnds ==
  /\ proc # "down" /\ proc' = "down"
  /\ file' \in IF proc = "template" \/ \E s \in Saves : save[s].step = "fill"
               THEN {file, Torn} ELSE {file}
  /\ save' = [s \in Saves |-> NoSave]
  /\ DownloadsDie
  /\ cfg' = Defaults /\ ui' = "en" /\ forms' = <<>> /\ form' = 0
  /\ downloadCancel' = 0 /\ clean' = TRUE /\ asked' = {}
  /\ UNCHANGED <<acts, starts>>

Downloading(j) ==
  DownloadGoesOn(j) /\ UNCHANGED <<diskVars, uiVars, proc, cfg, save, starts>>

UserStep ==
  \/ HandEdit \/ OpenWindow \/ CloseWindow \/ CancelClicked
  \/ \E e \in Edits : Edit(e)
  \/ \E code \in {"en", "ru"} : ChangeLanguage(code)
  \/ \E j \in Jobs : StartClicked(j)
StartStep == EnsureUserConfig \/ LoadVoice \/ ResolveModel \/ ModelResolved
SaveStep(s) ==
  \/ \E f \in 1..Len(forms) : TimerFires(f, s)
  \/ ApplyFields(s) \/ ReadFile(s) \/ TruncateFile(s) \/ FillFile(s)

Next ==
  \/ UserStep \/ StartStep \/ ProcessEnds
  \/ \E s \in Saves : SaveStep(s)
  \/ \E j \in AllJobs : Downloading(j)
  \/ \E j \in Jobs : RunDownloadEnds(j)

Spec == Init /\ [][Next]_vars

-----------------------------------------------------------------------------
(* Nothing the user did is still on its way to the file.                    *)
Settled ==
  /\ proc = "up" /\ clean
  /\ \A s \in Saves : save[s] = NoSave
  /\ \A f \in 1..Len(forms) : ~forms[f].armed

(* What a start makes of a config: a model that is there is found again.    *)
Started(c) ==
  LET d == ValidateVoice(c)
  IN [d EXCEPT !.temp_dir = OrElse(@, "private"),
               !.model_path = IF NeedsModel(d) /\ ModelExists THEN "model" ELSE @]

(* A restart brings back the settings the daemon runs with: whatever the    *)
(* user edited, cleared or left alone, whichever key had no value, and      *)
(* whatever else the file holds, once the saves are through the next start  *)
(* reads the config of this process, or refuses the file.  The UI language, *)
(* which no save writes, is excepted, and so are saves that failed or       *)
(* overlapped.                                                              *)
RestartKeepsSettings ==
  Settled /\ Loads(file) =>
    \A k \in Keys \ {"ui_language"} : Started(Loaded(file))[k] = Started(cfg)[k]

(* Whatever mirrors break off, downloads are cancelled and processes die    *)
(* (download.go:175-177: the final path never holds half-written data), the *)
(* model at its path is whole, unless two downloads worked on one .partial. *)
ModelOnDiskIsWhole == final # none => final.whole \/ shared

(* A config saved without a mishap is a config the next start accepts       *)
(* (validators.go:18: an empty field means "use the default").              *)
SavedConfigLoads == Settled => Loads(file)

(* A label the current locale does not know never changes what is dictated  *)
(* in (tab_stt.go:1065: a stale label never corrupts the saved config).     *)
StaleLabelIsHarmless == proc = "up" => cfg.language \in asked

=============================================================================
