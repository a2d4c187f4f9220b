-------------------------- MODULE LiveReloadProofs --------------------------
(* What holds of LiveReload for any number of edits, saves and forms:       *)
(* types, and that the models are handed over without one being forgotten,  *)
(* installed after its end or freed under a transcription.                  *)
EXTENDS LiveReload, TLAPS

Swapping == {"swap", "close"}
Unswapped == {"none", "armed", "apply", "write", "transcriber"} \cup Swapping

(* The lock is held by the one save that is exchanging the transcriber.     *)
LockHolder == \A k \in Saves : save[k] \in Swapping <=> lock = k

(* Only between the swap and the close does the use case have another       *)
(* transcriber than the daemon; until the shutdown both are open, as is     *)
(* the one about to be swapped in.                                          *)
Handover ==
  /\ \A k \in Saves : save[k] = "close" => installed = k
  /\ (\A k \in Saves : save[k] # "close") => installed = owned
  /\ shut # "done" =>
       /\ transcriber[owned] = "open"
       /\ \A k \in Saves : save[k] \in Swapping => transcriber[k] = "open"

(* The daemon owns no transcriber before its save has handed it over, and   *)
(* neither does the shutdown close such a one.                              *)
NotYetOwned ==
  \A k \in Saves : save[k] \in Unswapped => owned # k /\ doomed # k

(* An open transcriber is the daemon's or that of the save in between.      *)
OpenIsAccounted ==
  \A k \in Built :
    transcriber[k] = "open" => k = owned \/ (k \in Saves /\ k = lock)

(* Timers are numbered in the order in which they are armed.                *)
Unarmed == \A k \in Saves : k > saves => save[k] = "none"

IInv ==
  /\ TypeOK
  /\ Unarmed
  /\ LockHolder
  /\ Handover
  /\ NotYetOwned
  /\ OpenIsAccounted
  /\ ModelOutlivesItsUse

-----------------------------------------------------------------------------
(* Numbers of edits, saves and forms stay within their bounds.              *)
LEMMA Numbers ==
  /\ 0 \in Built /\ 1 \in Forms /\ 1 \in 0..MaxForms /\ Saves \subseteq Built
  /\ 0 \in 0..MaxEdits /\ 0 \in 0..MaxSaves /\ 0 \in 0..MaxForms
  /\ \A k \in Saves : k # 0 /\ k \in 0..MaxSaves
  /\ \A k \in Built : k \in Saves \/ k = 0
  /\ Built = 0..MaxSaves
  /\ \A n \in 0..MaxSaves : n < MaxSaves => n + 1 \in 0..MaxSaves /\ n + 1 \in Saves
  /\ \A n \in 0..MaxEdits : n < MaxEdits => n + 1 \in 0..MaxEdits /\ n + 1 \in Edits
  /\ \A f \in Forms : f \in 0..MaxForms /\ (f < MaxForms => f + 1 \in Forms)
  /\ \A f \in 0..MaxForms : f # 0 => f \in Forms
BY LiveReloadAssumption DEF Built, Forms, Saves, Edits

(* Initially all is well typed and the first transcriber is in place.       *)
LEMMA InitInv == Init => IInv
<1> SUFFICES ASSUME Init PROVE IInv
  OBVIOUS
<1> USE Numbers DEF Init
<1>1. TypeOK
  <2>1. from \in [{"transcriber", "hotkey"} -> [Built -> Configs]]
    BY DEF Configs
  <2>2. forms \in [Forms -> Configs] /\ cfg \in Configs /\ output \in Configs
    BY DEF Configs
  <2>3. /\ edits \in 0..MaxEdits /\ form \in 0..MaxForms /\ saves \in 0..MaxSaves
        /\ lock \in 0..MaxSaves /\ installed \in Built /\ owned \in Built
        /\ hotkey \in Built /\ doomed \in Built /\ using \in Built
    OBVIOUS
  <2>4. save \in [Saves -> SaveSteps] /\ source \in [Saves -> Forms]
    BY DEF SaveSteps
  <2>5. QED
    BY <2>1, <2>2, <2>3, <2>4 DEF TypeOK
<1>2. Unarmed /\ LockHolder /\ Handover /\ NotYetOwned
  BY DEF Unarmed, LockHolder, Handover, NotYetOwned, Swapping, Unswapped
<1>3. OpenIsAccounted /\ ModelOutlivesItsUse
  BY DEF OpenIsAccounted, ModelOutlivesItsUse
<1>4. QED
  BY <1>1, <1>2, <1>3 DEF IInv

-----------------------------------------------------------------------------
(* Types.                                                                   *)

(* Arming a timer.                                                          *)
LEMMA ScheduleType ==
  ASSUME TypeOK, NEW f \in Forms, Schedule(f)
  PROVE  /\ saves' \in 0..MaxSaves
         /\ save' \in [Saves -> SaveSteps] /\ source' \in [Saves -> Forms]
<1>1. CASE Pending(f) # {}
  BY <1>1 DEF TypeOK, Schedule
<1>2. CASE Pending(f) = {}
  <2>1. saves + 1 \in 0..MaxSaves /\ saves + 1 \in Saves
    BY <1>2, Numbers DEF TypeOK, Schedule
  <2>2. QED
    BY <1>2, <2>1 DEF TypeOK, Schedule, SaveSteps
<1>3. QED
  BY <1>1, <1>2

(* The steps of the window and the timers.                                  *)
LEMMA WindowType ==
  TypeOK /\ (Edit \/ ChangeLanguage \/ CloseWindow
             \/ \E k \in Saves : TimerFires(k) \/ ApplyFields(k) \/ WriteConfig(k))
    => TypeOK'
<1> SUFFICES ASSUME TypeOK, Edit \/ ChangeLanguage \/ CloseWindow
             \/ \E k \in Saves : TimerFires(k) \/ ApplyFields(k) \/ WriteConfig(k)
             PROVE  TypeOK'
  OBVIOUS
<1> USE DEF formVars, saveVars, daemonVars, watchVars, shutVars, cycleVars
<1>1. CASE Edit
  <2>1. form \in Forms /\ Schedule(form)
    BY <1>1, Numbers DEF Edit, TypeOK
  <2>2. edits' \in 0..MaxEdits /\ forms' \in [Forms -> Configs]
    BY <1>1, Numbers DEF Edit, TypeOK, Configs
  <2>3. QED
    BY <1>1, <2>1, <2>2, ScheduleType DEF Edit, TypeOK
<1>2. CASE ChangeLanguage
  <2>1. form \in Forms /\ Schedule(form) /\ form + 1 \in Forms
    BY <1>2, Numbers DEF ChangeLanguage, TypeOK
  <2>2. edits' \in 0..MaxEdits /\ cfg' \in Configs
    BY <1>2, Numbers DEF ChangeLanguage, TypeOK, Configs
  <2>3. forms' \in [Forms -> Configs]
    BY <1>2, <2>1, <2>2 DEF ChangeLanguage, TypeOK, Configs
  <2>4. form' \in 0..MaxForms
    BY <1>2, <2>1, Numbers DEF ChangeLanguage
  <2>5. QED
    BY <1>2, <2>1, <2>2, <2>3, <2>4, ScheduleType DEF ChangeLanguage, TypeOK
<1>3. CASE CloseWindow
  <2>1. form' \in 0..MaxForms /\ save' \in [Saves -> SaveSteps]
    BY <1>3, Numbers DEF CloseWindow, TypeOK, SaveSteps
  <2>2. QED
    BY <1>3, <2>1 DEF CloseWindow, TypeOK
<1>4. ASSUME NEW k \in Saves, TimerFires(k) \/ ApplyFields(k) \/ WriteConfig(k)
      PROVE  TypeOK'
  <2>1. CASE TimerFires(k)
    BY <2>1 DEF TimerFires, TypeOK, SaveSteps
  <2>2. CASE ApplyFields(k)
    BY <2>2 DEF ApplyFields, SaveGoes, TypeOK, SaveSteps
  <2>3. CASE WriteConfig(k)
    BY <2>3 DEF WriteConfig, SaveGoes, TypeOK, SaveSteps
  <2>4. QED
    BY <1>4, <2>1, <2>2, <2>3
<1>5. QED
  BY <1>1, <1>2, <1>3, <1>4

(* The three parts of a reload.                                             *)
LEMMA ReloadType ==
  ASSUME TypeOK, NEW k \in Saves, Reload(k)
  PROVE  TypeOK'
<1> USE DEF formVars, saveVars, daemonVars, watchVars, shutVars, cycleVars,
            SaveGoes
<1> k \in Built /\ k \in 0..MaxSaves /\ 0 \in 0..MaxSaves
  BY Numbers
<1>1. CASE BuildTranscriber(k)
  <2>1. from' \in [{"transcriber", "hotkey"} -> [Built -> Configs]]
    BY <1>1 DEF BuildTranscriber, TypeOK
  <2>2. QED
    BY <1>1, <2>1 DEF BuildTranscriber, TypeOK, SaveSteps
<1>2. CASE SwapTranscriber(k)
  BY <1>2 DEF SwapTranscriber, TypeOK, SaveSteps
<1>3. CASE ClosePrevious(k)
  <2>1. from' \in [{"transcriber", "hotkey"} -> [Built -> Configs]]
    BY <1>3 DEF ClosePrevious, TypeOK, Configs
  <2>2. QED
    BY <1>3, <2>1 DEF ClosePrevious, TypeOK, SaveSteps
<1>4. CASE ReloadOutput(k)
  BY <1>4 DEF ReloadOutput, TypeOK, SaveSteps
<1>5. CASE ReloadHotkey(k)
  <2>1. from' \in [{"transcriber", "hotkey"} -> [Built -> Configs]]
    BY <1>5 DEF ReloadHotkey, TypeOK, Configs
  <2>2. QED
    BY <1>5, <2>1 DEF ReloadHotkey, TypeOK, SaveSteps
<1>6. QED
  BY <1>1, <1>2, <1>3, <1>4, <1>5 DEF Reload

(* Listeners, shutdown and dictations.                                      *)
LEMMA OtherType ==
  TypeOK /\ ((\E k \in Built : Supervise(k) \/ ListenEnds(k))
             \/ Signal \/ Shutdown \/ CycleRuns)
    => TypeOK'
<1> SUFFICES ASSUME TypeOK, (\E k \in Built : Supervise(k) \/ ListenEnds(k))
                            \/ Signal \/ Shutdown \/ CycleRuns
             PROVE  TypeOK'
  OBVIOUS
<1> USE DEF formVars, saveVars, daemonVars, watchVars, shutVars, cycleVars
<1> 0 \in Built
  BY Numbers
<1>1. ASSUME NEW k \in Built, Supervise(k) PROVE TypeOK'
  <2>1. supervisor' \in [Built -> {"none", "started", "listening", "gone"}]
    BY <1>1 DEF Supervise, TypeOK
  <2>2. listener' \in [Built -> Built]
    BY <1>1 DEF Supervise, TypeOK
  <2>3. kept' \in BOOLEAN
    <3>1. CASE UNCHANGED kept
      BY <3>1 DEF TypeOK
    <3>2. CASE kept' = (kept \/ ~root)
      BY <3>2, Zenon DEF TypeOK
    <3>3. QED
      BY <1>1, <3>1, <3>2, Zenon DEF Supervise
  <2>4. QED
    BY <1>1, <2>1, <2>2, <2>3 DEF Supervise, TypeOK
<1>2. ASSUME NEW k \in Built, ListenEnds(k) PROVE TypeOK'
  BY <1>2 DEF ListenEnds, TypeOK
<1>3. CASE Signal
  BY <1>3 DEF Signal, TypeOK
<1>4. CASE ShutdownStops
  BY <1>4 DEF ShutdownStops, TypeOK
<1>5. CASE ShutdownCloses
  BY <1>5 DEF ShutdownCloses, TypeOK
<1>6. CASE StartCycle
  <2>1. parent' \in Built \cup {Tray}
    BY <1>6 DEF StartCycle
  <2>2. QED
    BY <1>6, <2>1 DEF StartCycle, OthersUnchanged, TypeOK
<1>7. CASE RecordEnds
  BY <1>7 DEF RecordEnds, OthersUnchanged, TypeOK
<1>8. CASE TranscribeBegins
  BY <1>8 DEF TranscribeBegins, OthersUnchanged, TypeOK
<1>9. CASE TranscribeEnds
  BY <1>9 DEF TranscribeEnds, OthersUnchanged, TypeOK
<1>10. QED
  BY <1>1, <1>2, <1>3, <1>4, <1>5, <1>6, <1>7, <1>8, <1>9
     DEF Shutdown, CycleRuns

(* Every step keeps the types.                                              *)
LEMMA TypeStep == TypeOK /\ [Next]_vars => TypeOK'
<1> SUFFICES ASSUME TypeOK, [Next]_vars PROVE TypeOK'
  OBVIOUS
<1>1. CASE UNCHANGED vars
  BY <1>1 DEF vars, TypeOK
<1>2. CASE Next
  BY <1>2, WindowType, ReloadType, OtherType DEF Next, SaveRuns
<1>3. QED
  BY <1>1, <1>2

-----------------------------------------------------------------------------
(* The hand-over of models.                                                 *)

Accounts == LockHolder /\ Handover /\ NotYetOwned /\ OpenIsAccounted
            /\ ModelOutlivesItsUse
modelVars == <<lock, transcriber, installed, owned, shut, doomed, cycle, using>>

(* A step that leaves the models alone and takes no save across the         *)
(* exchange keeps the accounts.                                             *)
LEMMA ModelsAlone ==
  ASSUME Accounts, UNCHANGED modelVars,
         \A k \in Saves : /\ save'[k] \in Unswapped => save[k] \in Unswapped
                          /\ save'[k] = "swap" <=> save[k] = "swap"
                          /\ save'[k] = "close" <=> save[k] = "close"
  PROVE  Accounts'
<1> USE DEF modelVars
<1>1. LockHolder'
  BY DEF Accounts, LockHolder, Swapping
<1>2. Handover'
  BY DEF Accounts, Handover, Swapping
<1>3. NotYetOwned'
  BY DEF Accounts, NotYetOwned
<1>4. OpenIsAccounted' /\ ModelOutlivesItsUse'
  BY DEF Accounts, OpenIsAccounted, ModelOutlivesItsUse
<1>5. QED
  BY <1>1, <1>2, <1>3, <1>4 DEF Accounts

(* Arming a timer keeps their order and crosses nothing.                    *)
LEMMA ScheduleKeeps ==
  ASSUME TypeOK, Unarmed, NEW f \in Forms, Schedule(f)
  PROVE  /\ Unarmed'
         /\ \A k \in Saves : /\ save'[k] \in Unswapped => save[k] \in Unswapped
                             /\ save'[k] = "swap" <=> save[k] = "swap"
                             /\ save'[k] = "close" <=> save[k] = "close"
<1>1. CASE Pending(f) # {}
  BY <1>1 DEF Schedule, Unarmed
<1>2. CASE Pending(f) = {}
  <2>1. /\ saves + 1 \in Saves /\ save[saves + 1] = "none"
        /\ saves' = saves + 1 /\ save' = [save EXCEPT ![saves + 1] = "armed"]
        /\ \A k \in Saves : k > saves' => k > saves /\ k # saves + 1
    BY <1>2, Numbers DEF Schedule, Unarmed, TypeOK, Saves
  <2>2. QED
    BY <2>1 DEF Unarmed, Unswapped, Swapping, TypeOK
<1>3. QED
  BY <1>1, <1>2

(* The window, the timers and what a save does before its reload.           *)
LEMMA WindowKeeps ==
  ASSUME TypeOK, Unarmed, Accounts,
         Edit \/ ChangeLanguage \/ CloseWindow
         \/ \E k \in Saves : TimerFires(k) \/ ApplyFields(k) \/ WriteConfig(k)
  PROVE  Unarmed' /\ Accounts'
<1> USE DEF formVars, saveVars, daemonVars, watchVars, shutVars, cycleVars
<1>1. UNCHANGED modelVars
  BY DEF Edit, ChangeLanguage, CloseWindow, TimerFires, ApplyFields, WriteConfig,
         modelVars
<1>2. CASE Edit \/ ChangeLanguage
  <2>1. form \in Forms /\ Schedule(form)
    BY <1>2, Numbers DEF Edit, ChangeLanguage, TypeOK
  <2>2. QED
    BY <1>1, <2>1, ScheduleKeeps, ModelsAlone
<1>3. CASE CloseWindow
  <2>1. \A k \in Saves : save'[k] = IF k \in Pending(form) THEN "apply" ELSE save[k]
    BY <1>3 DEF CloseWindow
  <2>2. \A k \in Pending(form) : save[k] = "armed"
    BY DEF Pending
  <2>3. Unarmed'
    BY <1>3, <2>1, <2>2 DEF CloseWindow, Unarmed
  <2>4. QED
    BY <1>1, <2>1, <2>2, <2>3, ModelsAlone DEF Unswapped, Swapping
<1>4. ASSUME NEW k \in Saves, TimerFires(k) \/ ApplyFields(k) \/ WriteConfig(k)
      PROVE  Unarmed' /\ Accounts'
  <2>1. /\ save[k] \in {"armed", "apply", "write"}
        /\ \E where \in {"apply", "write", "transcriber", "done"} :
              save' = [save EXCEPT ![k] = where]
        /\ saves' = saves
    BY <1>4 DEF TimerFires, ApplyFields, WriteConfig, SaveGoes
  <2>2. Unarmed'
    BY <2>1 DEF Unarmed, TypeOK
  <2>3. \A j \in Saves : /\ save'[j] \in Unswapped => save[j] \in Unswapped
                         /\ save'[j] = "swap" <=> save[j] = "swap"
                         /\ save'[j] = "close" <=> save[j] = "close"
    BY <2>1 DEF TypeOK, Unswapped, Swapping
  <2>4. QED
    BY <1>1, <2>2, <2>3, ModelsAlone
<1>5. QED
  BY <1>2, <1>3, <1>4

(* A reload builds, swaps and closes under the lock.                        *)
LEMMA ReloadKeeps ==
  ASSUME TypeOK, Unarmed, Accounts, NEW k \in Saves, Reload(k)
  PROVE  Unarmed' /\ Accounts'
<1> USE DEF formVars, saveVars, daemonVars, watchVars, shutVars, cycleVars, SaveGoes
<1>1. /\ k \in Built /\ k # 0 /\ Saves \subseteq Built /\ owned \in Built
      /\ 0 \notin Saves
  BY Numbers DEF TypeOK
<1>2. Unarmed'
  BY DEF Reload, BuildTranscriber, SwapTranscriber, ClosePrevious, ReloadOutput,
         ReloadHotkey, Unarmed, TypeOK
<1>3. CASE BuildTranscriber(k)
  <2>1. CASE lock' = lock
    <3>1. UNCHANGED modelVars /\ save[k] = "transcriber"
          /\ save' = [save EXCEPT ![k] = "output"]
      BY <1>1, <1>3, <2>1 DEF BuildTranscriber, modelVars
    <3>2. \A j \in Saves : /\ save'[j] \in Unswapped => save[j] \in Unswapped
                           /\ save'[j] = "swap" <=> save[j] = "swap"
                           /\ save'[j] = "close" <=> save[j] = "close"
      BY <3>1 DEF TypeOK, Unswapped, Swapping
    <3>3. QED
      BY <1>2, <3>1, <3>2, ModelsAlone
  <2>2. CASE lock' # lock
    <3>1. /\ save[k] = "transcriber" /\ lock = 0 /\ lock' = k
          /\ save' = [save EXCEPT ![k] = "swap"]
          /\ transcriber' = [transcriber EXCEPT ![k] = "open"]
          /\ UNCHANGED <<installed, owned, shut, doomed, cycle, using>>
      BY <1>3, <2>2 DEF BuildTranscriber
    <3>2. LockHolder'
      BY <1>1, <3>1 DEF Accounts, LockHolder, Swapping, TypeOK
    <3>3. Handover'
      BY <1>1, <3>1 DEF Accounts, Handover, Swapping, TypeOK
    <3>4. NotYetOwned'
      BY <3>1 DEF Accounts, NotYetOwned, Unswapped, Swapping, TypeOK
    <3>5. OpenIsAccounted' /\ ModelOutlivesItsUse'
      BY <1>1, <3>1 DEF Accounts, OpenIsAccounted, ModelOutlivesItsUse, TypeOK
    <3>6. QED
      BY <1>2, <3>2, <3>3, <3>4, <3>5 DEF Accounts
  <2>3. QED
    BY <2>1, <2>2
<1>4. CASE SwapTranscriber(k)
  <2>1. /\ save[k] = "swap" /\ save' = [save EXCEPT ![k] = "close"]
        /\ installed' = k
        /\ UNCHANGED <<lock, transcriber, owned, shut, doomed, cycle, using>>
    BY <1>4 DEF SwapTranscriber
  <2>2. lock = k /\ \A j \in Saves : save[j] \in Swapping => j = k
    BY <2>1 DEF Accounts, LockHolder, Swapping
  <2>3. LockHolder'
    BY <2>1 DEF Accounts, LockHolder, Swapping, TypeOK
  <2>4. Handover'
    BY <2>1, <2>2 DEF Accounts, Handover, Swapping, TypeOK
  <2>5. NotYetOwned'
    BY <2>1 DEF Accounts, NotYetOwned, Unswapped, Swapping, TypeOK
  <2>6. OpenIsAccounted' /\ ModelOutlivesItsUse'
    BY <2>1 DEF Accounts, OpenIsAccounted, ModelOutlivesItsUse
  <2>7. QED
    BY <1>2, <2>3, <2>4, <2>5, <2>6 DEF Accounts
<1>5. CASE ClosePrevious(k)
  <2>1. /\ save[k] = "close" /\ ~AtWork(owned)
        /\ save' = [save EXCEPT ![k] = "output"]
        /\ transcriber' = [transcriber EXCEPT ![owned] = "closed"]
        /\ owned' = k /\ lock' = 0
        /\ UNCHANGED <<installed, shut, doomed, cycle, using>>
    BY <1>5 DEF ClosePrevious
  <2>2. /\ lock = k /\ \A j \in Saves : save[j] \in Swapping => j = k
        /\ owned # k /\ installed = k /\ doomed # k
        /\ shut # "done" => transcriber[k] = "open"
    BY <2>1 DEF Accounts, LockHolder, Handover, NotYetOwned, Swapping, Unswapped
  <2>3. LockHolder'
    BY <1>1, <2>1, <2>2 DEF Accounts, LockHolder, Swapping, TypeOK
  <2>4. Handover'
    BY <1>1, <2>1, <2>2 DEF Accounts, Handover, Swapping, TypeOK
  <2>5. NotYetOwned'
    BY <2>1 DEF Accounts, NotYetOwned, Unswapped, Swapping, TypeOK
  <2>6. OpenIsAccounted'
    BY <1>1, <2>1, <2>2 DEF Accounts, OpenIsAccounted, TypeOK
  <2>7. ModelOutlivesItsUse'
    BY <2>1 DEF Accounts, ModelOutlivesItsUse, AtWork, TypeOK
  <2>8. QED
    BY <1>2, <2>3, <2>4, <2>5, <2>6, <2>7 DEF Accounts
<1>6. CASE ReloadOutput(k) \/ ReloadHotkey(k)
  <2>1. /\ UNCHANGED modelVars /\ save[k] \in {"output", "hotkey"}
        /\ \E where \in {"hotkey", "done"} : save' = [save EXCEPT ![k] = where]
    BY <1>6 DEF ReloadOutput, ReloadHotkey, modelVars
  <2>2. \A j \in Saves : /\ save'[j] \in Unswapped => save[j] \in Unswapped
                         /\ save'[j] = "swap" <=> save[j] = "swap"
                         /\ save'[j] = "close" <=> save[j] = "close"
    BY <2>1 DEF TypeOK, Unswapped, Swapping
  <2>3. QED
    BY <1>2, <2>1, <2>2, ModelsAlone
<1>7. QED
  BY <1>3, <1>4, <1>5, <1>6 DEF Reload

(* Listeners, shutdown and dictations leave the saves alone.                *)
LEMMA OtherKeeps ==
  ASSUME TypeOK, Unarmed, Accounts,
         (\E k \in Built : Supervise(k) \/ ListenEnds(k))
         \/ Signal \/ Shutdown \/ CycleRuns
  PROVE  Unarmed' /\ Accounts'
<1> USE DEF formVars, saveVars, daemonVars, watchVars, shutVars, cycleVars
<1>1. UNCHANGED <<saves, save, lock, installed, owned>>
  BY DEF Supervise, ListenEnds, Signal, Shutdown, ShutdownStops, ShutdownCloses,
         CycleRuns, StartCycle, RecordEnds, TranscribeBegins, TranscribeEnds,
         OthersUnchanged
<1>2. Unarmed' /\ LockHolder'
  BY <1>1 DEF Accounts, Unarmed, LockHolder
<1>3. ASSUME NEW k \in Built, Supervise(k) \/ ListenEnds(k) PROVE Accounts'
  <2>1. UNCHANGED modelVars
    BY <1>3 DEF Supervise, ListenEnds, modelVars
  <2>2. QED
    BY <1>1, <2>1, ModelsAlone
<1>4. CASE Signal
  <2>1. UNCHANGED modelVars
    BY <1>4 DEF Signal, modelVars
  <2>2. QED
    BY <1>1, <1>2, <2>1, ModelsAlone
<1>5. CASE ShutdownStops
  <2>1. doomed' = owned /\ shut' = "stopped" /\ shut = "up"
        /\ UNCHANGED <<transcriber, cycle, using>>
    BY <1>5 DEF ShutdownStops
  <2>2. Handover' /\ NotYetOwned'
    BY <1>1, <2>1 DEF Accounts, Handover, NotYetOwned
  <2>3. OpenIsAccounted' /\ ModelOutlivesItsUse'
    BY <1>1, <2>1 DEF Accounts, OpenIsAccounted, ModelOutlivesItsUse
  <2>4. QED
    BY <1>2, <2>2, <2>3 DEF Accounts
<1>6. CASE ShutdownCloses
  <2>1. /\ ~AtWork(doomed) /\ doomed' = 0 /\ shut' = "done"
        /\ transcriber' = [transcriber EXCEPT ![doomed] = "closed"]
        /\ UNCHANGED <<cycle, using>>
    BY <1>6 DEF ShutdownCloses
  <2>2. Handover'
    BY <1>1, <2>1 DEF Accounts, Handover
  <2>3. NotYetOwned'
    BY <1>1, <2>1, Numbers DEF Accounts, NotYetOwned
  <2>4. OpenIsAccounted' /\ ModelOutlivesItsUse'
    BY <1>1, <2>1 DEF Accounts, OpenIsAccounted, ModelOutlivesItsUse, AtWork, TypeOK
  <2>5. QED
    BY <1>2, <2>2, <2>3, <2>4 DEF Accounts
<1>7. CASE CycleRuns
  <2>1. /\ UNCHANGED <<transcriber, shut, doomed>>
        /\ cycle' = "work" => transcriber[using'] = "open"
    BY <1>7 DEF CycleRuns, StartCycle, RecordEnds, TranscribeBegins, TranscribeEnds,
                OthersUnchanged
  <2>2. Handover' /\ NotYetOwned'
    BY <1>1, <2>1 DEF Accounts, Handover, NotYetOwned
  <2>3. OpenIsAccounted' /\ ModelOutlivesItsUse'
    BY <1>1, <2>1 DEF Accounts, OpenIsAccounted, ModelOutlivesItsUse
  <2>4. QED
    BY <1>2, <2>2, <2>3 DEF Accounts
<1>8. QED
  BY <1>2, <1>3, <1>4, <1>5, <1>6, <1>7 DEF Shutdown

(* Every step keeps the invariant.                                          *)
LEMMA InvStep == IInv /\ [Next]_vars => IInv'
<1> SUFFICES ASSUME IInv, [Next]_vars PROVE IInv'
  OBVIOUS
<1>1. TypeOK /\ Unarmed /\ Accounts
  BY DEF IInv, Accounts
<1>2. TypeOK'
  BY <1>1, TypeStep
<1>3. Unarmed' /\ Accounts'
  <2>1. CASE UNCHANGED vars
    <3>1. UNCHANGED modelVars /\ UNCHANGED <<save, saves>>
      BY <2>1 DEF vars, modelVars
    <3>2. QED
      BY <1>1, <3>1, ModelsAlone DEF Unarmed
  <2>2. CASE Next
    BY <1>1, <2>2, WindowKeeps, ReloadKeeps, OtherKeeps DEF Next, SaveRuns
  <2>3. QED
    BY <2>1, <2>2
<1>4. QED
  BY <1>2, <1>3 DEF IInv, Accounts

-----------------------------------------------------------------------------
(* The theorems, for any number of edits, saves and forms.                  *)

(* The invariant holds in every reachable state.                            *)
THEOREM Invariance == Spec => []IInv
  BY InitInv, InvStep, PTL DEF Spec

(* Every variable keeps its type.                                           *)
THEOREM TypeCorrect == Spec => []TypeOK
<1>1. IInv => TypeOK
  BY DEF IInv
<1>2. QED
  BY <1>1, Invariance, PTL

(* Until the shutdown closes it, the transcriber a dictation would load is  *)
(* open, whatever reloads overlap: SwapTranscriber comes before the close   *)
(* and both are under reloadMu.                                             *)
THEOREM InstalledStaysOpen == Spec => []InstalledIsOpen
<1>1. IInv => InstalledIsOpen
  <2> SUFFICES ASSUME IInv, shut # "done" PROVE transcriber[installed] = "open"
    BY DEF InstalledIsOpen
  <2>1. CASE \A k \in Saves : save[k] # "close"
    BY <2>1 DEF IInv, Handover
  <2>2. CASE \E k \in Saves : save[k] = "close"
    BY <2>2 DEF IInv, Handover, Swapping
  <2>3. QED
    BY <2>1, <2>2
<1>2. QED
  BY <1>1, Invariance, PTL

(* Between reloads only the daemon's own transcriber is open.               *)
THEOREM NoneForgotten == Spec => []NoModelForgotten
<1>1. IInv => NoModelForgotten
  <2> SUFFICES ASSUME IInv, lock = 0, NEW k \in Built, transcriber[k] = "open"
               PROVE  k = owned
    BY DEF NoModelForgotten
  <2>1. k = owned \/ (k \in Saves /\ k = 0)
    BY DEF IInv, OpenIsAccounted
  <2>2. QED
    BY <2>1, Numbers
<1>2. QED
  BY <1>1, Invariance, PTL

(* No model is freed under a transcription.                                 *)
THEOREM ModelsOutliveTheirUse == Spec => []ModelOutlivesItsUse
<1>1. IInv => ModelOutlivesItsUse
  BY DEF IInv
<1>2. QED
  BY <1>1, Invariance, PTL

-----------------------------------------------------------------------------
(* Edits take effect.                                                       *)

NoneIn(steps) == \A k \in Saves : save[k] \notin steps

BeforeBuild == {"armed", "apply", "write", "transcriber"}
BeforeOutput == BeforeBuild \cup {"swap", "close", "output"}
BeforeHotkey == BeforeOutput \cup {"hotkey"}

(* As long as nothing failed: what no save is still to build was built from *)
(* the configuration as it is; the transcriber counts from its build on.    *)
ConfigReachesAll ==
  kept = FALSE =>
    /\ NoneIn(BeforeBuild) =>
         /\ \A k \in Saves : save[k] = "swap" => from["transcriber"][k] = cfg
         /\ NoneIn({"swap"}) => from["transcriber"][installed] = cfg
    /\ NoneIn(BeforeOutput) => output = cfg
    /\ NoneIn(BeforeHotkey) => from["hotkey"][hotkey] = cfg

(* No listener is the current one, or stopped, before its save is done.     *)
NotYetCurrent == \A k \in Saves : save[k] # "done" => hotkey # k /\ k \notin stopped

(* With a single form, every save is that form's, and the configuration has *)
(* what the form shows unless a save is about to put it there.              *)
OneForm == \A f \in Forms \ {1} : forms[f] = {}

EditsReachConfig ==
  /\ form \notin {0, 1} => forms[form] # {}
  /\ OneForm =>
       /\ forms[1] = 1..edits /\ \A k \in Saves : source[k] = 1
       /\ NoneIn({"armed", "apply"}) => cfg = forms[1]

(* Who listens to another than the current listener finds it stopped; until *)
(* the signal the current one is not, and is watched or about to be.        *)
HotkeyIsWatched ==
  /\ \A k \in Built : supervisor[k] = "listening" => listener[k] \in stopped \cup {hotkey}
  /\ root = FALSE => hotkey \notin stopped
  /\ root = FALSE /\ kept = FALSE =>
       \E k \in Built : \/ supervisor[k] = "started"
                        \/ supervisor[k] = "listening" /\ listener[k] = hotkey

(* What arming a timer does: one is armed, and the others stay.             *)
LEMMA Armed ==
  ASSUME TypeOK, Unarmed, NEW f \in Forms, Schedule(f)
  PROVE  /\ \E k \in Saves : save'[k] = "armed"
         /\ \A k \in Saves : /\ save'[k] = save[k] \/ (save[k] = "none" /\ save'[k] = "armed")
                             /\ source'[k] \in {source[k], f}
<1>1. CASE Pending(f) # {}
  BY <1>1 DEF Schedule, Pending
<1>2. CASE Pending(f) = {}
  <2>1. saves + 1 \in Saves
    BY <1>2, Numbers DEF TypeOK, Schedule
  <2>2. save[saves + 1] = "none"
    BY <2>1 DEF Unarmed, TypeOK, Saves
  <2>3. QED
    BY <1>2, <2>1, <2>2 DEF Schedule, TypeOK
<1>3. QED
  BY <1>1, <1>2

LEMMA OneGoes ==
  ASSUME TypeOK, NEW k \in Saves, NEW where, SaveGoes(k, where)
  PROVE  save'[k] = where /\ \A j \in Saves \ {k} : save'[j] = save[j]
BY DEF TypeOK, SaveGoes

LEMMA EditArms ==
  ASSUME TypeOK, Unarmed, Edit \/ ChangeLanguage
  PROVE  form \in Forms /\ Schedule(form) /\ \E k \in Saves : save'[k] = "armed"
<1>1. form \in Forms /\ Schedule(form)
  BY Numbers DEF Edit, ChangeLanguage, TypeOK
<1>2. QED
  BY <1>1, Armed

(* The saves are where they were, and a close takes the pending ones on.    *)
LEMMA CloseMoves ==
  ASSUME TypeOK, CloseWindow
  PROVE  \A k \in Saves : \/ save'[k] = save[k]
                          \/ save[k] = "armed" /\ save'[k] = "apply"
BY DEF CloseWindow, Pending

OtherSteps ==
  \/ \E k \in Built : Supervise(k) \/ ListenEnds(k)
  \/ Signal \/ Shutdown \/ CycleRuns \/ UNCHANGED vars

LEMMA OthersAside ==
  ASSUME TypeOK, OtherSteps
  PROVE  /\ UNCHANGED <<edits, form, forms, save, source, cfg, lock>>
         /\ UNCHANGED <<installed, hotkey, from, output>>
         /\ kept' = FALSE => kept = FALSE
<1> USE DEF formVars, saveVars, daemonVars
<1>1. ASSUME NEW k \in Built, Supervise(k)
      PROVE  /\ UNCHANGED <<formVars, saveVars, daemonVars>>
             /\ kept' = FALSE => kept = FALSE
  <2>1. kept' = kept \/ kept' = (kept \/ ~root)
    BY <1>1 DEF Supervise
  <2>2. UNCHANGED <<formVars, saveVars, daemonVars>>
    BY <1>1 DEF Supervise
  <2>3. QED
    BY <2>1, <2>2 DEF TypeOK
<1>2. ASSUME NEW k \in Built, ListenEnds(k)
      PROVE  UNCHANGED <<formVars, saveVars, daemonVars, kept>>
  BY <1>2 DEF ListenEnds
<1>3. CASE Signal \/ Shutdown
  BY <1>3 DEF Signal, Shutdown, ShutdownStops, ShutdownCloses
<1>4. CASE CycleRuns
  BY <1>4 DEF CycleRuns, StartCycle, RecordEnds, TranscribeBegins, TranscribeEnds,
              OthersUnchanged
<1>5. CASE UNCHANGED vars
  BY <1>5 DEF vars
<1>6. QED
  BY <1>1, <1>2, <1>3, <1>4, <1>5 DEF OtherSteps

LEMMA StepReachesAll ==
  IInv /\ NotYetCurrent /\ ConfigReachesAll /\ [Next]_vars => ConfigReachesAll'
<1> SUFFICES ASSUME IInv, NotYetCurrent, ConfigReachesAll, [Next]_vars, kept' = FALSE
             PROVE  ConfigReachesAll'
  BY DEF ConfigReachesAll
<1> USE DEF formVars, saveVars, daemonVars
<1>1. TypeOK /\ Unarmed
  BY DEF IInv
<1>2. CASE Edit \/ ChangeLanguage
  BY <1>1, <1>2, EditArms DEF ConfigReachesAll, NoneIn, BeforeBuild, BeforeOutput, BeforeHotkey
<1>3. CASE CloseWindow
  <2>1. UNCHANGED <<cfg, from, installed, output, hotkey, kept>>
    BY <1>3 DEF CloseWindow
  <2>2. \A k \in Saves : save'[k] = save[k] \/ (save[k] = "armed" /\ save'[k] = "apply")
    BY <1>1, <1>3, CloseMoves
  <2>3. QED
    BY <2>1, <2>2 DEF ConfigReachesAll, NoneIn, BeforeBuild, BeforeOutput, BeforeHotkey
<1>4. ASSUME NEW k \in Saves, TimerFires(k) \/ ApplyFields(k) \/ WriteConfig(k)
      PROVE  ConfigReachesAll'
  <2>1. save'[k] \in BeforeBuild
    BY <1>1, <1>4, OneGoes DEF TimerFires, ApplyFields, WriteConfig, SaveGoes, BeforeBuild
  <2>2. QED
    BY <2>1 DEF ConfigReachesAll, NoneIn, BeforeOutput, BeforeHotkey
<1>5. ASSUME NEW k \in Saves, BuildTranscriber(k)
      PROVE  ConfigReachesAll'
  <2>1. /\ SaveGoes(k, "swap") /\ lock = 0 /\ cfg' = cfg
        /\ from' = [from EXCEPT !["transcriber"][k] = cfg]
    BY <1>5 DEF BuildTranscriber
  <2>2. save'[k] = "swap" /\ \A j \in Saves \ {k} : save'[j] = save[j]
    BY <1>1, <2>1, OneGoes
  <2>3. from'["transcriber"][k] = cfg
    BY <1>1, <2>1, Numbers DEF TypeOK
  <2>4. \A j \in Saves \ {k} : save'[j] # "swap"
    BY <2>1, <2>2, Numbers DEF IInv, LockHolder, Swapping
  <2>5. QED
    BY <2>1, <2>2, <2>3, <2>4 DEF ConfigReachesAll, NoneIn, BeforeOutput, BeforeHotkey
<1>6. ASSUME NEW k \in Saves, SwapTranscriber(k)
      PROVE  ConfigReachesAll'
  <2>1. /\ save[k] = "swap" /\ save'[k] = "close" /\ installed' = k
        /\ UNCHANGED <<cfg, from, kept>>
        /\ \A j \in Saves \ {k} : save'[j] = save[j]
    BY <1>1, <1>6, OneGoes DEF SwapTranscriber
  <2>2. ASSUME NoneIn(BeforeBuild)'
        PROVE  from["transcriber"][k] = cfg
    BY <2>1, <2>2 DEF ConfigReachesAll, NoneIn, BeforeBuild
  <2>3. \A j \in Saves : save'[j] # "swap"
    BY <2>1 DEF IInv, LockHolder, Swapping
  <2>4. QED
    BY <2>1, <2>2, <2>3 DEF ConfigReachesAll, NoneIn, BeforeOutput, BeforeHotkey
<1>7. ASSUME NEW k \in Saves, ClosePrevious(k)
      PROVE  ConfigReachesAll'
  <2>1. /\ save[k] = "close" /\ save'[k] = "output"
        /\ from' = [from EXCEPT !["transcriber"][owned] = {}]
        /\ UNCHANGED <<cfg, installed, kept>>
        /\ \A j \in Saves \ {k} : save'[j] = save[j]
    BY <1>1, <1>7, OneGoes DEF ClosePrevious
  <2>2. /\ installed = k /\ owned # k /\ k \in Built
        /\ \A j \in Saves : save[j] # "swap"
    BY <2>1, Numbers DEF IInv, LockHolder, Handover, NotYetOwned, Swapping, Unswapped
  <2>3. from'["transcriber"][installed] = from["transcriber"][installed]
    BY <1>1, <2>1, <2>2 DEF TypeOK
  <2>4. NoneIn(BeforeBuild)' => from["transcriber"][installed] = cfg
    BY <2>1, <2>2 DEF ConfigReachesAll, NoneIn, BeforeBuild
  <2>5. QED
    BY <2>1, <2>2, <2>3, <2>4 DEF ConfigReachesAll, NoneIn, BeforeOutput, BeforeHotkey
<1>8. ASSUME NEW k \in Saves, ReloadOutput(k)
      PROVE  ConfigReachesAll'
  <2>1. /\ save[k] = "output" /\ save'[k] = "hotkey" /\ output' = cfg
        /\ UNCHANGED <<cfg, installed, from, kept>>
        /\ \A j \in Saves \ {k} : save'[j] = save[j]
    BY <1>1, <1>8, OneGoes DEF ReloadOutput
  <2>2. QED
    BY <2>1 DEF ConfigReachesAll, NoneIn, BeforeBuild, BeforeHotkey
<1>9. ASSUME NEW k \in Saves, ReloadHotkey(k)
      PROVE  ConfigReachesAll'
  <2>1. /\ save[k] = "hotkey" /\ save'[k] = "done" /\ hotkey' = k
        /\ from' = [from EXCEPT !["hotkey"] = [@ EXCEPT ![k] = cfg, ![hotkey] = {}]]
        /\ UNCHANGED <<cfg, installed, output, kept>>
        /\ \A j \in Saves \ {k} : save'[j] = save[j]
    BY <1>1, <1>9, OneGoes DEF ReloadHotkey
  <2>2. hotkey # k /\ k \in Built
    BY <2>1, Numbers DEF NotYetCurrent
  <2>3. from'["hotkey"][k] = cfg /\ from'["transcriber"] = from["transcriber"]
    BY <1>1, <2>1, <2>2 DEF TypeOK
  <2>4. QED
    BY <2>1, <2>3 DEF ConfigReachesAll, NoneIn, BeforeBuild, BeforeOutput
<1>10. CASE OtherSteps
  BY <1>1, <1>10, OthersAside DEF ConfigReachesAll, NoneIn
<1>11. QED
  BY <1>2, <1>3, <1>4, <1>5, <1>6, <1>7, <1>8, <1>9, <1>10
  DEF Next, SaveRuns, Reload, OtherSteps

LEMMA StepNotYetCurrent == IInv /\ NotYetCurrent /\ [Next]_vars => NotYetCurrent'
<1> SUFFICES ASSUME IInv, NotYetCurrent, [Next]_vars
             PROVE  NotYetCurrent'
  OBVIOUS
<1> USE DEF formVars, saveVars, daemonVars
<1>1. TypeOK /\ Unarmed
  BY DEF IInv
<1>2. CASE Edit \/ ChangeLanguage
  <2>1. \A k \in Saves : save'[k] # "done" => save[k] # "done"
    BY <1>1, <1>2, EditArms, Armed
  <2>2. UNCHANGED <<hotkey, stopped>>
    BY <1>2 DEF Edit, ChangeLanguage
  <2>3. QED
    BY <2>1, <2>2 DEF NotYetCurrent
<1>3. CASE CloseWindow
  BY <1>1, <1>3, CloseMoves DEF CloseWindow, NotYetCurrent
<1>4. ASSUME NEW k \in Saves,
             \/ TimerFires(k) \/ ApplyFields(k) \/ WriteConfig(k)
             \/ BuildTranscriber(k) \/ SwapTranscriber(k) \/ ClosePrevious(k) \/ ReloadOutput(k)
      PROVE  NotYetCurrent'
  <2>1. UNCHANGED <<hotkey, stopped>> /\ save[k] # "done"
    BY <1>4 DEF TimerFires, ApplyFields, WriteConfig, BuildTranscriber, SwapTranscriber,
                ClosePrevious, ReloadOutput
  <2>2. \E where : SaveGoes(k, where)
    BY <1>4 DEF TimerFires, ApplyFields, WriteConfig, BuildTranscriber, SwapTranscriber,
                ClosePrevious, ReloadOutput, SaveGoes
  <2>3. \A j \in Saves \ {k} : save'[j] = save[j]
    BY <1>1, <2>2, OneGoes
  <2>4. QED
    BY <2>1, <2>3 DEF NotYetCurrent
<1>5. ASSUME NEW k \in Saves, ReloadHotkey(k)
      PROVE  NotYetCurrent'
  <2>1. /\ save'[k] = "done" /\ \A j \in Saves \ {k} : save'[j] = save[j]
        /\ hotkey' \in {hotkey, k} /\ stopped' \subseteq stopped \cup {hotkey}
    BY <1>1, <1>5, OneGoes DEF ReloadHotkey
  <2>2. QED
    BY <2>1 DEF NotYetCurrent
<1>6. CASE OtherSteps
  <2>1. UNCHANGED <<save, hotkey>>
    BY <1>1, <1>6, OthersAside
  <2>2. stopped' = stopped \/ stopped' = stopped \cup {hotkey}
    BY <1>6 DEF OtherSteps, Supervise, ListenEnds, Signal, Shutdown, ShutdownStops,
                ShutdownCloses, CycleRuns, StartCycle, RecordEnds, TranscribeBegins,
                TranscribeEnds, OthersUnchanged, vars
  <2>3. QED
    BY <2>1, <2>2 DEF NotYetCurrent
<1>7. QED
  BY <1>2, <1>3, <1>4, <1>5, <1>6 DEF Next, SaveRuns, Reload, OtherSteps

LEMMA StepReachesConfig == IInv /\ EditsReachConfig /\ [Next]_vars => EditsReachConfig'
<1> SUFFICES ASSUME IInv, EditsReachConfig, [Next]_vars
             PROVE  EditsReachConfig'
  OBVIOUS
<1> USE DEF formVars, saveVars, daemonVars
<1>1. TypeOK /\ Unarmed
  BY DEF IInv
<1>2. CASE Edit
  <2>1. form \in Forms /\ Schedule(form) /\ \E k \in Saves : save'[k] = "armed"
    BY <1>1, <1>2, EditArms
  <2>2. /\ edits' = edits + 1 /\ form' = form
        /\ forms' = [forms EXCEPT ![form] = @ \cup {edits + 1}]
    BY <1>2 DEF Edit
  <2>3. /\ \A f \in Forms \ {form} : forms'[f] = forms[f]
        /\ forms'[form] = forms[form] \cup {edits + 1}
    BY <1>1, <2>1, <2>2 DEF TypeOK
  <2>4. ASSUME OneForm'
        PROVE  form = 1 /\ OneForm
    <3>1. forms'[form] # {}
      BY <2>3
    <3>2. form = 1
      BY <2>1, <2>4, <3>1 DEF OneForm
    <3>3. QED
      BY <2>3, <2>4, <3>2 DEF OneForm
  <2>5. ASSUME OneForm'
        PROVE  /\ forms'[1] = 1..edits' /\ \A k \in Saves : source'[k] = 1
               /\ ~NoneIn({"armed", "apply"})'
    <3>1. forms[1] = 1..edits /\ \A k \in Saves : source[k] = 1
      BY <2>4, <2>5 DEF EditsReachConfig
    <3>2. (1..edits) \cup {edits + 1} = 1..(edits + 1)
      BY <1>1 DEF TypeOK
    <3>3. \A k \in Saves : source'[k] = 1
      BY <1>1, <2>1, <2>4, <2>5, <3>1, Armed
    <3>4. QED
      BY <2>1, <2>2, <2>3, <2>4, <2>5, <3>1, <3>2, <3>3 DEF NoneIn
  <2>6. form' \notin {0, 1} => forms'[form'] # {}
    BY <2>2, <2>3
  <2>7. QED
    BY <2>5, <2>6 DEF EditsReachConfig
<1>3. CASE ChangeLanguage
  <2>1. form \in Forms /\ form + 1 \in Forms /\ form # form + 1 /\ form + 1 # 1
    BY <1>1, <1>3, EditArms, Numbers DEF ChangeLanguage, Forms
  <2>2. forms'[form + 1] = cfg' /\ edits + 1 \in cfg' /\ form' = form + 1
    BY <1>1, <1>3, <2>1 DEF ChangeLanguage, TypeOK
  <2>3. forms'[form + 1] # {}
    BY <2>2
  <2>4. ~OneForm'
    BY <2>1, <2>3 DEF OneForm
  <2>5. QED
    BY <2>2, <2>3, <2>4 DEF EditsReachConfig
<1>4. CASE CloseWindow
  <2>1. UNCHANGED <<edits, forms, source, cfg>> /\ form' = 0
    BY <1>4 DEF CloseWindow
  <2>2. NoneIn({"armed", "apply"})' => NoneIn({"armed", "apply"})
    BY <1>1, <1>4, CloseMoves DEF NoneIn
  <2>3. QED
    BY <2>1, <2>2 DEF EditsReachConfig, OneForm
<1>5. ASSUME NEW k \in Saves, SaveRuns(k)
      PROVE  EditsReachConfig'
  <2>1. UNCHANGED <<edits, form, forms, source>>
    BY <1>5 DEF SaveRuns, Reload, TimerFires, ApplyFields, WriteConfig, BuildTranscriber,
                SwapTranscriber, ClosePrevious, ReloadOutput, ReloadHotkey
  <2>2. CASE TimerFires(k)
    <3>1. save'[k] = "apply"
      BY <1>1, <2>2 DEF TimerFires, TypeOK
    <3>2. QED
      BY <2>1, <3>1 DEF EditsReachConfig, OneForm, NoneIn
  <2>3. CASE ApplyFields(k)
    <3>1. cfg' = forms[source[k]]
      BY <2>3 DEF ApplyFields
    <3>2. QED
      BY <2>1, <3>1 DEF EditsReachConfig, OneForm
  <2>4. CASE WriteConfig(k) \/ Reload(k)
    <3>1. cfg' = cfg /\ save[k] \notin {"armed", "apply"}
      BY <2>4 DEF Reload, WriteConfig, BuildTranscriber, SwapTranscriber, ClosePrevious,
                  ReloadOutput, ReloadHotkey
    <3>2. \E where : SaveGoes(k, where)
      BY <2>4 DEF Reload, WriteConfig, BuildTranscriber, SwapTranscriber, ClosePrevious,
                  ReloadOutput, ReloadHotkey
    <3>3. \A j \in Saves \ {k} : save'[j] = save[j]
      BY <1>1, <3>2, OneGoes
    <3>4. NoneIn({"armed", "apply"})' => NoneIn({"armed", "apply"})
      BY <3>1, <3>3 DEF NoneIn
    <3>5. QED
      BY <2>1, <3>1, <3>4 DEF EditsReachConfig, OneForm
  <2>5. QED
    BY <1>5, <2>2, <2>3, <2>4 DEF SaveRuns
<1>6. CASE OtherSteps
  BY <1>1, <1>6, OthersAside DEF EditsReachConfig, OneForm, NoneIn
<1>7. QED
  BY <1>2, <1>3, <1>4, <1>5, <1>6 DEF Next, OtherSteps

LEMMA StepWatched ==
  IInv /\ NotYetCurrent /\ HotkeyIsWatched /\ [Next]_vars => HotkeyIsWatched'
<1> SUFFICES ASSUME IInv, NotYetCurrent, HotkeyIsWatched, [Next]_vars
             PROVE  HotkeyIsWatched'
  OBVIOUS
<1> USE DEF formVars, saveVars, daemonVars, watchVars, shutVars, cycleVars
<1>1. TypeOK
  BY DEF IInv
<1>2. ASSUME UNCHANGED <<hotkey, stopped, supervisor, listener>>,
             root' = FALSE => root = FALSE, kept' = FALSE => kept = FALSE
      PROVE  HotkeyIsWatched'
  BY <1>2 DEF HotkeyIsWatched
<1>3. CASE Edit \/ ChangeLanguage \/ CloseWindow
  BY <1>2, <1>3 DEF Edit, ChangeLanguage, CloseWindow
<1>4. ASSUME NEW k \in Saves,
             \/ TimerFires(k) \/ ApplyFields(k) \/ WriteConfig(k)
             \/ BuildTranscriber(k) \/ SwapTranscriber(k) \/ ClosePrevious(k) \/ ReloadOutput(k)
      PROVE  HotkeyIsWatched'
  <2>1. UNCHANGED <<hotkey, stopped, supervisor, listener, root>>
    BY <1>4 DEF TimerFires, ApplyFields, WriteConfig, BuildTranscriber, SwapTranscriber,
                ClosePrevious, ReloadOutput
  <2>2. kept' = kept \/ kept' = TRUE
    BY <1>4 DEF TimerFires, ApplyFields, WriteConfig, BuildTranscriber, SwapTranscriber,
                ClosePrevious, ReloadOutput
  <2>3. QED
    BY <1>2, <2>1, <2>2
<1>5. ASSUME NEW k \in Saves, ReloadHotkey(k)
      PROVE  HotkeyIsWatched'
  <2>1. CASE UNCHANGED <<hotkey, stopped, supervisor>> /\ kept' = TRUE
    BY <1>2, <1>5, <2>1 DEF ReloadHotkey
  <2>2. CASE /\ stopped' = stopped \cup {hotkey} /\ hotkey' = k
             /\ supervisor' = [supervisor EXCEPT ![k] = "started"]
    <3>1. k \in Built /\ save[k] = "hotkey" /\ UNCHANGED <<listener, root>>
      BY <1>5, Numbers DEF ReloadHotkey
    <3>2. supervisor'[k] = "started" /\ \A j \in Built \ {k} : supervisor'[j] = supervisor[j]
      BY <1>1, <2>2, <3>1 DEF TypeOK
    <3>3. k \notin stopped' 
      BY <2>2, <3>1 DEF NotYetCurrent
    <3>4. \A j \in Built : supervisor'[j] = "listening" => listener'[j] \in stopped' \cup {hotkey'}
      BY <2>2, <3>1, <3>2 DEF HotkeyIsWatched
    <3>5. QED
      BY <2>2, <3>1, <3>2, <3>3, <3>4 DEF HotkeyIsWatched
  <2>3. QED
    BY <1>5, <2>1, <2>2 DEF ReloadHotkey
<1>6. ASSUME NEW k \in Built, Supervise(k)
      PROVE  HotkeyIsWatched'
  <2>1. UNCHANGED <<hotkey, stopped, root>> /\ supervisor[k] = "started"
    BY <1>6 DEF Supervise
  <2>2. CASE /\ supervisor' = [supervisor EXCEPT ![k] = "listening"]
             /\ listener' = [listener EXCEPT ![k] = hotkey]
    <3>1. /\ supervisor'[k] = "listening" /\ listener'[k] = hotkey
          /\ \A j \in Built \ {k} : supervisor'[j] = supervisor[j] /\ listener'[j] = listener[j]
      BY <1>1, <2>2 DEF TypeOK
    <3>2. QED
      BY <2>1, <3>1 DEF HotkeyIsWatched
  <2>3. CASE /\ supervisor' = [supervisor EXCEPT ![k] = "gone"]
             /\ kept' = (kept \/ ~root) /\ listener' = listener
    <3>1. supervisor'[k] = "gone" /\ \A j \in Built \ {k} : supervisor'[j] = supervisor[j]
      BY <1>1, <2>3 DEF TypeOK
    <3>2. root = FALSE => kept' # FALSE
      BY <1>1, <2>3 DEF TypeOK
    <3>3. QED
      BY <2>1, <2>3, <3>1, <3>2 DEF HotkeyIsWatched
  <2>4. QED
    BY <1>6, <2>2, <2>3 DEF Supervise
<1>7. ASSUME NEW k \in Built, ListenEnds(k)
      PROVE  HotkeyIsWatched'
  <2>1. /\ UNCHANGED <<hotkey, stopped, root, kept>>
        /\ supervisor[k] = "listening" /\ (root \/ listener[k] \in stopped)
        /\ supervisor' = [supervisor EXCEPT ![k] = "gone"]
        /\ listener' = [listener EXCEPT ![k] = 0]
    BY <1>7 DEF ListenEnds
  <2>2. /\ supervisor'[k] = "gone"
        /\ \A j \in Built \ {k} : supervisor'[j] = supervisor[j] /\ listener'[j] = listener[j]
    BY <1>1, <2>1 DEF TypeOK
  <2>3. root = FALSE => listener[k] # hotkey
    BY <2>1 DEF HotkeyIsWatched
  <2>4. QED
    BY <2>1, <2>2, <2>3 DEF HotkeyIsWatched
<1>8. CASE Signal
  BY <1>8 DEF Signal, HotkeyIsWatched
<1>9. CASE Shutdown
  <2>1. CASE ShutdownStops
    <3>1. /\ root /\ UNCHANGED <<hotkey, supervisor, listener, root>>
          /\ stopped' = stopped \cup {hotkey}
      BY <2>1 DEF ShutdownStops
    <3>2. QED
      BY <3>1 DEF HotkeyIsWatched
  <2>2. CASE ShutdownCloses
    BY <1>2, <2>2 DEF ShutdownCloses
  <2>3. QED
    BY <1>9, <2>1, <2>2 DEF Shutdown
<1>10. CASE CycleRuns
  BY <1>2, <1>10 DEF CycleRuns, StartCycle, RecordEnds, TranscribeBegins, TranscribeEnds,
                     OthersUnchanged
<1>11. CASE UNCHANGED vars
  BY <1>2, <1>11 DEF vars
<1>12. QED
  BY <1>3, <1>4, <1>5, <1>6, <1>7, <1>8, <1>9, <1>10, <1>11 DEF Next, SaveRuns, Reload

EffectInv == ConfigReachesAll /\ NotYetCurrent /\ EditsReachConfig /\ HotkeyIsWatched

LEMMA EffectInvariant == Spec => []EffectInv
<1>1. Init => EffectInv
  <2> SUFFICES ASSUME Init
               PROVE  EffectInv
    OBVIOUS
  <2> USE Numbers DEF Init
  <2>1. ConfigReachesAll /\ NotYetCurrent
    BY DEF ConfigReachesAll, NotYetCurrent, NoneIn
  <2>2. forms[1] = 1..edits
    OBVIOUS
  <2>3. EditsReachConfig
    BY <2>2 DEF EditsReachConfig
  <2>4. HotkeyIsWatched
    BY DEF HotkeyIsWatched
  <2>5. QED
    BY <2>1, <2>3, <2>4 DEF EffectInv
<1>2. IInv /\ EffectInv /\ [Next]_vars => EffectInv'
  BY StepReachesAll, StepNotYetCurrent, StepReachesConfig, StepWatched DEF EffectInv
<1>3. QED
  BY <1>1, <1>2, Invariance, PTL DEF Spec

(* Where nobody can go on, no save is held up: who holds reloadMu could.    *)
LEMMA SettledSaves ==
  ASSUME IInv, Settled
  PROVE  \A k \in Saves : save[k] \in {"none", "done"}
<1>1. \A k \in Saves : save[k] \notin Swapping
  BY DEF Settled, SaveCanGoOn, Swapping, AtWork
<1>2. lock = 0
  <2>1. lock \in Saves \/ lock = 0
    BY Numbers DEF IInv, TypeOK
  <2>2. QED
    BY <1>1, <2>1 DEF IInv, LockHolder
<1>3. QED
  BY <1>1, <1>2 DEF Settled, SaveCanGoOn, Swapping, IInv, TypeOK, SaveSteps

(* Edits take effect for any number of edits, saves and forms: neither the  *)
(* debounce, nor a save that another overtook between apply, write and the  *)
(* three reloads, nor the close of the window loses one, and none hangs.    *)
THEOREM EditsAreNotLost == Spec => []EditsTakeEffect
<1>1. IInv /\ EffectInv => EditsTakeEffect
  <2> SUFFICES ASSUME IInv, EffectInv, Settled
               PROVE  /\ \A k \in Saves : save[k] \in {"none", "done"}
                      /\ ~kept /\ ~root =>
                           /\ from["transcriber"][installed] = cfg
                           /\ output = cfg
                           /\ from["hotkey"][hotkey] = cfg
                           /\ OneForm => cfg = 1..edits
    BY DEF EditsTakeEffect, OneForm
  <2>1. \A k \in Saves : save[k] \in {"none", "done"}
    BY SettledSaves
  <2>2. /\ NoneIn(BeforeBuild) /\ NoneIn(BeforeOutput) /\ NoneIn(BeforeHotkey)
        /\ NoneIn({"swap"}) /\ NoneIn({"armed", "apply"})
    BY <2>1 DEF NoneIn, BeforeBuild, BeforeOutput, BeforeHotkey
  <2>3. OneForm => cfg = 1..edits
    BY <2>2 DEF EffectInv, EditsReachConfig
  <2>4. ASSUME ~kept
        PROVE  /\ from["transcriber"][installed] = cfg /\ output = cfg
               /\ from["hotkey"][hotkey] = cfg
    <3>1. kept = FALSE
      BY <2>4 DEF IInv, TypeOK
    <3>2. QED
      BY <2>2, <3>1 DEF EffectInv, ConfigReachesAll
  <2>5. QED
    BY <2>1, <2>3, <2>4
<1>2. QED
  BY <1>1, Invariance, EffectInvariant, PTL

(* Once all have gone on, the listeners listened to are the current one,    *)
(* however many reloads met and whichever listener each supervisor found.   *)
THEOREM HotkeyIsHeard == Spec => []CurrentHotkeyIsHeard
<1>1. IInv /\ EffectInv => CurrentHotkeyIsHeard
  <2> SUFFICES ASSUME IInv, EffectInv, Settled, ~root
               PROVE  Heard \subseteq {hotkey} /\ (~kept => hotkey \in Heard)
    BY DEF CurrentHotkeyIsHeard
  <2>1. \A k \in Built : /\ supervisor[k] # "started"
                         /\ supervisor[k] = "listening" => listener[k] \notin stopped
    BY DEF Settled
  <2>2. Heard \subseteq {hotkey}
    BY <2>1 DEF Heard, EffectInv, HotkeyIsWatched
  <2>3. ASSUME ~kept
        PROVE  hotkey \in Heard
    <3>1. kept = FALSE /\ root = FALSE
      BY <2>3 DEF IInv, TypeOK
    <3>2. QED
      BY <2>1, <3>1 DEF Heard, EffectInv, HotkeyIsWatched
  <2>4. QED
    BY <2>2, <2>3
<1>2. QED
  BY <1>1, Invariance, EffectInvariant, PTL
=============================================================================
