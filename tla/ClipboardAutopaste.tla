------------------------- MODULE ClipboardAutopaste -------------------------
(***************************************************************************)
(* Delivering a transcript through the clipboard                           *)
(* (internal/adapters/output/clipboard_autopaste.go, clipboard.go) and     *)
(* giving the user's own clipboard back afterwards: the cycle's goroutine, *)
(* the goroutine that snapshots the clipboard while the user is talking, a *)
(* reload that swaps the output in between, and the user, who copies       *)
(* whenever he likes.  The clipboard itself is the desktop's; every read   *)
(* and every write of it is one step and may fail.                         *)
(***************************************************************************)
EXTENDS Naturals

CONSTANTS
  Restore,      \* is restore_clipboard on, and a reader available?
  MaxCycles,    \* bound: dictations
  MaxCopies,    \* bound: payloads the user puts on the clipboard
  MaxOutputs    \* bound: outputs built (one, plus one per reload)

ASSUME ClipboardAssumption ==
  /\ Restore \in BOOLEAN
  /\ MaxCycles \in Nat /\ MaxCopies \in Nat /\ MaxOutputs \in Nat \ {0}

Cycles  == 1..MaxCycles
Outputs == 1..MaxOutputs

(* What the clipboard can hold, and what a snapshot can come back with.     *)
Copied(n)     == [by |-> "user", n |-> n]
Transcript(c) == [by |-> "a2text", n |-> c]
Nothing       == [by |-> "nobody", n |-> 0]
Failed        == [by |-> "error", n |-> 0]
Contents  == {Copied(n) : n \in 0..MaxCopies} \cup {Transcript(c) : c \in Cycles}
               \cup {Nothing}
Snapshots == Contents \cup {Failed}

VARIABLES
  clip,        \* the desktop's clipboard
  copies,      \* how often the user has copied
  out,         \* VoiceUseCase.output: the output installed
  cycle,       \* the current dictation, 0 before the first
  at,          \* where its goroutine is
  using,       \* the output Deliver was called on
  slot,        \* slot[o]: preSnap of output o, the cycle that filled it or 0
  chan,        \* chan[c]: the channel of c's pre-snapshot
  waiting,     \* the channel consumePreSnapshot took, 0 if none
  prev,        \* the snapshot to restore
  cancelled,   \* the cycle's ctx is done
  result,      \* what Deliver returned for the last cycle
  pasted,      \* pasted[c]: what Ctrl+V put at the cursor
  seen,        \* what the clipboard held since the cycle began
  before,      \* what it held when the cycle began
  clean,       \* nothing failed and the user copied nothing in this cycle
  touched      \* the user copied since the last re-read, or it failed

history == <<seen, before, clean, touched>>
vars == <<clip, copies, out, cycle, at, using, slot, chan, waiting, prev,
          cancelled, result, pasted, seen, before, clean, touched>>

Steps == {"idle", "record", "transcribe", "wait", "sync", "copy", "fallback",
          "settle", "paste", "linger", "guard", "restore"}
Unread == [by |-> "pending", n |-> 0]

TypeOK ==
  /\ clip \in Contents /\ prev \in Snapshots
  /\ copies \in 0..MaxCopies /\ cycle \in 0..MaxCycles
  /\ out \in Outputs /\ using \in Outputs
  /\ at \in Steps
  /\ slot \in [Outputs -> 0..MaxCycles]
  /\ chan \in [Cycles -> Snapshots \cup {Unread}]
  /\ waiting \in 0..MaxCycles
  /\ cancelled \in BOOLEAN /\ clean \in BOOLEAN /\ touched \in BOOLEAN
  /\ result \in {"none", "ok", "error", "raced"}
  /\ pasted \in [Cycles -> Contents]
  /\ seen \subseteq Contents /\ before \in Contents

Init ==
  /\ clip \in {Nothing, Copied(0)}
  /\ copies = 0 /\ out = 1 /\ cycle = 0 /\ at = "idle" /\ using = 1
  /\ slot = [o \in Outputs |-> 0]
  /\ chan = [c \in Cycles |-> Unread]
  /\ waiting = 0 /\ prev = Nothing
  /\ cancelled = FALSE
  /\ result = "none"
  /\ pasted = [c \in Cycles |-> Nothing]
  /\ seen = {} /\ before = Nothing
  /\ clean = TRUE /\ touched = FALSE

-----------------------------------------------------------------------------
(* Everybody else.                                                         *)

UserCopies ==
  /\ copies < MaxCopies
  /\ copies' = copies + 1
  /\ clip' = Copied(copies + 1)
  /\ seen' = seen \cup {clip'}
  /\ clean' = FALSE /\ touched' = TRUE
  /\ UNCHANGED <<out, cycle, at, using, slot, chan, waiting, prev, cancelled,
                 result, pasted, before>>

(* ReloadOutput swaps in an output of its own, with an empty slot.          *)
SwapOutput ==
  /\ out < MaxOutputs
  /\ out' = out + 1
  /\ UNCHANGED <<clip, copies, cycle, at, using, slot, chan, waiting, prev,
                 cancelled, result, pasted>> /\ UNCHANGED history

Cancel ==
  /\ ~cancelled
  /\ cancelled' = TRUE
  /\ clean' = FALSE
  /\ UNCHANGED <<clip, copies, out, cycle, at, using, slot, chan, waiting,
                 prev, result, pasted, seen, before, touched>>

(* The goroutine PreSnapshot started reads the clipboard, or fails to.      *)
PreSnapshotEnds(c) ==
  /\ c <= cycle /\ Restore
  /\ chan[c] = Unread
  /\ \/ chan' = [chan EXCEPT ![c] = clip] /\ UNCHANGED clean
     \/ chan' = [chan EXCEPT ![c] = Failed] /\ clean' = FALSE
  /\ UNCHANGED <<clip, copies, out, cycle, at, using, slot, waiting, prev,
                 cancelled, result, pasted, seen, before, touched>>

-----------------------------------------------------------------------------
(* The cycle's goroutine.  Cycle calls PreSnapshot before it records.       *)

Goto(where) == at' = where
Finish(answer) == at' = "idle" /\ result' = answer

(* Seeded fault: a pre-snapshot still in flight is kept.                    *)
BeginKeepingSlot ==
  /\ at = "idle" /\ cycle < MaxCycles /\ ~cancelled
  /\ cycle' = cycle + 1
  /\ slot' = IF Restore /\ slot[out] = 0
             THEN [slot EXCEPT ![out] = cycle + 1] ELSE slot
  /\ before' = clip /\ seen' = {clip}
  /\ clean' = TRUE
  /\ Goto("record")
  /\ UNCHANGED <<clip, copies, out, using, chan, waiting, prev, cancelled,
                 result, pasted, touched>>

Begin ==
  /\ at = "idle" /\ cycle < MaxCycles /\ ~cancelled
  /\ cycle' = cycle + 1
  /\ slot' = IF Restore THEN [slot EXCEPT ![out] = cycle + 1] ELSE slot
  /\ before' = clip /\ seen' = {clip}
  /\ clean' = TRUE
  /\ Goto("record")
  /\ UNCHANGED <<clip, copies, out, using, chan, waiting, prev, cancelled,
                 result, pasted, touched>>

(* The output is loaded once, before the transcription.                     *)
RecordEnds ==
  /\ at = "record"
  /\ \/ Finish("error") /\ UNCHANGED using
     \/ Goto("transcribe") /\ using' = out /\ UNCHANGED result
  /\ UNCHANGED <<clip, copies, out, cycle, slot, chan, waiting, prev,
                 cancelled, pasted>> /\ UNCHANGED history

(* Deliver begins: take the pre-snapshot out of the slot, if there is one.  *)
TranscribeEnds ==
  /\ at = "transcribe"
  /\ \/ /\ Finish("error")
        /\ UNCHANGED <<slot, waiting, prev>>
     \/ /\ ~cancelled
        /\ slot' = [slot EXCEPT ![using] = 0]
        /\ waiting' = slot[using]
        /\ prev' = Nothing
        /\ Goto(IF ~Restore THEN "copy"
                ELSE IF slot[using] # 0 THEN "wait" ELSE "sync")
        /\ UNCHANGED result
  /\ UNCHANGED <<clip, copies, out, cycle, using, chan, cancelled, pasted,
                 seen, before, clean, touched>>

(* Seeded fault: when the grace expires the snapshot is given up.           *)
AwaitGivesUp ==
  /\ at = "wait"
  /\ Goto("copy")
  /\ prev' = IF chan[waiting] # Unread THEN chan[waiting] ELSE Nothing
  /\ waiting' = 0
  /\ UNCHANGED <<clip, copies, out, cycle, using, slot, chan, cancelled,
                 result, pasted>> /\ UNCHANGED history

(* Seeded fault: the wait has no limit.                                     *)
AwaitForever ==
  /\ at = "wait"
  /\ chan[waiting] # Unread
  /\ prev' = chan[waiting]
  /\ Goto("copy")
  /\ waiting' = 0
  /\ UNCHANGED <<clip, copies, out, cycle, using, slot, chan, cancelled,
                 result, pasted>> /\ UNCHANGED history

(* Up to preSnapshotWaitGrace for the channel; a snapshot that failed is an *)
(* answer too.                                                              *)
AwaitPreSnapshot ==
  /\ at = "wait"
  /\ \/ /\ chan[waiting] # Unread
        /\ prev' = chan[waiting]
        /\ Goto("copy")
     \/ /\ chan[waiting] = Unread
        /\ Goto("sync")
        /\ UNCHANGED prev
  /\ waiting' = 0
  /\ UNCHANGED <<clip, copies, out, cycle, using, slot, chan, cancelled,
                 result, pasted>> /\ UNCHANGED history

SyncSnapshot ==
  /\ at = "sync"
  /\ Goto("copy")
  /\ \/ prev' = clip /\ UNCHANGED clean
     \/ prev' = Nothing /\ clean' = FALSE
  /\ UNCHANGED <<clip, copies, out, cycle, using, slot, chan, waiting,
                 cancelled, result, pasted, seen, before, touched>>

(* ClipboardOutput.Deliver: the clipboard, or else the log.                 *)
Copy ==
  /\ at = "copy"
  /\ \/ cancelled /\ Finish("error") /\ UNCHANGED <<clip, clean>>
     \/ ~cancelled /\ clip' = Transcript(cycle) /\ Goto("settle")
          /\ UNCHANGED <<result, clean>>
     \/ ~cancelled /\ clean' = FALSE /\ Goto("fallback")
          /\ UNCHANGED <<clip, result>>
  /\ seen' = seen \cup {clip'}
  /\ UNCHANGED <<copies, out, cycle, using, slot, chan, waiting, prev,
                 cancelled, pasted, before, touched>>

Fallback ==
  /\ at = "fallback"
  /\ \/ Finish("error")
     \/ ~cancelled /\ Goto("settle") /\ UNCHANGED result
  /\ UNCHANGED <<clip, copies, out, cycle, using, slot, chan, waiting, prev,
                 cancelled, pasted>> /\ UNCHANGED history

(* Seeded fault: the keystroke is sent without the re-read.                 *)
RereadSkipped ==
  /\ at = "settle"
  /\ \/ cancelled /\ Finish("error")
     \/ ~cancelled /\ Goto("paste") /\ UNCHANGED result
  /\ touched' = FALSE
  /\ UNCHANGED <<clip, copies, out, cycle, using, slot, chan, waiting, prev,
                 cancelled, pasted, seen, before, clean>>

(* The delay, then the re-read that guards the keystroke.  A re-read that   *)
(* fails guards nothing.                                                    *)
Reread ==
  /\ at = "settle"
  /\ \/ cancelled /\ Finish("error") /\ UNCHANGED <<clean, touched>>
     \/ /\ ~cancelled /\ (~Restore \/ clip = Transcript(cycle))
        /\ Goto("paste") /\ touched' = FALSE /\ UNCHANGED <<result, clean>>
     \/ /\ ~cancelled /\ Restore
        /\ Goto("paste") /\ touched' = TRUE /\ clean' = FALSE /\ UNCHANGED result
     \/ /\ ~cancelled /\ Restore /\ clip # Transcript(cycle)
        /\ Finish("raced") /\ touched' = FALSE /\ UNCHANGED clean
  /\ UNCHANGED <<clip, copies, out, cycle, using, slot, chan, waiting, prev,
                 cancelled, pasted, seen, before>>

(* canRestore: there must be something to give back.                        *)
CanRestore == Restore /\ prev \notin {Nothing, Failed}

(* Ctrl+V.  A tool that fails is only logged; one that is cancelled, or is  *)
(* killed by its own time limit, fails the delivery, typed or not.          *)
Paste ==
  /\ at = "paste"
  /\ \/ pasted' = [pasted EXCEPT ![cycle] = clip] /\ ~cancelled
     \/ UNCHANGED pasted
  /\ \/ Finish("error") /\ clean' = FALSE
     \/ ~cancelled /\ CanRestore /\ Goto("linger") /\ UNCHANGED <<result, clean>>
     \/ ~cancelled /\ ~CanRestore /\ Finish("ok") /\ UNCHANGED clean
  /\ UNCHANGED <<clip, copies, out, cycle, using, slot, chan, waiting, prev,
                 cancelled, seen, before, touched>>

Linger ==
  /\ at = "linger"
  /\ \/ cancelled /\ Finish("ok")
     \/ Goto("guard") /\ UNCHANGED result
  /\ UNCHANGED <<clip, copies, out, cycle, using, slot, chan, waiting, prev,
                 cancelled, pasted>> /\ UNCHANGED history

(* Seeded fault: the guard forgets to look.                                 *)
GuardSkipped ==
  /\ at = "guard"
  /\ touched' = FALSE
  /\ Goto("restore")
  /\ UNCHANGED <<clip, copies, out, cycle, using, slot, chan, waiting, prev,
                 cancelled, result, pasted, seen, before, clean>>

Guard ==
  /\ at = "guard"
  /\ touched' = FALSE
  /\ \/ Finish("ok") /\ clean' = FALSE
     \/ clip # Transcript(cycle) /\ Finish("ok") /\ UNCHANGED clean
     \/ clip = Transcript(cycle) /\ Goto("restore") /\ UNCHANGED <<result, clean>>
  /\ UNCHANGED <<clip, copies, out, cycle, using, slot, chan, waiting, prev,
                 cancelled, pasted, seen, before>>

RunRestore ==
  /\ at = "restore"
  /\ Finish("ok")
  /\ \/ clip' = prev /\ UNCHANGED clean
     \/ UNCHANGED clip /\ clean' = FALSE
  /\ UNCHANGED <<copies, out, cycle, using, slot, chan, waiting, prev,
                 cancelled, pasted, seen, before, touched>>

Deliver ==
  \/ AwaitPreSnapshot \/ SyncSnapshot \/ Copy \/ Fallback \/ Reread \/ Paste
  \/ Linger \/ Guard \/ RunRestore

Next ==
  \/ UserCopies
  \/ SwapOutput
  \/ Cancel
  \/ \E c \in Cycles : PreSnapshotEnds(c)
  \/ Begin
  \/ RecordEnds
  \/ TranscribeEnds
  \/ Deliver

Spec == Init /\ [][Next]_vars

(* The cycle's goroutine runs, and each command it starts has a timeout.    *)
FairSpec == Spec /\ WF_vars(RecordEnds \/ TranscribeEnds \/ Deliver)

-----------------------------------------------------------------------------
(* Properties.                                                             *)

(* A cycle nothing disturbed leaves the user's clipboard as it found it,    *)
(* whether the snapshot came early or synchronously and whichever           *)
(* output it was taken on.                                                  *)
CleanCycleGivesBack ==
  Restore /\ at = "idle" /\ cycle > 0 /\ clean /\ before # Nothing
    => clip = before

(* What is restored was on the clipboard during this very cycle: no         *)
(* snapshot outlives the dictation it was taken for, not even when that     *)
(* dictation failed or the output was swapped.                              *)
NothingOlderIsRestored ==
  at = "restore" => prev \in seen

(* The restore overwrites something of the user's only if he copied it in   *)
(* the instant between the race check and the write.                        *)
RestoreSparesTheUser ==
  [][at = "restore" /\ clip' # clip /\ clip.by = "user" => touched]_vars

(* With the guard in place Ctrl+V puts nothing but the transcript at the    *)
(* cursor, unless the clipboard changed after the re-read or could not be   *)
(* re-read.                                                                 *)
PasteIsGuarded ==
  [][Restore /\ at = "paste" /\ pasted' # pasted /\ ~touched
       => pasted'[cycle] = Transcript(cycle)]_vars

(* A cycle always ends; no wait in Deliver is for ever.                     *)
CycleEnds == at # "idle" ~> at = "idle"

=============================================================================
