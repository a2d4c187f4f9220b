---------------------- MODULE ClipboardAutopasteProofs ----------------------
(***************************************************************************)
(* Proofs about ClipboardAutopaste for any number of dictations, of        *)
(* outputs swapped in and of payloads the user copies, with restoring on   *)
(* or off.                                                                 *)
(***************************************************************************)
EXTENDS ClipboardAutopaste, TLAPS

(* What the clipboard may hold is told apart by who put it there, and the   *)
(* two values that are no contents are not among the contents.              *)
LEMMA ContentsFacts ==
  /\ \A n \in 0..MaxCopies : Copied(n) \in Contents
  /\ \A c \in Cycles : Transcript(c) \in Contents /\ Transcript(c).by # "user"
  /\ Nothing \in Contents
  /\ Failed \notin Contents /\ Unread \notin Snapshots
  /\ Failed # Nothing /\ Failed # Unread /\ Nothing # Unread
  /\ Contents \subseteq Snapshots /\ Failed \in Snapshots
<1> USE DEF Contents, Snapshots, Copied, Transcript, Nothing, Failed, Unread
<1>1. /\ \A n \in 0..MaxCopies : Copied(n) \in Contents
      /\ \A c \in Cycles : Transcript(c) \in Contents /\ Transcript(c).by # "user"
      /\ Nothing \in Contents
  OBVIOUS
<1>2. Failed \notin Contents
  OBVIOUS
<1>3. Unread \notin Snapshots
  OBVIOUS
<1>4. /\ Failed # Nothing /\ Failed # Unread /\ Nothing # Unread
      /\ Contents \subseteq Snapshots /\ Failed \in Snapshots
  OBVIOUS
<1>5. QED
  BY <1>1, <1>2, <1>3, <1>4

(* Numbers of dictations, copies and outputs stay within their bounds.      *)
LEMMA NumberFacts ==
  /\ Restore \in BOOLEAN
  /\ 1 \in Outputs /\ 0 \in 0..MaxCycles /\ 0 \in 0..MaxCopies
  /\ \A c \in Cycles : c \in 0..MaxCycles /\ c # 0
  /\ \A c \in 0..MaxCycles : c # 0 => c \in Cycles
  /\ \A c \in 0..MaxCycles : c < MaxCycles => c + 1 \in Cycles
  /\ \A n \in 0..MaxCopies : n < MaxCopies => n + 1 \in 0..MaxCopies
  /\ \A o \in Outputs : o < MaxOutputs => o + 1 \in Outputs
  BY ClipboardAssumption DEF Cycles, Outputs

-----------------------------------------------------------------------------
(* The inductive invariant, in four parts.                                  *)

(* The pre-snapshot a delivery finds in the slot of its output is the one   *)
(* of its own dictation, if it finds any: a swap empties the slot, a new    *)
(* dictation overwrites it.                                                 *)
SlotInv ==
  /\ at # "idle" => cycle \in Cycles
  /\ \A o \in Outputs : o > out \/ ~Restore => slot[o] = 0
  /\ at = "record" => slot[out] \in {0, cycle}
  /\ at = "transcribe" => slot[using] \in {0, cycle}
  /\ at = "wait" => waiting = cycle

(* What a snapshot of this dictation came back with was on the clipboard    *)
(* during it; a later dictation's snapshot has not been asked for.          *)
SeenInv ==
  /\ \A c \in Cycles : c > cycle => chan[c] = Unread
  /\ cycle \in Cycles => clip \in seen /\ chan[cycle] \in seen \cup {Unread, Failed}
  /\ at \in {"copy", "fallback", "settle", "paste"} =>
       prev \in seen \cup {Nothing, Failed}
  /\ at \in {"linger", "guard", "restore"} => prev \in seen

(* In a dictation nothing disturbed the clipboard is as it was found until  *)
(* the transcript is on it, and from then on what was found is in prev.     *)
CleanInv ==
  /\ cancelled => ~clean
  /\ Restore /\ clean /\ before # Nothing =>
       /\ at # "fallback"
       /\ at = "idle" /\ cycle > 0 => clip = before
       /\ at \in {"record", "transcribe", "wait"} => chan[cycle] \in {Unread, before}
       /\ at \in {"record", "transcribe", "wait", "sync"} => clip = before
       /\ at = "copy" => prev = before
       /\ at \in {"settle", "paste", "linger", "guard", "restore"} =>
            clip = Transcript(cycle) /\ prev = before

(* Unless the user has copied since the last re-read, the clipboard still   *)
(* holds what that re-read found.                                           *)
TouchInv ==
  ~touched /\ (at = "restore" \/ (at = "paste" /\ Restore))
    => clip = Transcript(cycle)

IInv == TypeOK /\ SlotInv /\ SeenInv /\ CleanInv /\ TouchInv

(* NewClipboardAutopasteOutput leaves every variable well typed.            *)
LEMMA InitType == Init => TypeOK
<1> SUFFICES ASSUME Init
             PROVE  TypeOK
  OBVIOUS
<1> USE NumberFacts, ContentsFacts DEF Init
<1>1. clip \in Contents /\ prev \in Snapshots /\ before \in Contents /\ seen \subseteq Contents
  OBVIOUS
<1>2. /\ slot \in [Outputs -> 0..MaxCycles]
      /\ chan \in [Cycles -> Snapshots \cup {Unread}]
      /\ pasted \in [Cycles -> Contents]
  OBVIOUS
<1>3. QED
  BY <1>1, <1>2 DEF TypeOK, Steps

(* Every step keeps the types.                                              *)
LEMMA StepType == IInv /\ [Next]_vars => TypeOK'
<1> SUFFICES ASSUME IInv, [Next]_vars
             PROVE  TypeOK'
  OBVIOUS
<1> USE NumberFacts, ContentsFacts DEF IInv, TypeOK, history, Goto, Finish
<1>1. CASE UserCopies
  BY <1>1 DEF UserCopies
<1>2. CASE SwapOutput
  BY <1>2 DEF SwapOutput
<1>3. CASE Cancel
  BY <1>3 DEF Cancel
<1>4. ASSUME NEW c \in Cycles, PreSnapshotEnds(c)
      PROVE  TypeOK'
  BY <1>4, ZenonT(40) DEF PreSnapshotEnds
<1>5. CASE Begin
  BY <1>5 DEF Begin, Steps
<1>6. CASE RecordEnds
  BY <1>6 DEF RecordEnds, Steps
<1>7. CASE TranscribeEnds
  BY <1>7 DEF TranscribeEnds, Steps
<1>8. CASE AwaitPreSnapshot
  BY <1>8 DEF AwaitPreSnapshot, SlotInv, Steps
<1>9. CASE SyncSnapshot
  BY <1>9 DEF SyncSnapshot, Steps
<1>10. CASE Copy
  BY <1>10 DEF Copy, SlotInv, Steps
<1>11. CASE Fallback
  BY <1>11 DEF Fallback, Steps
<1>12. CASE Reread
  BY <1>12 DEF Reread, Steps
<1>13. CASE Paste
  BY <1>13 DEF Paste, Steps
<1>14. CASE Linger
  BY <1>14 DEF Linger, Steps
<1>15. CASE Guard
  BY <1>15 DEF Guard, Steps
<1>16. CASE RunRestore
  BY <1>16 DEF RunRestore, SeenInv, Steps
<1>17. CASE UNCHANGED vars
  BY <1>17 DEF vars
<1>18. QED
  BY <1>1, <1>2, <1>3, <1>4, <1>5, <1>6, <1>7, <1>8, <1>9, <1>10, <1>11,
     <1>12, <1>13, <1>14, <1>15, <1>16, <1>17 DEF Next, Deliver

-----------------------------------------------------------------------------
(* Nothing is under way at the start.                                       *)
LEMMA InitIInv == Init => IInv
<1> SUFFICES ASSUME Init
             PROVE  IInv
  OBVIOUS
<1>1. TypeOK
  BY InitType
<1>2. /\ at = "idle" /\ cycle = 0 /\ cancelled = FALSE
      /\ slot = [o \in Outputs |-> 0] /\ chan = [c \in Cycles |-> Unread]
  BY DEF Init
<1>3. SlotInv
  BY <1>2 DEF SlotInv
<1>4. SeenInv
  BY <1>2, NumberFacts DEF SeenInv
<1>5. CleanInv
  BY <1>2 DEF CleanInv
<1>6. TouchInv
  BY <1>2 DEF TouchInv
<1>7. QED
  BY <1>1, <1>3, <1>4, <1>5, <1>6 DEF IInv

(* The slot is emptied by whoever takes the snapshot out of it, and by a    *)
(* swap that leaves it behind.                                              *)
LEMMA StepSlot == IInv /\ [Next]_vars => SlotInv'
<1> SUFFICES ASSUME TypeOK, SlotInv, [Next]_vars
             PROVE  SlotInv'
  BY DEF IInv
<1> USE NumberFacts DEF TypeOK, SlotInv, Goto, Finish
<1>1. CASE SwapOutput
  BY <1>1, ClipboardAssumption DEF SwapOutput, Outputs
<1>2. CASE Begin
  <2>1. cycle' \in Cycles /\ at' = "record" /\ UNCHANGED <<out, using>>
    BY <1>2 DEF Begin
  <2>2. \A o \in Outputs : o > out => o # out
    BY DEF Outputs
  <2>3. /\ slot' = (IF Restore THEN [slot EXCEPT ![out] = cycle'] ELSE slot)
    BY <1>2 DEF Begin
  <2>4. QED
    BY <2>1, <2>2, <2>3
<1>3. CASE RecordEnds
  BY <1>3 DEF RecordEnds
<1>4. CASE TranscribeEnds
  BY <1>4 DEF TranscribeEnds
<1>5. CASE /\ at' \notin {"record", "transcribe", "wait"}
           /\ at' # "idle" => at # "idle"
           /\ UNCHANGED <<slot, out, cycle>>
  BY <1>5
<1>6. CASE UNCHANGED <<at, slot, out, using, cycle, waiting>>
  BY <1>6
<1>7. QED
  BY <1>1, <1>2, <1>3, <1>4, <1>5, <1>6
  DEF Next, vars, Deliver, UserCopies, Cancel, PreSnapshotEnds, AwaitPreSnapshot,
      SyncSnapshot, Copy, Fallback, Reread, Paste, Linger, Guard, RunRestore

(* A new dictation has a number, and a channel nobody has written to.       *)
LEMMA NextDictation ==
  ASSUME TypeOK, SeenInv, Begin
  PROVE  /\ cycle' \in Cycles /\ chan[cycle'] = Unread
         /\ \A c \in Cycles : c > cycle' => c > cycle
<1>1. cycle' \in Cycles /\ cycle' > cycle /\ \A c \in Cycles : c > cycle' => c > cycle
  BY ClipboardAssumption DEF TypeOK, Begin, Cycles
<1>2. QED
  BY <1>1 DEF SeenInv

(* Whatever the clipboard holds in a dictation was recorded as seen, and    *)
(* every snapshot of it is of that time.                                    *)
LEMMA StepSeen == IInv /\ [Next]_vars => SeenInv'
<1> SUFFICES ASSUME TypeOK, SlotInv, SeenInv, [Next]_vars
             PROVE  SeenInv'
  BY DEF IInv
<1> USE NumberFacts, ContentsFacts DEF TypeOK, SeenInv, Goto, Finish, history
<1>1. CASE UserCopies
  BY <1>1 DEF UserCopies
<1>2. CASE SwapOutput \/ Cancel
  BY <1>2 DEF SwapOutput, Cancel
<1>3. ASSUME NEW c \in Cycles, PreSnapshotEnds(c)
      PROVE  SeenInv'
  <2>1. \A d \in Cycles : d > cycle => d # c
    BY <1>3 DEF PreSnapshotEnds, Cycles
  <2>2. QED
    BY <1>3, <2>1 DEF PreSnapshotEnds
<1>4. CASE Begin
  BY <1>4, NextDictation DEF Begin
<1>5. CASE RecordEnds
  BY <1>5 DEF RecordEnds
<1>6. CASE TranscribeEnds
  BY <1>6 DEF TranscribeEnds
<1>7. CASE AwaitPreSnapshot
  BY <1>7 DEF AwaitPreSnapshot, SlotInv
<1>8. CASE SyncSnapshot
  BY <1>8 DEF SyncSnapshot, SlotInv
<1>9. CASE Copy
  BY <1>9 DEF Copy
<1>10. CASE Fallback \/ Reread
  BY <1>10 DEF Fallback, Reread
<1>11. CASE Paste
  BY <1>11 DEF Paste, CanRestore
<1>12. CASE Linger \/ Guard
  BY <1>12 DEF Linger, Guard
<1>13. CASE RunRestore
  BY <1>13 DEF RunRestore
<1>14. CASE UNCHANGED vars
  BY <1>14 DEF vars
<1>15. QED
  BY <1>1, <1>2, <1>3, <1>4, <1>5, <1>6, <1>7, <1>8, <1>9, <1>10, <1>11,
     <1>12, <1>13, <1>14 DEF Next, Deliver

(* A disturbance is remembered until the next dictation begins.             *)
LEMMA StepClean == IInv /\ [Next]_vars => CleanInv'
<1> SUFFICES ASSUME TypeOK, SlotInv, SeenInv, CleanInv, [Next]_vars
             PROVE  CleanInv'
  BY DEF IInv
<1> USE NumberFacts, ContentsFacts DEF TypeOK, CleanInv, Goto, Finish, history
<1>1. CASE UserCopies
  BY <1>1 DEF UserCopies
<1>2. CASE SwapOutput \/ Cancel
  BY <1>2 DEF SwapOutput, Cancel
<1>3. ASSUME NEW c \in Cycles, PreSnapshotEnds(c)
      PROVE  CleanInv'
  BY <1>3 DEF PreSnapshotEnds
<1>4. CASE Begin
  BY <1>4, NextDictation DEF Begin
<1>5. CASE RecordEnds
  BY <1>5 DEF RecordEnds
<1>6. CASE TranscribeEnds
  BY <1>6 DEF TranscribeEnds, SlotInv
<1>7. CASE AwaitPreSnapshot
  BY <1>7 DEF AwaitPreSnapshot, SlotInv
<1>8. CASE SyncSnapshot
  BY <1>8 DEF SyncSnapshot
<1>9. CASE Copy
  BY <1>9 DEF Copy
<1>10. CASE Fallback
  BY <1>10 DEF Fallback
<1>11. CASE Reread
  BY <1>11 DEF Reread
<1>12. CASE Paste
  BY <1>12 DEF Paste, CanRestore
<1>13. CASE Linger
  BY <1>13 DEF Linger
<1>14. CASE Guard
  BY <1>14 DEF Guard
<1>15. CASE RunRestore
  BY <1>15 DEF RunRestore
<1>16. CASE UNCHANGED vars
  BY <1>16 DEF vars
<1>17. QED
  BY <1>1, <1>2, <1>3, <1>4, <1>5, <1>6, <1>7, <1>8, <1>9, <1>10, <1>11,
     <1>12, <1>13, <1>14, <1>15, <1>16 DEF Next, Deliver

(* Only the user moves the clipboard between a re-read and what it guards.  *)
LEMMA StepTouch == IInv /\ [Next]_vars => TouchInv'
<1> SUFFICES ASSUME TypeOK, TouchInv, [Next]_vars
             PROVE  TouchInv'
  BY DEF IInv
<1> USE NumberFacts DEF TypeOK, TouchInv, Goto, Finish, history
<1>1. CASE Reread
  BY <1>1 DEF Reread
<1>2. CASE Guard
  BY <1>2 DEF Guard
<1>3. CASE UserCopies
  BY <1>3 DEF UserCopies
<1>4. CASE at' \notin {"paste", "restore"}
  BY <1>4
<1>5. CASE UNCHANGED <<at, touched, clip, cycle>>
  BY <1>5
<1>6. QED
  BY <1>1, <1>2, <1>3, <1>4, <1>5
  DEF Next, vars, Deliver, SwapOutput, Cancel, PreSnapshotEnds, Begin, RecordEnds,
      TranscribeEnds, AwaitPreSnapshot, SyncSnapshot, Copy, Fallback, Paste, Linger,
      RunRestore

(* The invariant is inductive and holds.                                    *)
LEMMA StepIInv == IInv /\ [Next]_vars => IInv'
  BY StepType, StepSlot, StepSeen, StepClean, StepTouch DEF IInv

(* The inductive invariant holds in every reachable state.                  *)
THEOREM Invariance == Spec => []IInv
  BY InitIInv, StepIInv, PTL DEF Spec

(* The variables keep their types.  This is not inductive by itself: that   *)
(* the transcript written is one, and that what is restored is contents,    *)
(* rests on SlotInv and SeenInv.                                            *)
THEOREM TypeCorrect == Spec => []TypeOK
  BY Invariance, PTL DEF IInv

(* A dictation nothing disturbed gives the clipboard back as it was.        *)
THEOREM UndisturbedGivesBack == Spec => []CleanCycleGivesBack
<1>1. IInv => CleanCycleGivesBack
  BY DEF IInv, CleanInv, CleanCycleGivesBack
<1>2. QED
  BY <1>1, Invariance, PTL

(* Whatever is restored was on the clipboard during this dictation.         *)
THEOREM RestoresOwnSnapshot == Spec => []NothingOlderIsRestored
<1>1. IInv => NothingOlderIsRestored
  BY DEF IInv, SeenInv, NothingOlderIsRestored
<1>2. QED
  BY <1>1, Invariance, PTL

(* The restore never overwrites what the user copied before the guard read. *)
THEOREM UsersCopySurvives == Spec => RestoreSparesTheUser
<1>1. IInv /\ [Next]_vars =>
        [at = "restore" /\ clip' # clip /\ clip.by = "user" => touched]_vars
  <2>1. IInv /\ at = "restore" /\ ~touched => clip.by # "user"
    BY ContentsFacts DEF IInv, SlotInv, TouchInv
  <2>2. QED
    BY <2>1
<1>2. QED
  BY <1>1, Invariance, PTL DEF Spec, RestoreSparesTheUser

(* Ctrl+V types the transcript, unless the user copied after the re-read or *)
(* the re-read failed.                                                      *)
THEOREM PastesTheTranscript == Spec => PasteIsGuarded
<1>1. IInv /\ [Next]_vars =>
        [Restore /\ at = "paste" /\ pasted' # pasted /\ ~touched
           => pasted'[cycle] = Transcript(cycle)]_vars
  <2>1. SUFFICES ASSUME IInv, Next, Restore, at = "paste", pasted' # pasted, ~touched
                 PROVE  pasted'[cycle] = Transcript(cycle)
    OBVIOUS
  <2>2. clip = Transcript(cycle) /\ cycle \in Cycles /\ pasted \in [Cycles -> Contents]
    BY <2>1 DEF IInv, TypeOK, SlotInv, TouchInv
  <2>3. pasted' = [pasted EXCEPT ![cycle] = clip]
    BY <2>1
    DEF Next, Deliver, UserCopies, SwapOutput, Cancel, PreSnapshotEnds, Begin,
        RecordEnds, TranscribeEnds, AwaitPreSnapshot, SyncSnapshot, Copy, Fallback,
        Reread, Paste, Linger, Guard, RunRestore
  <2>4. QED
    BY <2>2, <2>3
<1>2. QED
  BY <1>1, Invariance, PTL DEF Spec, PasteIsGuarded
=============================================================================
