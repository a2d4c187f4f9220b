------------------------ MODULE SettingsWindowProofs ------------------------
(***************************************************************************)
(* Proofs about SettingsWindow for any files the user may write, any edits *)
(* and any number of saves, forms, starts, downloads and mirrors.          *)
(***************************************************************************)
EXTENDS SettingsWindow, SequenceTheorems, TLAPS

(* How the window and the start-up move the downloads: they start one, take *)
(* note of one that ended, cancel some, let all die with the process, or    *)
(* leave them alone.                                                        *)
Dismiss(j) ==
  /\ job[j].step \in {"done", "failed"}
  /\ job' = [job EXCEPT ![j] = NoJob]
  /\ UNCHANGED <<final, partial, shared>> /\ cancelled' = cancelled

CancelSome ==
  /\ cancelled' \in SUBSET AllJobs
  /\ UNCHANGED <<final, partial, job, shared>>

DownloadStep ==
  \/ \E j \in AllJobs : StartDownload(j) \/ DownloadGoesOn(j) \/ Dismiss(j)
  \/ DownloadsDie
  \/ CancelSome

-----------------------------------------------------------------------------
(* The inductive invariant of the downloads.  As long as no two of them met *)
(* at the .partial, at most one is between opening it and renaming it, what *)
(* is there is that one's or nobody's, and it is whole before the rename.   *)
Works(j) == job[j].step \in {"copy", "rename"}

PartialInv ==
  /\ \A i, j \in AllJobs : Works(i) /\ Works(j) => i = j
  /\ \A j \in AllJobs : job[j].step = "copy" =>
       partial = none \/ (partial.by = j /\ job[j].file = "partial")
  /\ \A j \in AllJobs : job[j].step = "rename" => partial = none \/ partial.whole = TRUE
  /\ final # none => final.whole = TRUE

DownloadInv == DownloadType /\ (shared = FALSE => PartialInv)

(* Which job it is has no bearing on the name of a file that is not there.  *)
LEMMA JobFacts ==
  /\ 0 \in AllJobs /\ 0 \in 0..Sources
  /\ Jobs \subseteq AllJobs
  /\ \A n \in 0..Sources : n < Sources => n + 1 \in 0..Sources
  /\ none \in Contents
  /\ \A j \in AllJobs, b \in BOOLEAN : [by |-> j, whole |-> b] \in Contents
  BY DownloadAssumption DEF AllJobs, Contents, none

(* A download's record, and what replacing a part of it leaves alone.       *)
JobRecord == [step : DownloadSteps, source : 0..Sources,
              file : {"none", "partial", "final", "unlinked"}]

LEMMA RecordFacts ==
  /\ NoJob \in JobRecord /\ NoJob.step = "idle"
  /\ \A r \in JobRecord, to \in DownloadSteps :
        /\ [r EXCEPT !.step = to] \in JobRecord
        /\ [r EXCEPT !.step = to].step = to /\ [r EXCEPT !.step = to].file = r.file
  /\ \A r \in JobRecord, f \in {"none", "partial", "final", "unlinked"} :
        /\ [r EXCEPT !.file = f] \in JobRecord
        /\ [r EXCEPT !.file = f].step = r.step
  /\ \A r \in JobRecord, n \in 0..Sources :
        /\ [r EXCEPT !.source = n] \in JobRecord
        /\ [r EXCEPT !.source = n].step = r.step
<1>1. NoJob \in JobRecord /\ NoJob.step = "idle"
  BY JobFacts DEF JobRecord, NoJob, DownloadSteps
<1>2. ASSUME NEW r \in JobRecord, NEW to \in DownloadSteps
      PROVE  /\ [r EXCEPT !.step = to] \in JobRecord
             /\ [r EXCEPT !.step = to].step = to /\ [r EXCEPT !.step = to].file = r.file
  BY <1>2 DEF JobRecord
<1>3. ASSUME NEW r \in JobRecord, NEW f \in {"none", "partial", "final", "unlinked"}
      PROVE  /\ [r EXCEPT !.file = f] \in JobRecord
             /\ [r EXCEPT !.file = f].step = r.step
  BY <1>3 DEF JobRecord
<1>4. ASSUME NEW r \in JobRecord, NEW n \in 0..Sources
      PROVE  /\ [r EXCEPT !.source = n] \in JobRecord
             /\ [r EXCEPT !.source = n].step = r.step
  BY <1>4 DEF JobRecord
<1>5. QED
  BY <1>1, <1>2, <1>3, <1>4

(* One download moves and the others stay where they are.                   *)
Moves(j, to) ==
  /\ job' \in [AllJobs -> JobRecord]
  /\ job'[j].step = to
  /\ \A i \in AllJobs : i # j => job'[i] = job[i]

LEMMA OneMoves ==
  ASSUME DownloadType, NEW j \in AllJobs, NEW r \in JobRecord,
         job' = [job EXCEPT ![j] = r]
  PROVE  Moves(j, r.step) /\ job'[j] = r
  BY DEF DownloadType, JobRecord, Moves

LEMMA StepMoves ==
  ASSUME DownloadType, NEW j \in AllJobs, NEW from, NEW to \in DownloadSteps,
         Step(j, from, to)
  PROVE  Moves(j, to) /\ job[j].step = from
<1> DEFINE r == [job[j] EXCEPT !.step = to]
<1>1. job[j] \in JobRecord
  BY DEF DownloadType, JobRecord
<1>2. r \in JobRecord /\ r.step = to
  BY <1>1, RecordFacts
<1>3. job' = [job EXCEPT ![j] = r] /\ job[j].step = from
  BY DEF Step
<1> HIDE DEF r
<1>4. Moves(j, r.step)
  BY <1>2, <1>3, OneMoves
<1>5. QED
  BY <1>2, <1>3, <1>4

LEMMA InitDownload == DownloadInit => DownloadInv
<1> SUFFICES ASSUME DownloadInit
             PROVE  DownloadInv
  OBVIOUS
<1>1. /\ job \in [AllJobs -> JobRecord] /\ \A j \in AllJobs : job[j].step = "idle"
  BY RecordFacts DEF DownloadInit
<1>2. final = none /\ partial = none /\ cancelled = {} /\ shared = FALSE
  BY DEF DownloadInit
<1>3. DownloadType
  BY <1>1, <1>2, JobFacts DEF DownloadType, JobRecord
<1>4. PartialInv
  BY <1>1, <1>2 DEF PartialInv, Works
<1>5. QED
  BY <1>3, <1>4 DEF DownloadInv

(* A download that opens nothing and neither renames nor removes leaves the *)
(* files to those that do.                                                  *)
LEMMA MovesAside ==
  ASSUME DownloadInv, NEW j \in AllJobs,
         NEW to \in DownloadSteps \ {"copy", "rename"}, Moves(j, to),
         UNCHANGED <<final, partial, shared>>, cancelled' \subseteq AllJobs
  PROVE  DownloadInv'
<1>1. DownloadType'
  BY DEF DownloadInv, DownloadType, Moves, JobRecord
<1>2. ASSUME shared = FALSE
      PROVE  PartialInv'
  BY <1>2 DEF DownloadInv, PartialInv, Works, Moves
<1>3. QED
  BY <1>1, <1>2 DEF DownloadInv

(* os.Create: the .partial is this job's now, and was nobody's unless the   *)
(* two are noted as sharing it.                                             *)
LEMMA FetchKeeps ==
  ASSUME DownloadInv, NEW j \in AllJobs, Fetch(j)
  PROVE  DownloadInv'
<1>1. /\ DownloadType /\ job[j] \in JobRecord
      /\ job[j].source + 1 \in 0..Sources /\ cancelled' \subseteq AllJobs
      /\ final' = final
  BY JobFacts DEF DownloadInv, DownloadType, JobRecord, Fetch
<1>2. job[j].step = "try"
  BY DEF Fetch
<1> DEFINE next == [job[j] EXCEPT !.source = @ + 1]
<1>3. next \in JobRecord /\ next.step = "try"
  BY <1>1, <1>2, RecordFacts
<1>4. CASE job' = [job EXCEPT ![j] = next] /\ UNCHANGED <<partial, shared>>
  <2>1. Moves(j, "try")
    BY <1>1, <1>3, <1>4, OneMoves
  <2>2. QED
    BY <1>1, <1>4, <2>1, MovesAside DEF DownloadSteps
<1>5. CASE job' = [job EXCEPT ![j] = [next EXCEPT !.step = "remove"]] /\ UNCHANGED <<partial, shared>>
  <2> DEFINE r == [next EXCEPT !.step = "remove"]
  <2>1. r \in JobRecord /\ r.step = "remove"
    <3> HIDE DEF next
    <3>1. QED
      BY <1>3, RecordFacts DEF DownloadSteps
  <2>2. job' = [job EXCEPT ![j] = r]
    BY <1>5
  <2> HIDE DEF r
  <2>3. Moves(j, "remove")
    <3>1. Moves(j, r.step)
      BY <1>1, <2>1, <2>2, OneMoves
    <3>2. QED
      BY <2>1, <3>1
  <2>4. QED
    BY <1>1, <1>5, <2>3, MovesAside DEF DownloadSteps
<1>6. CASE /\ job' = [job EXCEPT ![j] = [step |-> "copy", source |-> job[j].source + 1,
                                         file |-> "partial"]]
           /\ partial' = [by |-> j, whole |-> FALSE]
           /\ shared' = (shared \/ \E i \in AllJobs \ {j} : job[i].step \in {"copy", "rename"})
  <2> DEFINE r == [step |-> "copy", source |-> job[j].source + 1, file |-> "partial"]
  <2>0. r \in JobRecord /\ r.step = "copy" /\ r.file = "partial"
    BY <1>1 DEF JobRecord, DownloadSteps
  <2>1. job' = [job EXCEPT ![j] = r]
    BY <1>6
  <2> HIDE DEF r
  <2>2. Moves(j, "copy") /\ job'[j].file = "partial"
    <3>1. Moves(j, r.step) /\ job'[j] = r
      BY <1>1, <2>0, <2>1, OneMoves
    <3>2. QED
      BY <2>0, <3>1
  <2>3. DownloadType'
    <3>1. partial' \in Contents
      BY <1>6, JobFacts
    <3>2. shared' \in BOOLEAN
      BY <1>6, Zenon
    <3>3. QED
      BY <1>1, <2>2, <3>1, <3>2 DEF DownloadType, Moves, JobRecord
  <2>4. ASSUME shared' = FALSE
        PROVE  PartialInv'
    <3>1. shared = FALSE /\ \A i \in AllJobs \ {j} : ~Works(i)
      BY <1>1, <1>6, <2>4, Zenon DEF DownloadType, Works
    <3>2. final # none => final.whole = TRUE
      BY <3>1 DEF DownloadInv, PartialInv
    <3>3. \A i \in AllJobs : Works(i)' => i = j
      BY <2>2, <3>1 DEF Moves, Works
    <3>4. \A i \in AllJobs : job'[i].step = "copy" =>
             partial' = none \/ (partial'.by = i /\ job'[i].file = "partial")
      BY <1>6, <2>2, <3>3 DEF Works
    <3>5. \A i \in AllJobs : job'[i].step # "rename"
      BY <2>2, <3>3 DEF Works, Moves
    <3>6. QED
      BY <1>1, <3>2, <3>3, <3>4, <3>5 DEF PartialInv
  <2>5. QED
    BY <2>3, <2>4 DEF DownloadInv
<1>7. QED
  BY <1>4, <1>5, <1>6 DEF Fetch

(* The body is read into the file that is open: into the .partial, when     *)
(* nobody else came near it, and then it is whole.                          *)
LEMMA CopyKeeps ==
  ASSUME DownloadInv, NEW j \in AllJobs, CopyBody(j)
  PROVE  DownloadInv'
<1>1. CASE Step(j, "copy", "remove") /\ UNCHANGED <<final, partial, cancelled, shared>>
  <2>1. Moves(j, "remove")
    BY <1>1, StepMoves DEF DownloadInv, DownloadSteps
  <2>2. QED
    BY <1>1, <2>1, MovesAside DEF DownloadInv, DownloadType, DownloadSteps
<1>2. CASE /\ Step(j, "copy", "rename") /\ UNCHANGED <<cancelled, shared>>
           /\ partial' = IF job[j].file = "partial" /\ partial.by = j
                         THEN [partial EXCEPT !.whole = TRUE] ELSE partial
           /\ final' = IF job[j].file = "final" /\ final.by = j
                       THEN [final EXCEPT !.whole = TRUE] ELSE final
  <2>1. Moves(j, "rename") /\ job[j].step = "copy"
    BY <1>2, StepMoves DEF DownloadInv, DownloadSteps
  <2>2. /\ partial \in Contents /\ final \in Contents
        /\ \A c \in Contents : c # none => c.by \in AllJobs /\ c.whole \in BOOLEAN
    BY DEF DownloadInv, DownloadType, Contents
  <2>3. \A c \in Contents : c.by = j => [c EXCEPT !.whole = TRUE] \in Contents
    BY DEF Contents, none
  <2>4. DownloadType'
    <3>1. partial' \in Contents /\ final' \in Contents
      BY <1>2, <2>2, <2>3
    <3>2. QED
      BY <1>2, <2>1, <3>1 DEF DownloadInv, DownloadType, Moves, JobRecord
  <2>5. ASSUME shared' = FALSE
        PROVE  PartialInv'
    <3>1. PartialInv /\ shared = FALSE
      BY <1>2, <2>5 DEF DownloadInv
    <3>2. partial' = none \/ partial'.whole = TRUE
      BY <1>2, <2>1, <2>2, <3>1 DEF PartialInv
    <3>3. final' # none => final'.whole = TRUE
      BY <1>2, <2>2, <3>1 DEF PartialInv
    <3>4. QED
      BY <2>1, <3>1, <3>2, <3>3 DEF PartialInv, Works, Moves
  <2>6. QED
    BY <2>4, <2>5 DEF DownloadInv
<1>3. QED
  BY <1>1, <1>2 DEF CopyBody

(* What the rename of one download makes of the records of the others.      *)
LEMMA RenameKeeps ==
  ASSUME DownloadInv, NEW j \in AllJobs, RenamePartial(j)
  PROVE  DownloadInv'
<1>1. job \in [AllJobs -> JobRecord] /\ job[j].step = "rename"
  BY DEF DownloadInv, DownloadType, JobRecord, RenamePartial
<1>2. CASE partial = none
  <2>1. Step(j, "rename", "remove") /\ UNCHANGED <<final, partial, shared, cancelled>>
    BY <1>1, <1>2 DEF RenamePartial, Step
  <2>2. Moves(j, "remove")
    BY <2>1, StepMoves DEF DownloadInv, DownloadSteps
  <2>3. QED
    BY <2>1, <2>2, MovesAside DEF DownloadInv, DownloadType, DownloadSteps
<1>3. CASE partial # none
  <2> DEFINE After(i) ==
        IF i = j THEN [NoJob EXCEPT !.step = "done"]
        ELSE CASE job[i].file = "partial" -> [job[i] EXCEPT !.file = "final"]
               [] job[i].file = "final" -> [job[i] EXCEPT !.file = "unlinked"]
               [] OTHER -> job[i]
  <2>1. /\ final' = partial /\ partial' = none /\ UNCHANGED <<cancelled, shared>>
        /\ job' = [i \in AllJobs |-> After(i)]
    BY <1>3 DEF RenamePartial
  <2>2. After(j) \in JobRecord /\ After(j).step = "done"
    BY RecordFacts DEF DownloadSteps
  <2>3. \A i \in AllJobs \ {j} : After(i) \in JobRecord /\ After(i).step = job[i].step
    <3>1. SUFFICES ASSUME NEW i \in AllJobs, i # j
                   PROVE  After(i) \in JobRecord /\ After(i).step = job[i].step
      OBVIOUS
    <3>2. job[i] \in JobRecord
      BY <1>1
    <3>3. CASE job[i].file = "partial"
      <4>1. After(i) = [job[i] EXCEPT !.file = "final"]
        BY <3>1, <3>3
      <4> HIDE DEF After
      <4>2. QED
        BY <3>2, <4>1, RecordFacts
    <3>4. CASE job[i].file = "final"
      <4>1. After(i) = [job[i] EXCEPT !.file = "unlinked"]
        BY <3>1, <3>4
      <4> HIDE DEF After
      <4>2. QED
        BY <3>2, <4>1, RecordFacts
    <3>5. CASE job[i].file \notin {"partial", "final"}
      <4>1. After(i) = job[i]
        BY <3>1, <3>5
      <4>2. QED
        BY <3>2, <4>1
    <3>6. QED
      BY <3>3, <3>4, <3>5
  <2> HIDE DEF After
  <2>4. /\ job' \in [AllJobs -> JobRecord]
        /\ job'[j].step = "done"
        /\ \A i \in AllJobs : i # j => job'[i].step = job[i].step
    BY <2>1, <2>2, <2>3
  <2>5. DownloadType'
    BY <2>1, <2>4, JobFacts DEF DownloadInv, DownloadType, JobRecord
  <2>6. ASSUME shared' = FALSE
        PROVE  PartialInv'
    <3>1. PartialInv
      BY <2>1, <2>6 DEF DownloadInv
    <3>2. \A i \in AllJobs : ~Works(i)'
      BY <1>1, <2>4, <3>1 DEF PartialInv, Works
    <3>3. final'.whole = TRUE
      BY <1>1, <1>3, <2>1, <3>1 DEF PartialInv
    <3>4. QED
      BY <3>2, <3>3 DEF PartialInv, Works
  <2>7. QED
    BY <2>5, <2>6 DEF DownloadInv
<1>4. QED
  BY <1>2, <1>3

(* After a failed copy the .partial is gone, whoever had it open.           *)
LEMMA RemoveKeeps ==
  ASSUME DownloadInv, NEW j \in AllJobs, RemovePartial(j)
  PROVE  DownloadInv'
<1>1. job \in [AllJobs -> JobRecord]
  BY DEF DownloadInv, DownloadType, JobRecord
<1> DEFINE After(i) ==
      IF i = j THEN [job[i] EXCEPT !.step = "try", !.file = "none"]
      ELSE IF job[i].file = "partial" THEN [job[i] EXCEPT !.file = "unlinked"]
      ELSE job[i]
<1>2. /\ partial' = none /\ UNCHANGED <<final, cancelled, shared>>
      /\ job' = [i \in AllJobs |-> After(i)]
  BY DEF RemovePartial
<1>3. After(j) \in JobRecord /\ After(j).step = "try"
  <2> DEFINE r == [job[j] EXCEPT !.step = "try"]
  <2>1. "try" \in DownloadSteps
    BY DEF DownloadSteps
  <2>2. job[j] \in JobRecord
    BY <1>1
  <2>3. r \in JobRecord /\ r.step = "try"
    BY <2>1, <2>2, RecordFacts
  <2>4. After(j) = [r EXCEPT !.file = "none"]
    BY <2>2 DEF JobRecord
  <2> HIDE DEF r, After
  <2>5. QED
    BY <2>3, <2>4, RecordFacts
<1>4. \A i \in AllJobs \ {j} : After(i) \in JobRecord /\ After(i).step = job[i].step
  <2>1. SUFFICES ASSUME NEW i \in AllJobs, i # j
                 PROVE  After(i) \in JobRecord /\ After(i).step = job[i].step
    OBVIOUS
  <2>2. job[i] \in JobRecord
    BY <1>1
  <2>3. CASE job[i].file = "partial"
    <3>1. After(i) = [job[i] EXCEPT !.file = "unlinked"]
      BY <2>1, <2>3
    <3> HIDE DEF After
    <3>2. QED
      BY <2>2, <3>1, RecordFacts
  <2>4. CASE job[i].file # "partial"
    <3>1. After(i) = job[i]
      BY <2>1, <2>4
    <3>2. QED
      BY <2>2, <3>1
  <2>5. QED
    BY <2>3, <2>4
<1> HIDE DEF After
<1>5. /\ job' \in [AllJobs -> JobRecord]
      /\ job'[j].step = "try"
      /\ \A i \in AllJobs : i # j => job'[i].step = job[i].step
  BY <1>2, <1>3, <1>4
<1>6. DownloadType'
  BY <1>2, <1>5, JobFacts DEF DownloadInv, DownloadType, JobRecord
<1>7. ASSUME shared' = FALSE
      PROVE  PartialInv'
  <2>1. PartialInv
    BY <1>2, <1>7 DEF DownloadInv
  <2>2. QED
    BY <1>2, <1>5, <2>1 DEF PartialInv, Works
<1>8. QED
  BY <1>6, <1>7 DEF DownloadInv

(* The invariant is kept by every step of the downloads.                    *)
LEMMA StepDownload ==
  DownloadInv /\ (DownloadStep \/ UNCHANGED downloadVars) => DownloadInv'
<1> SUFFICES ASSUME DownloadInv, DownloadStep \/ UNCHANGED downloadVars
             PROVE  DownloadInv'
  OBVIOUS
<1>0. job \in [AllJobs -> JobRecord] /\ cancelled \subseteq AllJobs
  BY DEF DownloadInv, DownloadType, JobRecord
<1>1. ASSUME NEW j \in AllJobs, StartDownload(j)
      PROVE  DownloadInv'
  <2> DEFINE r == [NoJob EXCEPT !.step = "stat"]
  <2>1. r \in JobRecord /\ r.step = "stat"
    BY RecordFacts DEF DownloadSteps
  <2>2. job' = [job EXCEPT ![j] = r] /\ UNCHANGED <<final, partial, shared>>
        /\ cancelled' \subseteq AllJobs
    BY <1>0, <1>1 DEF StartDownload
  <2> HIDE DEF r
  <2>3. Moves(j, r.step)
    BY <2>1, <2>2, OneMoves DEF DownloadInv
  <2>4. r.step \in DownloadSteps \ {"copy", "rename"}
    BY <2>1 DEF DownloadSteps
  <2>5. QED
    BY <2>2, <2>3, <2>4, MovesAside
<1>2. ASSUME NEW j \in AllJobs, StatModel(j) \/ GiveUp(j)
      PROVE  DownloadInv'
  <2>1. PICK to \in DownloadSteps \ {"copy", "rename"} : \E from \in {"stat", "try"} : Step(j, from, to)
    BY <1>2 DEF StatModel, GiveUp, DownloadSteps
  <2>2. Moves(j, to)
    BY <2>1, StepMoves DEF DownloadInv
  <2>3. UNCHANGED <<final, partial, cancelled, shared>>
    BY <1>2 DEF StatModel, GiveUp
  <2>4. QED
    BY <1>0, <2>2, <2>3, MovesAside
<1>3. ASSUME NEW j \in AllJobs, Dismiss(j)
      PROVE  DownloadInv'
  <2>1. Moves(j, NoJob.step)
    BY <1>3, RecordFacts, OneMoves DEF DownloadInv, Dismiss
  <2>2. NoJob.step \in DownloadSteps \ {"copy", "rename"}
    BY RecordFacts DEF DownloadSteps
  <2>3. QED
    BY <1>0, <1>3, <2>1, <2>2, MovesAside DEF Dismiss
<1>4. CASE DownloadsDie
  <2>1. /\ job' \in [AllJobs -> JobRecord]
        /\ \A j \in AllJobs : job'[j].step = "idle"
    BY <1>4, RecordFacts DEF DownloadsDie
  <2>2. cancelled' = {} /\ UNCHANGED <<final, partial, shared>>
    BY <1>4 DEF DownloadsDie
  <2>3. DownloadType'
    BY <2>1, <2>2 DEF DownloadInv, DownloadType, JobRecord
  <2>4. QED
    BY <2>1, <2>2, <2>3 DEF DownloadInv, PartialInv, Works
<1>5. CASE CancelSome \/ UNCHANGED downloadVars
  BY <1>5 DEF CancelSome, downloadVars, DownloadInv, DownloadType, PartialInv, Works
<1>6. QED
  BY <1>1, <1>2, <1>3, <1>4, <1>5, FetchKeeps, CopyKeeps, RenameKeeps, RemoveKeeps
  DEF DownloadStep, DownloadGoesOn

(* Whatever the window, the start-up, the user and a crash do is one such   *)
(* step, or leaves the downloads alone.                                     *)
LEMMA NextDownloads ==
  DownloadType /\ downloadCancel \in AllJobs /\ [Next]_vars =>
    (DownloadStep \/ UNCHANGED downloadVars) /\ downloadCancel' \in AllJobs
<1> SUFFICES ASSUME DownloadType, downloadCancel \in AllJobs, [Next]_vars
             PROVE  (DownloadStep \/ UNCHANGED downloadVars) /\ downloadCancel' \in AllJobs
  OBVIOUS
<1> USE JobFacts DEF downloadVars, diskVars, uiVars
<1>1. CASE UserStep
  <2>1. ASSUME NEW j \in Jobs, StartClicked(j)
        PROVE  DownloadStep /\ downloadCancel' \in AllJobs
    BY <2>1 DEF StartClicked, DownloadStep
  <2>2. CASE CancelClicked
    BY <2>2 DEF CancelClicked, DownloadStep, CancelSome, DownloadType
  <2>3. CASE UNCHANGED <<downloadVars, downloadCancel>>
    BY <2>3
  <2>4. QED
    BY <1>1, <2>1, <2>2, <2>3
    DEF UserStep, HandEdit, OpenWindow, CloseWindow, Edit, ChangeLanguage
<1>2. CASE StartStep
  BY <1>2 DEF StartStep, EnsureUserConfig, LoadVoice, ResolveModel, ModelResolved,
              DownloadStep, Dismiss
<1>3. CASE ProcessEnds
  BY <1>3 DEF ProcessEnds, DownloadStep
<1>4. ASSUME NEW j \in AllJobs, Downloading(j)
      PROVE  DownloadStep /\ downloadCancel' \in AllJobs
  BY <1>4 DEF Downloading, DownloadStep
<1>5. ASSUME NEW j \in Jobs, RunDownloadEnds(j)
      PROVE  DownloadStep /\ downloadCancel' \in AllJobs
  BY <1>5 DEF RunDownloadEnds, DownloadStep, Dismiss
<1>6. ASSUME NEW s \in Saves, SaveStep(s)
      PROVE  UNCHANGED <<downloadVars, downloadCancel>>
  BY <1>6 DEF SaveStep, TimerFires, ApplyFields, ReadFile, TruncateFile, FillFile
<1>7. CASE UNCHANGED vars
  BY <1>7 DEF vars
<1>8. QED
  BY <1>1, <1>2, <1>3, <1>4, <1>5, <1>6, <1>7 DEF Next

IInv == DownloadInv /\ downloadCancel \in AllJobs

LEMMA InitInv == Init => IInv
  BY InitDownload, JobFacts DEF Init, IInv

LEMMA StepInv == IInv /\ [Next]_vars => IInv'
<1> SUFFICES ASSUME IInv, [Next]_vars
             PROVE  IInv'
  OBVIOUS
<1>1. (DownloadStep \/ UNCHANGED downloadVars) /\ downloadCancel' \in AllJobs
  BY NextDownloads DEF IInv, DownloadInv
<1>2. DownloadInv'
  BY <1>1, StepDownload DEF IInv
<1>3. downloadCancel' \in AllJobs'
  BY <1>1 DEF AllJobs
<1>4. QED
  BY <1>2, <1>3 DEF IInv

LEMMA Invariance == Spec => []IInv
  BY InitInv, StepInv, PTL DEF Spec

(* The downloads keep their types, whatever else the process does.          *)
THEOREM DownloadsTyped == Spec => []DownloadType
<1>1. IInv => DownloadType
  BY DEF IInv, DownloadInv
<1>2. QED
  BY <1>1, Invariance, PTL

(* Whatever breaks off, is cancelled or dies, and for any number of mirrors *)
(* and of downloads one after the other: a model at its path is whole       *)
(* unless two downloads worked on one .partial.                             *)
THEOREM ModelIsWhole == Spec => []ModelOnDiskIsWhole
<1>1. IInv => ModelOnDiskIsWhole
  BY DEF IInv, DownloadInv, DownloadType, PartialInv, ModelOnDiskIsWhole
<1>2. QED
  BY <1>1, Invariance, PTL

-----------------------------------------------------------------------------
(* The settings, from a start to the next one.                              *)

IsConfig(c) == c = [k \in Keys |-> c[k]]

(* The keys a start takes as validated: it fills in the directory and the   *)
(* model itself, and no save writes the language of the UI.                 *)
PlainKeys == Keys \ {"ui_language", "model_path", "temp_dir"}

Resolved(c, there) == c.provider = "whisper-cpp" /\ c.model_path = "model" /\ there = TRUE

(* Two configs that come to the same: the second may name the model that is *)
(* there where the first leaves it to the next start to find it.            *)
Alike(d, c, there) ==
  /\ \A k \in PlainKeys : ValidateVoice(d)[k] = ValidateVoice(c)[k]
  /\ OrElse(d.temp_dir, "private") = OrElse(c.temp_dir, "private")
  /\ d.model_path = c.model_path \/ Resolved(c, there)

KeyIn(f) == Merged(f.keys).api_key

(* A clean process writes one file at a time.  Unless a save is about to    *)
(* read the file, what it writes, or else the file, is its config.          *)
SavesInTurn ==
  /\ \A s, t \in Saves : Writing(s) /\ Writing(t) => s = t
  /\ (\A s \in Saves : save[s].step # "read") =>
       /\ \A s \in Saves : Writing(s) => Alike(Loaded(save[s].data), cfg, ModelExists)
       /\ (\A s \in Saves : ~Writing(s)) => Alike(Loaded(file), cfg, ModelExists)

(* The key of a config that has none is not in the file either: no save     *)
(* takes a key out.                                                         *)
NoKeyBehind ==
  cfg.api_key = Unset =>
    /\ KeyIn(file) = Unset
    /\ \A s \in Saves : Writing(s) => KeyIn(save[s].data) = Unset

IsSave(r) == r = [step |-> r.step, form |-> r.form, data |-> r.data, flush |-> r.flush]

(* Only the window saves.                                                   *)
ShapeInv ==
  /\ IsConfig(cfg)
  /\ save = [s \in Saves |-> save[s]] /\ \A s \in Saves : IsSave(save[s])
  /\ proc # "up" => \A s \in Saves : save[s] = NoSave

(* No download outlives its process, the start-up's is one the config asks  *)
(* for, and one that ended well left a model.                               *)
DownloadsKnown ==
  /\ proc \notin {"model", "up"} => \A j \in AllJobs : job[j].step = "idle"
  /\ proc = "model" /\ job[0].step # "idle" => cfg.provider = "whisper-cpp"
  /\ \A j \in AllJobs : job[j].step = "done" => ModelExists

FileFollows == NoKeyBehind /\ (clean = TRUE => SavesInTurn)

SettingsInv == ShapeInv /\ DownloadsKnown /\ (proc \in {"model", "up"} => FileFollows)

-----------------------------------------------------------------------------
(* The keys, one by one.                                                    *)
LEMMA KeysAre ==
  Keys = {"provider", "language", "ui_language", "model_path", "url", "api_key",
          "streaming", "timeout", "temp_dir", "log_level", "backend", "rate",
          "max_duration", "threshold", "mode", "autopaste", "hotkey_mode",
          "keep_audio_format"}
BY DEF Keys, Defaults

OrElseKeys == {"mode", "autopaste", "backend", "keep_audio_format"}
ValidatedKeys == OrElseKeys \cup {"provider", "streaming", "rate"}

LEMMA Replaced ==
  ASSUME NEW c, IsConfig(c), NEW k \in Keys, NEW v
  PROVE  /\ IsConfig([c EXCEPT ![k] = v])
         /\ [c EXCEPT ![k] = v][k] = v
         /\ \A j \in Keys \ {k} : [c EXCEPT ![k] = v][j] = c[j]
BY DEF IsConfig

LEMMA MigrateFacts ==
  ASSUME NEW c, IsConfig(c)
  PROVE  LET m == MigrateLegacyVoiceProvider(c)
         IN /\ IsConfig(m)
            /\ m.provider = IF c.provider = "deepgram-stream" THEN "deepgram" ELSE c.provider
            /\ m.streaming = IF c.provider = "deepgram-stream" THEN TRUE ELSE c.streaming
            /\ \A k \in Keys \ {"provider", "streaming"} : m[k] = c[k]
BY KeysAre DEF IsConfig, MigrateLegacyVoiceProvider

LEMMA NormalFacts ==
  ASSUME NEW c, IsConfig(c)
  PROVE  LET n == Normalized(c)
         IN /\ IsConfig(n)
            /\ n.mode = OrElse(c.mode, "clipboard")
            /\ n.autopaste = OrElse(c.autopaste, "auto")
            /\ n.backend = OrElse(c.backend, "auto")
            /\ n.keep_audio_format = OrElse(c.keep_audio_format, "wav")
            /\ n.rate = IF c.rate = 0 THEN 1 ELSE c.rate
            /\ \A k \in Keys \ (OrElseKeys \cup {"rate"}) : n[k] = c[k]
<1> DEFINE c1 == [c EXCEPT !.mode = OrElse(@, "clipboard")]
           c2 == [c1 EXCEPT !.autopaste = OrElse(@, "auto")]
           c3 == [c2 EXCEPT !.backend = OrElse(@, "auto")]
           c4 == [c3 EXCEPT !.keep_audio_format = OrElse(@, "wav")]
           c5 == [c4 EXCEPT !.rate = IF @ = 0 THEN 1 ELSE @]
<1>0. Normalized(c) = c5
  BY DEF Normalized
<1>1. /\ IsConfig(c1) /\ c1.mode = OrElse(c.mode, "clipboard")
      /\ \A j \in Keys \ {"mode"} : c1[j] = c[j]
  BY KeysAre, Replaced
<1> HIDE DEF c1
<1>2. /\ IsConfig(c2) /\ c2.autopaste = OrElse(c1.autopaste, "auto")
      /\ \A j \in Keys \ {"autopaste"} : c2[j] = c1[j]
  BY <1>1, KeysAre, Replaced, SMTT(30)
<1> HIDE DEF c2
<1>3. /\ IsConfig(c3) /\ c3.backend = OrElse(c2.backend, "auto")
      /\ \A j \in Keys \ {"backend"} : c3[j] = c2[j]
  BY <1>2, KeysAre, Replaced, SMTT(30)
<1> HIDE DEF c3
<1>4. /\ IsConfig(c4) /\ c4.keep_audio_format = OrElse(c3.keep_audio_format, "wav")
      /\ \A j \in Keys \ {"keep_audio_format"} : c4[j] = c3[j]
  <2>1. "keep_audio_format" \in Keys
    BY KeysAre
  <2> DEFINE format == OrElse(c3.keep_audio_format, "wav")
  <2>2. c4 = [c3 EXCEPT !["keep_audio_format"] = format]
    OBVIOUS
  <2> HIDE DEF c4, format
  <2>3. /\ IsConfig(c4) /\ c4.keep_audio_format = format
        /\ \A j \in Keys \ {"keep_audio_format"} : c4[j] = c3[j]
    BY <1>3, <2>1, <2>2 DEF IsConfig
  <2>4. QED
    BY <2>3 DEF format
<1> HIDE DEF c4
<1>5. /\ IsConfig(c5) /\ c5.rate = IF c4.rate = 0 THEN 1 ELSE c4.rate
      /\ \A j \in Keys \ {"rate"} : c5[j] = c4[j]
  BY <1>4, KeysAre, Replaced, SMTT(30)
<1> HIDE DEF c5
<1>6. /\ c5.mode = OrElse(c.mode, "clipboard")
      /\ c5.autopaste = OrElse(c.autopaste, "auto")
      /\ c5.backend = OrElse(c.backend, "auto")
      /\ c5.keep_audio_format = OrElse(c.keep_audio_format, "wav")
      /\ c5.rate = IF c.rate = 0 THEN 1 ELSE c.rate
  BY <1>1, <1>2, <1>3, <1>4, <1>5, KeysAre
<1>7. \A k \in Keys \ (OrElseKeys \cup {"rate"}) : c5[k] = c[k]
  BY <1>1, <1>2, <1>3, <1>4, <1>5 DEF OrElseKeys
<1>8. QED
  BY <1>0, <1>5, <1>6, <1>7

(* What the validation makes of each key.                                   *)
LEMMA VoiceFacts ==
  ASSUME NEW c, IsConfig(c)
  PROVE  LET v == ValidateVoice(c)
         IN /\ IsConfig(v)
            /\ v.provider = IF c.provider = "deepgram-stream" THEN "deepgram" ELSE c.provider
            /\ v.streaming = IF c.provider = "deepgram-stream" THEN TRUE ELSE c.streaming
            /\ v.mode = OrElse(c.mode, "clipboard")
            /\ v.autopaste = OrElse(c.autopaste, "auto")
            /\ v.backend = OrElse(c.backend, "auto")
            /\ v.keep_audio_format = OrElse(c.keep_audio_format, "wav")
            /\ v.rate = IF c.rate = 0 THEN 1 ELSE c.rate
            /\ \A k \in Keys \ ValidatedKeys : v[k] = c[k]
<1> DEFINE m == MigrateLegacyVoiceProvider(c)
           n == Normalized(m)
<1>1. /\ IsConfig(m)
      /\ m.provider = IF c.provider = "deepgram-stream" THEN "deepgram" ELSE c.provider
      /\ m.streaming = IF c.provider = "deepgram-stream" THEN TRUE ELSE c.streaming
      /\ \A k \in Keys \ {"provider", "streaming"} : m[k] = c[k]
  BY MigrateFacts
<1> HIDE DEF m
<1>2. /\ IsConfig(n)
      /\ n.mode = OrElse(m.mode, "clipboard")
      /\ n.autopaste = OrElse(m.autopaste, "auto")
      /\ n.backend = OrElse(m.backend, "auto")
      /\ n.keep_audio_format = OrElse(m.keep_audio_format, "wav")
      /\ n.rate = IF m.rate = 0 THEN 1 ELSE m.rate
      /\ \A k \in Keys \ (OrElseKeys \cup {"rate"}) : n[k] = m[k]
  BY <1>1, NormalFacts
<1> HIDE DEF n
<1>3. m.mode = c.mode /\ m.autopaste = c.autopaste /\ m.backend = c.backend
      /\ m.keep_audio_format = c.keep_audio_format /\ m.rate = c.rate
  BY <1>1, KeysAre
<1>4. n.provider = m.provider /\ n.streaming = m.streaming
  BY <1>2, KeysAre DEF OrElseKeys
<1>5. \A k \in Keys \ ValidatedKeys : n[k] = c[k]
  BY <1>1, <1>2 DEF ValidatedKeys
<1>6. ValidateVoice(c) = n
  BY DEF ValidateVoice, m, n
<1>7. QED
  BY <1>1, <1>2, <1>3, <1>4, <1>5, <1>6

LEMMA OrElseTwice ==
  ASSUME NEW v, NEW d
  PROVE  OrElse(OrElse(v, d), d) = OrElse(v, d)
BY DEF OrElse

(* Validating twice is validating once.                                     *)
LEMMA VoiceTwice ==
  ASSUME NEW c, IsConfig(c), NEW k \in Keys
  PROVE  ValidateVoice(ValidateVoice(c))[k] = ValidateVoice(c)[k]
<1> DEFINE v == ValidateVoice(c)
           w == ValidateVoice(v)
<1>1. IsConfig(v)
  BY VoiceFacts
<1>2. /\ v.provider = IF c.provider = "deepgram-stream" THEN "deepgram" ELSE c.provider
      /\ v.mode = OrElse(c.mode, "clipboard")
      /\ v.autopaste = OrElse(c.autopaste, "auto")
      /\ v.backend = OrElse(c.backend, "auto")
      /\ v.keep_audio_format = OrElse(c.keep_audio_format, "wav")
      /\ v.rate = IF c.rate = 0 THEN 1 ELSE c.rate
  BY VoiceFacts
<1> HIDE DEF v
<1>3. /\ w.provider = IF v.provider = "deepgram-stream" THEN "deepgram" ELSE v.provider
      /\ w.streaming = IF v.provider = "deepgram-stream" THEN TRUE ELSE v.streaming
      /\ w.mode = OrElse(v.mode, "clipboard")
      /\ w.autopaste = OrElse(v.autopaste, "auto")
      /\ w.backend = OrElse(v.backend, "auto")
      /\ w.keep_audio_format = OrElse(v.keep_audio_format, "wav")
      /\ w.rate = IF v.rate = 0 THEN 1 ELSE v.rate
      /\ \A j \in Keys \ ValidatedKeys : w[j] = v[j]
  BY <1>1, VoiceFacts
<1> HIDE DEF w
<1>4. w.mode = v.mode /\ w.autopaste = v.autopaste /\ w.backend = v.backend
      /\ w.keep_audio_format = v.keep_audio_format
  BY <1>2, <1>3, OrElseTwice
<1>5. w.provider = v.provider /\ w.streaming = v.streaming /\ w.rate = v.rate
  BY <1>2, <1>3
<1>6. w[k] = v[k]
  BY <1>3, <1>4, <1>5 DEF ValidatedKeys, OrElseKeys
<1>7. QED
  BY <1>6 DEF v, w

(* The validation of the other keys does not look at the language of the UI *)
(* or at the path of the model.                                             *)
LEMMA VoiceAgrees ==
  ASSUME NEW c, IsConfig(c), NEW d, IsConfig(d),
         \A k \in PlainKeys : c[k] = d[k]
  PROVE  \A k \in PlainKeys : ValidateVoice(c)[k] = ValidateVoice(d)[k]
<1> DEFINE v == ValidateVoice(c)
           w == ValidateVoice(d)
<1>1. /\ v.provider = IF c.provider = "deepgram-stream" THEN "deepgram" ELSE c.provider
      /\ v.streaming = IF c.provider = "deepgram-stream" THEN TRUE ELSE c.streaming
      /\ v.mode = OrElse(c.mode, "clipboard")
      /\ v.autopaste = OrElse(c.autopaste, "auto")
      /\ v.backend = OrElse(c.backend, "auto")
      /\ v.keep_audio_format = OrElse(c.keep_audio_format, "wav")
      /\ v.rate = IF c.rate = 0 THEN 1 ELSE c.rate
      /\ \A j \in Keys \ ValidatedKeys : v[j] = c[j]
  BY VoiceFacts
<1>2. /\ w.provider = IF d.provider = "deepgram-stream" THEN "deepgram" ELSE d.provider
      /\ w.streaming = IF d.provider = "deepgram-stream" THEN TRUE ELSE d.streaming
      /\ w.mode = OrElse(d.mode, "clipboard")
      /\ w.autopaste = OrElse(d.autopaste, "auto")
      /\ w.backend = OrElse(d.backend, "auto")
      /\ w.keep_audio_format = OrElse(d.keep_audio_format, "wav")
      /\ w.rate = IF d.rate = 0 THEN 1 ELSE d.rate
      /\ \A j \in Keys \ ValidatedKeys : w[j] = d[j]
  BY VoiceFacts
<1> HIDE DEF v, w
<1>3. /\ c.provider = d.provider /\ c.streaming = d.streaming /\ c.mode = d.mode
      /\ c.autopaste = d.autopaste /\ c.backend = d.backend /\ c.rate = d.rate
      /\ c.keep_audio_format = d.keep_audio_format
  BY KeysAre DEF PlainKeys
<1>4. ASSUME NEW k \in PlainKeys \ ValidatedKeys
      PROVE  v[k] = w[k]
  BY <1>1, <1>2, <1>4 DEF PlainKeys
<1>5. \A k \in ValidatedKeys : v[k] = w[k]
  BY <1>1, <1>2, <1>3 DEF ValidatedKeys, OrElseKeys
<1>6. \A k \in PlainKeys : v[k] = w[k]
  BY <1>4, <1>5
<1>7. QED
  BY <1>6 DEF v, w

(* A config that comes to the same is started the same.                     *)
LEMMA AlikeStarted ==
  ASSUME NEW c, IsConfig(c), NEW d, IsConfig(d), Alike(d, c, ModelExists),
         NEW k \in Keys \ {"ui_language"}
  PROVE  Started(d)[k] = Started(c)[k]
<1> DEFINE v == ValidateVoice(d)
           w == ValidateVoice(c)
<1>1. IsConfig(v) /\ IsConfig(w)
  BY VoiceFacts
<1>2. /\ v.temp_dir = d.temp_dir /\ w.temp_dir = c.temp_dir
      /\ v.model_path = d.model_path /\ w.model_path = c.model_path
      /\ w.provider = IF c.provider = "deepgram-stream" THEN "deepgram" ELSE c.provider
  BY VoiceFacts, KeysAre DEF ValidatedKeys, OrElseKeys
<1>3. v.provider = w.provider
  BY KeysAre DEF Alike, PlainKeys
<1> HIDE DEF v, w
<1>4. /\ Started(d) = [v EXCEPT !.temp_dir = OrElse(@, "private"),
                                !.model_path = IF NeedsModel(v) /\ ModelExists THEN "model" ELSE @]
      /\ Started(c) = [w EXCEPT !.temp_dir = OrElse(@, "private"),
                                !.model_path = IF NeedsModel(w) /\ ModelExists THEN "model" ELSE @]
  BY DEF Started, v, w
<1>5. CASE k = "temp_dir"
  <2>1. /\ Started(d)[k] = OrElse(v.temp_dir, "private")
        /\ Started(c)[k] = OrElse(w.temp_dir, "private")
    BY <1>1, <1>4, <1>5, KeysAre DEF IsConfig
  <2>2. QED
    BY <1>2, <2>1 DEF Alike
<1>6. CASE k = "model_path"
  <2>1. /\ Started(d)[k] = IF NeedsModel(v) /\ ModelExists THEN "model" ELSE v.model_path
        /\ Started(c)[k] = IF NeedsModel(w) /\ ModelExists THEN "model" ELSE w.model_path
    BY <1>1, <1>4, <1>6, KeysAre DEF IsConfig
  <2>2. CASE v.model_path = w.model_path
    BY <1>3, <2>1, <2>2 DEF NeedsModel
  <2>3. CASE Resolved(c, ModelExists)
    <3>1. w.provider = "whisper-cpp" /\ w.model_path = "model" /\ ModelExists
      BY <1>2, <2>3 DEF Resolved
    <3>2. QED
      BY <1>3, <2>1, <3>1 DEF NeedsModel
  <2>4. QED
    BY <1>2, <2>2, <2>3 DEF Alike
<1>7. CASE k \in PlainKeys
  <2>1. Started(d)[k] = v[k] /\ Started(c)[k] = w[k]
    BY <1>1, <1>4, <1>7 DEF IsConfig, PlainKeys
  <2>2. QED
    BY <1>7, <2>1 DEF Alike, v, w
<1>8. QED
  BY <1>5, <1>6, <1>7 DEF PlainKeys

(* What a start reads is a config, whatever the file holds.                 *)
LEMMA LoadedFacts ==
  ASSUME NEW f
  PROVE  LET m == Merged(f.keys)
         IN /\ IsConfig(m) /\ IsConfig(Loaded(f))
            /\ \A k \in PlainKeys :
                 ValidateVoice(Loaded(f))[k] = ValidateVoice(m)[k]
            /\ Loaded(f).temp_dir = OrElse(m.temp_dir, "private")
            /\ Loaded(f).model_path = m.model_path
<1> DEFINE m == Merged(f.keys)
           dir == OrElse(m.temp_dir, "private")
           t == [m EXCEPT !.temp_dir = OrElse(@, "private")]
<1>1. IsConfig(m)
  BY DEF IsConfig, Merged
<1> HIDE DEF m
<1>2. t = [m EXCEPT !["temp_dir"] = dir] /\ "temp_dir" \in Keys
  BY KeysAre
<1>3. Loaded(f) = ValidateVoice(t)
  BY DEF Loaded, m
<1> HIDE DEF t
<1>4. dir = OrElse(m.temp_dir, "private")
  OBVIOUS
<1> HIDE DEF dir
<1>5. /\ IsConfig(t) /\ t.temp_dir = dir
      /\ \A k \in Keys \ {"temp_dir"} : t[k] = m[k]
  BY <1>1, <1>2 DEF IsConfig
<1>6. /\ IsConfig(ValidateVoice(t))
      /\ \A k \in Keys \ ValidatedKeys : ValidateVoice(t)[k] = t[k]
  BY <1>5, VoiceFacts
<1>7. ASSUME NEW k \in PlainKeys
      PROVE  ValidateVoice(Loaded(f))[k] = ValidateVoice(m)[k]
  <2>1. \A j \in PlainKeys : t[j] = m[j]
    BY <1>5 DEF PlainKeys
  <2>2. ValidateVoice(t)[k] = ValidateVoice(m)[k]
    BY <1>1, <1>5, <2>1, VoiceAgrees
  <2>3. ValidateVoice(ValidateVoice(t))[k] = ValidateVoice(t)[k]
    BY <1>5, VoiceTwice DEF PlainKeys
  <2>4. QED
    BY <1>3, <2>2, <2>3
<1>8. /\ ValidateVoice(t).temp_dir = t.temp_dir
      /\ ValidateVoice(t).model_path = t.model_path /\ t.model_path = m.model_path
  BY <1>5, <1>6, KeysAre DEF ValidatedKeys, OrElseKeys
<1>9. QED
  BY <1>1, <1>3, <1>4, <1>5, <1>6, <1>7, <1>8 DEF m

(* What a save writes is read back key by key, but for an empty key: that   *)
(* one is left to whatever the file has.                                    *)
LEMMA MergedSaved ==
  ASSUME NEW f, NEW c, IsConfig(c), c.api_key = Unset => KeyIn(f) = Unset
  PROVE  \A k \in Keys \ {"ui_language"} : Merged(Saved(f, c).keys)[k] = c[k]
<1> DEFINE existing == IF f.is = "yaml" THEN f.keys ELSE NoKeys
           keys == ApplyToMap(existing, c)
<1>1. Saved(f, c).keys = keys
  BY DEF Saved, Yaml
<1>2. /\ \A k \in Written(c) : k \in DOMAIN keys /\ keys[k] = c[k]
      /\ \A k \in Keys \ Written(c) :
           /\ k \in DOMAIN keys => k \in DOMAIN existing /\ keys[k] = existing[k]
  BY DEF ApplyToMap
<1> HIDE DEF keys
<1>3. \A k \in Keys : Merged(keys)[k] = IF k \in DOMAIN keys THEN keys[k] ELSE Defaults[k]
  BY DEF Merged
<1>4. ASSUME NEW k \in Keys \ {"ui_language"}, k \in Written(c)
      PROVE  Merged(keys)[k] = c[k]
  BY <1>2, <1>3, <1>4
<1>5. ASSUME NEW k \in Keys \ {"ui_language"}, k \notin Written(c)
      PROVE  Merged(keys)[k] = c[k]
  <2>1. k = "api_key" /\ c.api_key = Unset /\ KeyIn(f) = Unset
    BY <1>5 DEF Written
  <2>2. CASE k \in DOMAIN keys
    <3>1. k \in DOMAIN existing /\ keys[k] = existing[k]
      BY <1>2, <1>5, <2>2
    <3>2. f.is = "yaml"
      BY <3>1 DEF NoKeys
    <3>3. KeyIn(f) = f.keys[k]
      BY <2>1, <3>1, <3>2 DEF KeyIn, Merged
    <3>4. QED
      BY <1>3, <2>1, <2>2, <3>1, <3>2, <3>3
  <2>3. CASE k \notin DOMAIN keys
    <3>1. Defaults["api_key"] = Unset
      BY DEF Defaults
    <3>2. QED
      BY <1>3, <2>1, <2>3, <3>1
  <2>4. QED
    BY <2>2, <2>3
<1>6. QED
  BY <1>1, <1>4, <1>5

LEMMA SavedAlike ==
  ASSUME NEW f, NEW c, IsConfig(c), c.api_key = Unset => KeyIn(f) = Unset, NEW there
  PROVE  /\ Alike(Loaded(Saved(f, c)), c, there)
         /\ c.api_key = Unset => KeyIn(Saved(f, c)) = Unset
<1> DEFINE g == Saved(f, c)
           m == Merged(g.keys)
<1>1. \A k \in Keys \ {"ui_language"} : m[k] = c[k]
  BY MergedSaved
<1> HIDE DEF g
<1>2. /\ IsConfig(m) /\ \A k \in PlainKeys : ValidateVoice(Loaded(g))[k] = ValidateVoice(m)[k]
      /\ Loaded(g).temp_dir = OrElse(m.temp_dir, "private")
      /\ Loaded(g).model_path = m.model_path
  BY LoadedFacts
<1>3. KeyIn(g) = m.api_key
  BY DEF KeyIn
<1> HIDE DEF m
<1>4. \A k \in PlainKeys : m[k] = c[k]
  BY <1>1 DEF PlainKeys
<1>5. \A k \in PlainKeys : ValidateVoice(m)[k] = ValidateVoice(c)[k]
  BY <1>2, <1>4, VoiceAgrees
<1>6. m.temp_dir = c.temp_dir /\ m.model_path = c.model_path /\ m.api_key = c.api_key
  BY <1>1, KeysAre
<1>7. Alike(Loaded(g), c, there)
  BY <1>2, <1>5, <1>6, OrElseTwice DEF Alike
<1>8. QED
  BY <1>3, <1>6, <1>7 DEF g

LEMMA AlikeItself ==
  ASSUME NEW c, NEW there
  PROVE  Alike(c, c, there)
BY DEF Alike

(* Neither the language of the UI nor a model that was found sets a config  *)
(* apart.                                                                   *)
LEMMA AlikeStays ==
  ASSUME NEW d, NEW c, IsConfig(c), NEW e, IsConfig(e),
         NEW before, NEW after, before = TRUE => after = TRUE,
         Alike(d, c, before),
         \A k \in PlainKeys \cup {"temp_dir"} : e[k] = c[k],
         e.model_path = c.model_path \/ Resolved(e, after)
  PROVE  Alike(d, e, after)
<1>1. \A k \in PlainKeys : ValidateVoice(c)[k] = ValidateVoice(e)[k]
  BY VoiceAgrees
<1>2. e.temp_dir = c.temp_dir /\ e.provider = c.provider
  BY KeysAre DEF PlainKeys
<1>3. d.model_path = e.model_path \/ Resolved(e, after)
  BY <1>2 DEF Alike, Resolved
<1>4. QED
  BY <1>1, <1>2, <1>3 DEF Alike

-----------------------------------------------------------------------------
(* The steps of the window, the start-up and the downloads.                 *)
LEMMA ReplacedConfigs ==
  ASSUME NEW c, IsConfig(c), NEW v
  PROVE  IsConfig([c EXCEPT !.ui_language = v]) /\ IsConfig([c EXCEPT !.model_path = v])
BY KeysAre DEF IsConfig

LEMMA OneSaves ==
  ASSUME ShapeInv, NEW s \in Saves, NEW r, IsSave(r), save' = [save EXCEPT ![s] = r]
  PROVE  /\ save' = [t \in Saves |-> save'[t]] /\ \A t \in Saves : IsSave(save'[t])
         /\ save'[s] = r /\ \A t \in Saves \ {s} : save'[t] = save[t]
BY DEF ShapeInv

LEMMA SaveSteps ==
  ASSUME NEW r, IsSave(r), NEW v
  PROVE  /\ IsSave([r EXCEPT !.step = v]) /\ [r EXCEPT !.step = v].step = v
         /\ [r EXCEPT !.step = v].data = r.data
         /\ IsSave([r EXCEPT !.data = v]) /\ [r EXCEPT !.data = v].data = v
         /\ [r EXCEPT !.data = v].step = r.step
<1>1. /\ [r EXCEPT !.step = v] = [step |-> v, form |-> r.form, data |-> r.data, flush |-> r.flush]
      /\ [r EXCEPT !.data = v] = [step |-> r.step, form |-> r.form, data |-> v, flush |-> r.flush]
  BY DEF IsSave
<1>2. QED
  BY <1>1 DEF IsSave

LEMMA NoSaveFacts == IsSave(NoSave) /\ NoSave.step = "idle"
BY DEF IsSave, NoSave

LEMMA AppliedConfig ==
  ASSUME NEW c, NEW f
  PROVE  IsConfig(Applied(c, f)) /\ (Applied(c, f).api_key = Unset => c.api_key = Unset)
<1>1. "api_key" \in Keys /\ "api_key" \notin NumberKeys /\ "api_key" \notin LabelKeys
  BY KeysAre DEF NumberKeys, LabelKeys
<1>2. IsConfig(Applied(c, f))
  BY DEF IsConfig, Applied
<1>3. Applied(c, f)["api_key"] = OrElse(f.w["api_key"], c["api_key"])
  BY <1>1 DEF Applied
<1>4. QED
  BY <1>2, <1>3 DEF OrElse

(* How each step of a save moves it.                                        *)
LEMMA SaveMoves ==
  ASSUME ShapeInv, NEW s \in Saves
  PROVE  /\ ApplyFields(s) => \E r : /\ save' = [save EXCEPT ![s] = r]
                                     /\ IsSave(r) /\ r.step = "read"
         /\ ReadFile(s) => \E r : /\ save' = [save EXCEPT ![s] = r] /\ IsSave(r)
                                  /\ r.step = "truncate" /\ r.data = Saved(file, cfg)
         /\ TruncateFile(s) => \/ save' = [save EXCEPT ![s] = NoSave]
                               \/ \E r : /\ save' = [save EXCEPT ![s] = r] /\ IsSave(r)
                                         /\ r.step = "fill" /\ r.data = save[s].data
<1>1. IsSave(save[s])
  BY DEF ShapeInv
<1>2. ASSUME ApplyFields(s)
      PROVE  \E r : save' = [save EXCEPT ![s] = r] /\ IsSave(r) /\ r.step = "read"
  <2> DEFINE r == [save[s] EXCEPT !.step = "read"]
  <2>1. save' = [save EXCEPT ![s] = r]
    BY <1>2 DEF ApplyFields
  <2>2. IsSave(r) /\ r.step = "read"
    BY <1>1, SaveSteps, ZenonT(40)
  <2>3. QED
    BY <2>1, <2>2
<1>3. ASSUME ReadFile(s)
      PROVE  \E r : /\ save' = [save EXCEPT ![s] = r] /\ IsSave(r)
                    /\ r.step = "truncate" /\ r.data = Saved(file, cfg)
  <2> DEFINE d == Saved(file, cfg)
             q == [save[s] EXCEPT !.step = "truncate"]
             r == [q EXCEPT !.data = d]
  <2>1. save' = [save EXCEPT ![s].step = "truncate", ![s].data = d]
    BY <1>3 DEF ReadFile
  <2> HIDE DEF d
  <2>2. save' = [save EXCEPT ![s] = r]
    BY <2>1 DEF ShapeInv
  <2>3. IsSave(q) /\ q.step = "truncate"
    BY <1>1, SaveSteps, ZenonT(40)
  <2> HIDE DEF q
  <2>4. IsSave(r) /\ r.step = "truncate" /\ r.data = d
    BY <2>3, SaveSteps
  <2>5. QED
    BY <2>2, <2>4 DEF d
<1>4. ASSUME TruncateFile(s), save' # [save EXCEPT ![s] = NoSave]
      PROVE  \E r : /\ save' = [save EXCEPT ![s] = r] /\ IsSave(r)
                    /\ r.step = "fill" /\ r.data = save[s].data
  <2> DEFINE r == [save[s] EXCEPT !.step = "fill"]
  <2>1. save' = [save EXCEPT ![s] = r]
    BY <1>4 DEF TruncateFile
  <2>2. IsSave(r) /\ r.step = "fill" /\ r.data = save[s].data
    BY <1>1, SaveSteps, ZenonT(40)
  <2>3. QED
    BY <2>1, <2>2
<1>5. QED
  BY <1>2, <1>3, <1>4

(* The downloads make a model and never take one away.                      *)
LEMMA GoesOnFacts ==
  ASSUME DownloadType, NEW j \in AllJobs, DownloadGoesOn(j),
         \A i \in AllJobs : job[i].step = "done" => ModelExists
  PROVE  /\ ModelExists => ModelExists'
         /\ \A i \in AllJobs : job'[i].step = "done" => ModelExists'
         /\ job[j].step # "idle"
         /\ \A i \in AllJobs \ {j} : job'[i].step = job[i].step
<1> USE JobFacts DEF ModelExists
<1>1. \A i \in AllJobs : job[i] \in JobRecord
  BY DEF DownloadType, JobRecord
<1>2. job = [i \in AllJobs |-> job[i]]
  BY DEF DownloadType
<1>3. CASE StatModel(j)
  <2>1. Moves(j, IF final # none THEN "done" ELSE "try") /\ job[j].step = "stat"
    BY <1>3, StepMoves DEF StatModel, DownloadSteps
  <2>2. QED
    BY <1>3, <2>1 DEF StatModel, Moves
<1>4. CASE GiveUp(j)
  <2>1. Moves(j, "failed") /\ job[j].step = "try"
    BY <1>4, StepMoves DEF GiveUp, DownloadSteps
  <2>2. QED
    BY <1>4, <2>1 DEF GiveUp, Moves
<1>5. CASE Fetch(j)
  <2>1. job'[j].step # "done" /\ \A i \in AllJobs \ {j} : job'[i] = job[i]
    BY <1>1, <1>2, <1>5 DEF Fetch, JobRecord
  <2>2. QED
    BY <1>5, <2>1 DEF Fetch
<1>6. CASE CopyBody(j)
  <2>1. \/ Moves(j, "rename") /\ job[j].step = "copy"
        \/ Moves(j, "remove") /\ job[j].step = "copy"
    BY <1>6, StepMoves DEF CopyBody, DownloadSteps
  <2>2. final # none => final' # none
    BY <1>6 DEF CopyBody, DownloadType, Contents, none
  <2>3. QED
    BY <2>1, <2>2 DEF Moves
<1>7. CASE RenamePartial(j)
  <2>1. CASE partial = none
    <3>1. job' = [job EXCEPT ![j].step = "remove"] /\ final' = final /\ job[j].step = "rename"
      BY <1>7, <2>1 DEF RenamePartial
    <3>2. job'[j].step = "remove" /\ \A i \in AllJobs \ {j} : job'[i] = job[i]
      BY <1>1, <1>2, <3>1 DEF JobRecord
    <3>3. QED
      BY <3>1, <3>2
  <2>2. CASE partial # none
    <3>1. final' # none /\ job[j].step = "rename"
      BY <1>7, <2>2 DEF RenamePartial
    <3>2. ASSUME NEW i \in AllJobs \ {j}
          PROVE  job'[i].step = job[i].step
      <4>1. \/ job'[i] = [job[i] EXCEPT !.file = "final"]
            \/ job'[i] = [job[i] EXCEPT !.file = "unlinked"]
            \/ job'[i] = job[i]
        BY <1>7, <2>2 DEF RenamePartial
      <4>2. QED
        BY <1>1, <4>1 DEF JobRecord
    <3>3. QED
      BY <3>1, <3>2
  <2>3. QED
    BY <2>1, <2>2
<1>8. CASE RemovePartial(j)
  <2>1. final' = final /\ job[j].step = "remove"
    BY <1>8 DEF RemovePartial
  <2>2. job'[j].step = "try"
    BY <1>1, <1>8 DEF RemovePartial, JobRecord
  <2>3. ASSUME NEW i \in AllJobs \ {j}
        PROVE  job'[i].step = job[i].step
    <3>1. job'[i] = [job[i] EXCEPT !.file = "unlinked"] \/ job'[i] = job[i]
      BY <1>8 DEF RemovePartial
    <3>2. QED
      BY <1>1, <3>1 DEF JobRecord
  <2>4. QED
    BY <2>1, <2>2, <2>3
<1>9. QED
  BY <1>3, <1>4, <1>5, <1>6, <1>7, <1>8 DEF DownloadGoesOn

(* The steps that leave the settings alone.                                 *)
Aside == UNCHANGED <<proc, cfg, save, file, clean>>

LEMMA NextCases ==
  ASSUME [Next]_vars
  PROVE  \/ Aside
         \/ HandEdit \/ EnsureUserConfig \/ LoadVoice \/ ResolveModel \/ ModelResolved
         \/ \E code \in {"en", "ru"} : ChangeLanguage(code)
         \/ CloseWindow
         \/ \E s \in Saves : \/ \E f \in 1..Len(forms) : TimerFires(f, s)
                             \/ ApplyFields(s) \/ ReadFile(s)
                             \/ TruncateFile(s) \/ FillFile(s)
         \/ ProcessEnds
<1> USE DEF Aside, diskVars, uiVars
<1>1. CASE UserStep
  <2>1. ASSUME NEW j \in Jobs, StartClicked(j)
        PROVE  Aside
    BY <2>1 DEF StartClicked
  <2>2. CASE OpenWindow \/ CancelClicked \/ \E e \in Edits : Edit(e)
    BY <2>2 DEF OpenWindow, CancelClicked, Edit
  <2>3. QED
    BY <1>1, <2>1, <2>2 DEF UserStep
<1>2. ASSUME NEW j \in AllJobs, Downloading(j)
      PROVE  Aside
  BY <1>2 DEF Downloading
<1>3. ASSUME NEW j \in Jobs, RunDownloadEnds(j)
      PROVE  Aside
  BY <1>3 DEF RunDownloadEnds
<1>4. CASE UNCHANGED vars
  BY <1>4 DEF vars
<1>5. QED
  BY <1>1, <1>2, <1>3, <1>4 DEF Next, StartStep, SaveStep

LEMMA BegunSave ==
  ASSUME NEW s, NEW f, NEW flush, BeginSave(s, f, flush)
  PROVE  /\ save[s] = NoSave
         /\ \E r : IsSave(r) /\ r.step = "apply" /\ save' = [save EXCEPT ![s] = r]
<1> DEFINE r == [step |-> "apply", form |-> f, data |-> Missing, flush |-> flush]
<1>1. IsSave(r) /\ r.step = "apply"
  BY DEF IsSave
<1>2. save' = [save EXCEPT ![s] = r] /\ save[s] = NoSave
  BY DEF BeginSave
<1>3. QED
  BY <1>1, <1>2

LEMMA CloseOrTimer ==
  ASSUME CloseWindow \/ \E s \in Saves, f \in 1..Len(forms) : TimerFires(f, s)
  PROVE  /\ proc = "up" /\ UNCHANGED <<proc, cfg, file, clean>>
         /\ \/ UNCHANGED save
            \/ \E s \in Saves : /\ save[s] = NoSave
                                /\ \E r : /\ IsSave(r) /\ r.step = "apply"
                                          /\ save' = [save EXCEPT ![s] = r]
<1>1. CASE CloseWindow
  BY <1>1, BegunSave DEF CloseWindow, EventLoop, diskVars
<1>2. ASSUME NEW s \in Saves, NEW f \in 1..Len(forms), TimerFires(f, s)
      PROVE  /\ proc = "up" /\ UNCHANGED <<proc, cfg, file, clean>>
             /\ save[s] = NoSave
             /\ \E r : /\ IsSave(r) /\ r.step = "apply"
                       /\ save' = [save EXCEPT ![s] = r]
  BY <1>2, BegunSave DEF TimerFires, diskVars
<1>3. QED
  BY <1>1, <1>2

(* A save that is anywhere means a process that is up.                      *)
LEMMA SavingIsUp ==
  ASSUME ShapeInv, NEW s \in Saves, save[s].step # "idle"
  PROVE  proc = "up"
BY NoSaveFacts DEF ShapeInv

LEMMA StepShape == ShapeInv /\ [Next]_vars => ShapeInv'
<1> SUFFICES ASSUME ShapeInv, [Next]_vars
             PROVE  ShapeInv'
  OBVIOUS
<1> USE DEF diskVars, uiVars
<1>1. CASE Aside
  BY <1>1 DEF Aside, ShapeInv
<1>2. CASE HandEdit \/ EnsureUserConfig
  BY <1>2 DEF HandEdit, EnsureUserConfig, ShapeInv
<1>3. CASE LoadVoice
  <2>1. IsConfig(cfg)
    BY DEF ShapeInv
  <2>2. IsConfig(cfg')
    BY <1>3, <2>1, LoadedFacts DEF LoadVoice
  <2>3. QED
    BY <1>3, <2>2 DEF LoadVoice, ShapeInv
<1>4. CASE ResolveModel \/ ModelResolved
  <2>1. IsConfig(cfg)
    BY DEF ShapeInv
  <2>2. cfg' = cfg \/ cfg' = [cfg EXCEPT !.model_path = "model"]
    BY <1>4 DEF ResolveModel, ModelResolved
  <2>3. IsConfig([cfg EXCEPT !.model_path = "model"])
    BY <2>1, ReplacedConfigs
  <2>4. UNCHANGED save /\ proc = "model"
    BY <1>4 DEF ResolveModel, ModelResolved
  <2>5. QED
    BY <2>1, <2>2, <2>3, <2>4 DEF ShapeInv
<1>5. ASSUME NEW code \in {"en", "ru"}, ChangeLanguage(code)
      PROVE  ShapeInv'
  <2>1. IsConfig(cfg')
    BY <1>5, ReplacedConfigs DEF ChangeLanguage, ShapeInv
  <2>2. UNCHANGED <<save, proc>>
    BY <1>5 DEF ChangeLanguage
  <2>3. QED
    BY <2>1, <2>2 DEF ShapeInv
<1>6. CASE CloseWindow \/ \E s \in Saves, f \in 1..Len(forms) : TimerFires(f, s)
  <2>1. CASE UNCHANGED save
    BY <1>6, <2>1, CloseOrTimer DEF ShapeInv
  <2>2. ASSUME NEW s \in Saves, NEW r, IsSave(r), save' = [save EXCEPT ![s] = r]
        PROVE  ShapeInv'
    <3>1. save' = [t \in Saves |-> save'[t]] /\ \A t \in Saves : IsSave(save'[t])
      BY <2>2, OneSaves
    <3>2. proc' = "up" /\ cfg' = cfg
      BY <1>6, CloseOrTimer
    <3>3. QED
      BY <3>1, <3>2 DEF ShapeInv
  <2>3. QED
    BY <1>6, <2>1, <2>2, CloseOrTimer
<1>7. ASSUME NEW s \in Saves, ApplyFields(s) \/ ReadFile(s) \/ TruncateFile(s) \/ FillFile(s)
      PROVE  ShapeInv'
  <2>1. \E r : IsSave(r) /\ save' = [save EXCEPT ![s] = r]
    BY <1>7, SaveMoves, NoSaveFacts DEF FillFile
  <2>2. save' = [t \in Saves |-> save'[t]] /\ \A t \in Saves : IsSave(save'[t])
    BY <2>1, OneSaves
  <2>3. proc' = proc /\ save[s].step # "idle"
    BY <1>7 DEF ApplyFields, ReadFile, TruncateFile, FillFile
  <2>4. cfg' = cfg \/ cfg' = Applied(cfg, forms[save[s].form])
    BY <1>7 DEF ApplyFields, ReadFile, TruncateFile, FillFile
  <2>5. IsConfig(cfg')
    BY <2>4, AppliedConfig DEF ShapeInv
  <2>6. proc = "up"
    BY <2>3, SavingIsUp
  <2>7. QED
    BY <2>2, <2>3, <2>5, <2>6 DEF ShapeInv
<1>8. CASE ProcessEnds
  <2>1. save' = [s \in Saves |-> NoSave] /\ cfg' = Defaults
    BY <1>8 DEF ProcessEnds
  <2>2. Defaults = [k \in Keys |-> Defaults[k]]
    BY DEF Keys, Defaults
  <2>3. QED
    BY <2>1, <2>2, NoSaveFacts DEF ShapeInv, IsConfig
<1>9. QED
  BY <1>1, <1>2, <1>3, <1>4, <1>5, <1>6, <1>7, <1>8, NextCases

(* What the window and the start-up do with the downloads, as far as the    *)
(* settings depend on it.                                                   *)
LEMMA StepDownloadsKnown ==
  DownloadType /\ ShapeInv /\ DownloadsKnown /\ [Next]_vars =>
    DownloadsKnown' /\ (ModelExists => ModelExists')
<1> SUFFICES ASSUME DownloadType, ShapeInv, DownloadsKnown, [Next]_vars
             PROVE  DownloadsKnown' /\ (ModelExists => ModelExists')
  OBVIOUS
<1> USE JobFacts DEF diskVars, uiVars, downloadVars
<1>1. NoJob.step = "idle" /\ [NoJob EXCEPT !.step = "stat"].step = "stat"
  BY DEF NoJob
<1>2. job = [j \in AllJobs |-> job[j]]
  BY DEF DownloadType
<1>3. UNCHANGED AllJobs
  BY DEF AllJobs
<1>4. ASSUME UNCHANGED downloadVars, UNCHANGED <<proc, cfg>>
      PROVE  DownloadsKnown' /\ (ModelExists => ModelExists')
  BY <1>4 DEF DownloadsKnown, ModelExists
<1>5. ASSUME NEW j \in AllJobs, proc \in {"model", "up"}, j # 0 => proc = "up",
             StartDownload(j), UNCHANGED <<proc, cfg>>,
             j = 0 => cfg.provider = "whisper-cpp"
      PROVE  DownloadsKnown' /\ (ModelExists => ModelExists')
  <2>1. job'[j].step = "stat" /\ \A i \in AllJobs \ {j} : job'[i] = job[i]
    BY <1>1, <1>2, <1>5 DEF StartDownload
  <2>2. final' = final
    BY <1>5 DEF StartDownload
  <2>3. QED
    BY <1>5, <2>1, <2>2 DEF DownloadsKnown, ModelExists
<1>6. ASSUME NEW j \in AllJobs, proc' = "up", final' = final,
             job' = [job EXCEPT ![j] = NoJob]
      PROVE  DownloadsKnown' /\ (ModelExists => ModelExists')
  <2>1. job'[j].step = "idle" /\ \A i \in AllJobs \ {j} : job'[i] = job[i]
    BY <1>1, <1>2, <1>6
  <2>2. QED
    BY <1>6, <2>1 DEF DownloadsKnown, ModelExists
<1>7. CASE UserStep
  <2>1. ASSUME NEW j \in Jobs, StartClicked(j)
        PROVE  DownloadsKnown' /\ (ModelExists => ModelExists')
    <3>1. proc = "up" /\ j \in AllJobs /\ j # 0
      BY <2>1, DownloadAssumption DEF StartClicked, UserActs, EventLoop
    <3>2. QED
      BY <1>5, <2>1, <3>1 DEF StartClicked
  <2>2. CASE CancelClicked
    BY <2>2 DEF CancelClicked, DownloadsKnown, ModelExists
  <2>3. CASE HandEdit \/ OpenWindow \/ CloseWindow \/ \E e \in Edits : Edit(e)
    BY <1>4, <2>3 DEF HandEdit, OpenWindow, CloseWindow, Edit
  <2>4. ASSUME NEW code \in {"en", "ru"}, ChangeLanguage(code)
        PROVE  DownloadsKnown' /\ (ModelExists => ModelExists')
    <3>1. proc = "up" /\ proc' = "up" /\ UNCHANGED downloadVars
      BY <2>4 DEF ChangeLanguage, UserActs, EventLoop
    <3>2. QED
      BY <3>1 DEF DownloadsKnown, ModelExists
  <2>5. QED
    BY <1>7, <2>1, <2>2, <2>3, <2>4 DEF UserStep
<1>8. CASE StartStep
  <2>1. CASE EnsureUserConfig \/ LoadVoice
    <3>1. /\ UNCHANGED downloadVars /\ proc \notin {"model", "up"} /\ proc' # "up"
      BY <2>1 DEF EnsureUserConfig, LoadVoice
    <3>2. QED
      BY <3>1 DEF DownloadsKnown, ModelExists
  <2>2. CASE ResolveModel
    <3>1. CASE NeedsModel(cfg) /\ ~ModelExists
      BY <1>5, <2>2, <3>1 DEF ResolveModel, NeedsModel
    <3>2. CASE ~(NeedsModel(cfg) /\ ~ModelExists)
      BY <2>2, <3>2 DEF ResolveModel, DownloadsKnown, ModelExists
    <3>3. QED
      BY <3>1, <3>2
  <2>3. CASE ModelResolved
    BY <1>6, <2>3 DEF ModelResolved
  <2>4. QED
    BY <1>8, <2>1, <2>2, <2>3 DEF StartStep
<1>9. CASE ProcessEnds
  <2>1. final' = final /\ \A j \in AllJobs : job'[j].step = "idle"
    BY <1>1, <1>9 DEF ProcessEnds, DownloadsDie
  <2>2. proc' = "down"
    BY <1>9 DEF ProcessEnds
  <2>3. QED
    BY <2>1, <2>2 DEF DownloadsKnown, ModelExists
<1>10. ASSUME NEW s \in Saves, SaveStep(s)
       PROVE  DownloadsKnown' /\ (ModelExists => ModelExists')
  <2>1. CASE ApplyFields(s)
    <3>1. proc = "up"
      BY <2>1, SavingIsUp DEF ApplyFields
    <3>2. UNCHANGED downloadVars /\ proc' = proc
      BY <2>1 DEF ApplyFields
    <3>3. QED
      BY <3>1, <3>2 DEF DownloadsKnown, ModelExists
  <2>2. CASE UNCHANGED <<downloadVars, proc, cfg>>
    BY <1>4, <2>2
  <2>3. QED
    BY <1>10, <2>1, <2>2 DEF SaveStep, TimerFires, ReadFile, TruncateFile, FillFile
<1>11. ASSUME NEW j \in AllJobs, Downloading(j)
       PROVE  DownloadsKnown' /\ (ModelExists => ModelExists')
  <2>1. DownloadGoesOn(j) /\ UNCHANGED <<proc, cfg>>
    BY <1>11 DEF Downloading
  <2>2. /\ ModelExists => ModelExists'
        /\ \A i \in AllJobs : job'[i].step = "done" => ModelExists'
        /\ job[j].step # "idle"
        /\ \A i \in AllJobs \ {j} : job'[i].step = job[i].step
    BY <2>1, GoesOnFacts DEF DownloadsKnown
  <2>3. QED
    BY <2>1, <2>2 DEF DownloadsKnown
<1>12. ASSUME NEW j \in Jobs, RunDownloadEnds(j)
       PROVE  DownloadsKnown' /\ (ModelExists => ModelExists')
  BY <1>6, <1>12 DEF RunDownloadEnds, EventLoop
<1>13. CASE UNCHANGED vars
  BY <1>4, <1>13 DEF vars
<1>14. QED
  BY <1>7, <1>8, <1>9, <1>10, <1>11, <1>12, <1>13 DEF Next

-----------------------------------------------------------------------------
(* The file follows the config.                                             *)

(* While nothing is written, a config may change its UI language, take the  *)
(* model that was found, or stay as it is.                                  *)
LEMMA QuietFollows ==
  ASSUME ShapeInv, IsConfig(cfg'), FileFollows, UNCHANGED <<file, save, clean>>,
         ModelExists => ModelExists',
         \A k \in PlainKeys \cup {"temp_dir"} : cfg'[k] = cfg[k],
         cfg'.model_path = cfg.model_path \/ Resolved(cfg', ModelExists')
  PROVE  FileFollows'
<1>1. cfg'.api_key = cfg.api_key
  BY KeysAre DEF PlainKeys
<1>2. NoKeyBehind'
  BY <1>1 DEF FileFollows, NoKeyBehind, Writing
<1>3. ASSUME NEW d, Alike(d, cfg, ModelExists)
      PROVE  Alike(d, cfg', ModelExists')
  <2>1. IsConfig(cfg)
    BY DEF ShapeInv
  <2> DEFINE c == cfg
             e == cfg'
             before == ModelExists
             after == ModelExists'
  <2>2. /\ IsConfig(c) /\ IsConfig(e) /\ (before = TRUE => after = TRUE)
        /\ \A k \in PlainKeys \cup {"temp_dir"} : e[k] = c[k]
        /\ e.model_path = c.model_path \/ Resolved(e, after)
        /\ Alike(d, c, before)
    BY <1>3, <2>1
  <2> HIDE DEF c, e, before, after
  <2>3. Alike(d, e, after)
    BY <2>2, AlikeStays, Zenon
  <2>4. QED
    BY <2>3 DEF e, after
<1>4. clean' = TRUE => SavesInTurn'
  BY <1>3 DEF FileFollows, SavesInTurn, Writing
<1>5. QED
  BY <1>2, <1>4 DEF FileFollows

(* Nothing happened to the config, the file or a save that is under way.    *)
LEMMA BegunFollows ==
  ASSUME ShapeInv, FileFollows, UNCHANGED <<cfg, file, clean>>,
         ModelExists => ModelExists',
         NEW s \in Saves, save[s] = NoSave,
         NEW r, IsSave(r), r.step = "apply", save' = [save EXCEPT ![s] = r]
  PROVE  FileFollows'
<1>1. save'[s] = r /\ \A t \in Saves \ {s} : save'[t] = save[t]
  BY OneSaves
<1>2. ~Writing(s) /\ save[s].step # "read"
  BY NoSaveFacts DEF Writing
<1>3. \A t \in Saves : /\ Writing(t)' <=> Writing(t)
                       /\ save'[t].step = "read" <=> save[t].step = "read"
                       /\ Writing(t) => save'[t] = save[t]
  BY <1>1, <1>2 DEF Writing
<1>4. IsConfig(cfg)
  BY DEF ShapeInv
<1>5. ASSUME NEW d, Alike(d, cfg, ModelExists)
      PROVE  Alike(d, cfg', ModelExists')
  BY <1>5 DEF Alike, Resolved
<1>6. NoKeyBehind'
  BY <1>3 DEF FileFollows, NoKeyBehind
<1>7. ASSUME clean' = TRUE
      PROVE  SavesInTurn'
  <2>1. SavesInTurn
    BY <1>7 DEF FileFollows
  <2>2. \A t, u \in Saves : Writing(t)' /\ Writing(u)' => t = u
    BY <1>3, <2>1 DEF SavesInTurn
  <2>3. ASSUME \A t \in Saves : save'[t].step # "read"
        PROVE  /\ \A t \in Saves : Writing(t)' => Alike(Loaded(save'[t].data), cfg', ModelExists')
               /\ (\A t \in Saves : ~Writing(t)') => Alike(Loaded(file'), cfg', ModelExists')
    BY <1>3, <1>5, <2>1, <2>3 DEF SavesInTurn
  <2>4. QED
    BY <2>2, <2>3 DEF SavesInTurn
<1>8. QED
  BY <1>6, <1>7 DEF FileFollows

(* A start that accepts the file runs with what it says.                    *)
LEMMA LoadFollows ==
  ASSUME ShapeInv, LoadVoice, Loads(file)
  PROVE  FileFollows'
<1>1. cfg' = Loaded(file) /\ UNCHANGED <<file, save>> /\ proc = "load"
  BY DEF LoadVoice
<1>2. \A s \in Saves : save[s] = NoSave
  BY <1>1 DEF ShapeInv
<1>3. \A s \in Saves : ~Writing(s)' /\ save'[s].step # "read"
  BY <1>1, <1>2, NoSaveFacts DEF Writing
<1>4. Alike(Loaded(file'), cfg', ModelExists')
  BY <1>1, AlikeItself
<1>5. cfg'.api_key = KeyIn(file)
  <2>1. IsConfig(Loaded(file))
    BY LoadedFacts
  <2> DEFINE m == Merged(file.keys)
             t == [m EXCEPT !.temp_dir = OrElse(@, "private")]
  <2>2. IsConfig(m)
    BY DEF IsConfig, Merged
  <2>3. Loaded(file) = ValidateVoice(t) /\ KeyIn(file) = m.api_key
    BY DEF Loaded, KeyIn
  <2> HIDE DEF m
  <2>4. IsConfig(t) /\ t.api_key = m.api_key
    BY <2>2, KeysAre DEF IsConfig
  <2> HIDE DEF t
  <2>5. ValidateVoice(t).api_key = t.api_key
    BY <2>4, VoiceFacts, KeysAre DEF ValidatedKeys, OrElseKeys
  <2>6. QED
    BY <1>1, <2>3, <2>4, <2>5
<1>6. QED
  BY <1>1, <1>3, <1>4, <1>5 DEF FileFollows, NoKeyBehind, SavesInTurn

(* Applying a form makes the file stale, and says so: the save reads next.  *)
LEMMA ApplyFollows ==
  ASSUME ShapeInv, FileFollows, NEW s \in Saves, ApplyFields(s)
  PROVE  FileFollows'
<1>1. PICK r : save' = [save EXCEPT ![s] = r] /\ IsSave(r) /\ r.step = "read"
  BY SaveMoves
<1>2. save'[s] = r /\ \A t \in Saves \ {s} : save'[t] = save[t]
  BY <1>1, OneSaves
<1>3. \A t \in Saves : Writing(t)' => Writing(t) /\ save'[t] = save[t]
  BY <1>1, <1>2 DEF Writing
<1>4. cfg' = Applied(cfg, forms[save[s].form]) /\ UNCHANGED <<file, clean>>
  BY DEF ApplyFields, diskVars
<1>5. cfg'.api_key = Unset => cfg.api_key = Unset
  BY <1>4, AppliedConfig
<1>6. NoKeyBehind'
  BY <1>3, <1>4, <1>5 DEF FileFollows, NoKeyBehind
<1>7. save'[s].step = "read"
  BY <1>1, <1>2
<1>8. clean' = TRUE => SavesInTurn'
  BY <1>3, <1>4, <1>7 DEF FileFollows, SavesInTurn
<1>9. QED
  BY <1>6, <1>8 DEF FileFollows

LEMMA ReadFollows ==
  ASSUME ShapeInv, FileFollows, UNCHANGED ModelExists, NEW s \in Saves, ReadFile(s)
  PROVE  FileFollows'
<1>1. PICK r : /\ save' = [save EXCEPT ![s] = r] /\ IsSave(r)
               /\ r.step = "truncate" /\ r.data = Saved(file, cfg)
  BY SaveMoves
<1>2. save'[s] = r /\ \A t \in Saves \ {s} : save'[t] = save[t]
  BY <1>1, OneSaves
<1>3. UNCHANGED <<cfg, file>> /\ clean' = (clean /\ \A t \in Saves : ~Writing(t))
  BY DEF ReadFile
<1>4. \A t \in Saves \ {s} : Writing(t)' <=> Writing(t)
  BY <1>2 DEF Writing
<1>5. IsConfig(cfg) /\ (cfg.api_key = Unset => KeyIn(file) = Unset)
  BY DEF ShapeInv, FileFollows, NoKeyBehind
<1>6. /\ Alike(Loaded(Saved(file, cfg)), cfg, ModelExists)
      /\ cfg.api_key = Unset => KeyIn(Saved(file, cfg)) = Unset
  BY <1>5, SavedAlike
<1>7. NoKeyBehind'
  BY <1>1, <1>2, <1>3, <1>4, <1>6 DEF FileFollows, NoKeyBehind
<1>8. ASSUME clean' = TRUE
      PROVE  SavesInTurn'
  <2>1. \A t \in Saves : ~Writing(t)
    BY <1>3, <1>8
  <2>2. \A t \in Saves : Writing(t)' => t = s
    BY <1>4, <2>1
  <2>3. Writing(s)' /\ save'[s].data = Saved(file, cfg)
    BY <1>1, <1>2 DEF Writing
  <2>4. Alike(Loaded(save'[s].data), cfg', ModelExists')
    BY <1>3, <1>6, <2>3
  <2>5. QED
    BY <2>2, <2>3, <2>4 DEF SavesInTurn
<1>9. QED
  BY <1>7, <1>8 DEF FileFollows

LEMMA EmptyFiles == KeyIn(Yaml(NoKeys)) = Unset /\ KeyIn(Torn) = Unset
<1>1. Yaml(NoKeys).keys = NoKeys /\ Torn.keys = NoKeys
  BY DEF Yaml, Torn
<1>2. DOMAIN NoKeys = {}
  BY DEF NoKeys
<1>3. Merged(NoKeys)["api_key"] = Defaults["api_key"]
  BY <1>2, KeysAre DEF Merged
<1>4. Defaults["api_key"] = Unset
  BY DEF Defaults
<1>5. QED
  BY <1>1, <1>3, <1>4 DEF KeyIn

LEMMA TruncateFollows ==
  ASSUME ShapeInv, FileFollows, UNCHANGED ModelExists, NEW s \in Saves, TruncateFile(s),
         file' = Yaml(NoKeys), UNCHANGED clean, save' = [save EXCEPT ![s].step = "fill"]
  PROVE  FileFollows'
<1>1. PICK r : /\ save' = [save EXCEPT ![s] = r] /\ IsSave(r)
               /\ r.step = "fill" /\ r.data = save[s].data
  <2> DEFINE r == [save[s] EXCEPT !.step = "fill"]
  <2>1. IsSave(r) /\ r.step = "fill" /\ r.data = save[s].data
    BY SaveSteps, ZenonT(40) DEF ShapeInv
  <2>2. QED
    BY <2>1
<1>2. save'[s] = r /\ \A t \in Saves \ {s} : save'[t] = save[t]
  BY <1>1, OneSaves
<1>3. UNCHANGED cfg /\ save[s].step = "truncate"
  BY DEF TruncateFile
<1>4. \A t \in Saves : /\ Writing(t)' <=> Writing(t)
                       /\ save'[t].step = "read" <=> save[t].step = "read"
                       /\ save'[t].data = save[t].data
  BY <1>1, <1>2, <1>3 DEF Writing
<1>5. NoKeyBehind'
  BY <1>3, <1>4, EmptyFiles DEF FileFollows, NoKeyBehind
<1>6. Writing(s)
  BY <1>3 DEF Writing
<1>7. ASSUME clean' = TRUE
      PROVE  SavesInTurn'
  <2>1. SavesInTurn
    BY <1>3, <1>7 DEF FileFollows
  <2>2. \A t, u \in Saves : Writing(t)' /\ Writing(u)' => t = u
    BY <1>4, <2>1 DEF SavesInTurn
  <2>3. ASSUME \A t \in Saves : save'[t].step # "read"
        PROVE  \A t \in Saves : Writing(t)' => Alike(Loaded(save'[t].data), cfg', ModelExists')
    BY <1>3, <1>4, <2>1, <2>3 DEF SavesInTurn
  <2>4. QED
    BY <1>4, <1>6, <2>2, <2>3 DEF SavesInTurn
<1>8. QED
  BY <1>5, <1>7 DEF FileFollows

(* A save that ends with an error leaves a process that is not clean, and a *)
(* file in which no key was left behind.                                    *)
LEMMA FailedFollows ==
  ASSUME ShapeInv, FileFollows, NEW s \in Saves, save' = [save EXCEPT ![s] = NoSave],
         cfg' = cfg, file' = file, clean' = FALSE
  PROVE  FileFollows'
<1>1. save'[s] = NoSave /\ \A t \in Saves \ {s} : save'[t] = save[t]
  BY NoSaveFacts, OneSaves
<1>2. ~Writing(s)'
  BY <1>1, NoSaveFacts DEF Writing
<1>3. \A t \in Saves : Writing(t)' => Writing(t) /\ save'[t] = save[t]
  BY <1>1, <1>2 DEF Writing
<1>4. QED
  BY <1>3 DEF FileFollows, NoKeyBehind

LEMMA FillFollows ==
  ASSUME ShapeInv, FileFollows, UNCHANGED ModelExists, NEW s \in Saves, FillFile(s)
  PROVE  FileFollows'
<1>1. save'[s] = NoSave /\ \A t \in Saves \ {s} : save'[t] = save[t]
  BY NoSaveFacts, OneSaves DEF FillFile
<1>2. /\ cfg' = cfg /\ Writing(s)
      /\ \/ file' = save[s].data /\ clean' = clean
         \/ file' \in {file, Torn} /\ clean' = FALSE
  BY DEF FillFile, Writing
<1>3. ~Writing(s)' /\ save'[s].step # "read"
  BY <1>1, NoSaveFacts DEF Writing
<1>4. \A t \in Saves : Writing(t)' => Writing(t) /\ save'[t] = save[t]
  BY <1>1, <1>3 DEF Writing
<1>5. NoKeyBehind'
  BY <1>2, <1>4, EmptyFiles DEF FileFollows, NoKeyBehind
<1>6. ASSUME clean' = TRUE
      PROVE  SavesInTurn'
  <2>1. SavesInTurn /\ file' = save[s].data
    BY <1>2, <1>6 DEF FileFollows
  <2>2. \A t \in Saves : ~Writing(t)'
    BY <1>2, <1>3, <1>4, <2>1 DEF SavesInTurn
  <2>3. ASSUME \A t \in Saves : save'[t].step # "read"
        PROVE  Alike(Loaded(file'), cfg', ModelExists')
    <3>1. \A t \in Saves : save[t].step # "read"
      BY <1>1, <1>2, <2>3 DEF Writing
    <3>2. Alike(Loaded(save[s].data), cfg, ModelExists)
      BY <1>2, <2>1, <3>1 DEF SavesInTurn
    <3>3. QED
      BY <1>2, <2>1, <3>2
  <2>4. QED
    BY <2>2, <2>3 DEF SavesInTurn
<1>7. QED
  BY <1>5, <1>6 DEF FileFollows

LEMMA InitSettings == Init => SettingsInv
<1> SUFFICES ASSUME Init
             PROVE  SettingsInv
  OBVIOUS
<1>1. ShapeInv
  <2>1. Defaults = [k \in Keys |-> Defaults[k]]
    BY DEF Keys, Defaults
  <2>2. QED
    BY <2>1, NoSaveFacts DEF Init, ShapeInv, IsConfig
<1>2. DownloadsKnown
  BY JobFacts DEF Init, DownloadInit, NoJob, DownloadsKnown
<1>3. proc = "down"
  BY DEF Init
<1>4. QED
  BY <1>1, <1>2, <1>3 DEF SettingsInv

LEMMA StepSettings == IInv /\ SettingsInv /\ [Next]_vars => SettingsInv'
<1> SUFFICES ASSUME IInv, SettingsInv, [Next]_vars
             PROVE  SettingsInv'
  OBVIOUS
<1>1. ShapeInv /\ ShapeInv'
  BY StepShape DEF SettingsInv
<1>2. DownloadsKnown' /\ (ModelExists => ModelExists')
  BY StepDownloadsKnown DEF IInv, DownloadInv, SettingsInv
<1>3. IsConfig(cfg) /\ IsConfig(cfg')
  BY <1>1 DEF ShapeInv
<1>4. ASSUME proc' \in {"model", "up"}
      PROVE  FileFollows'
  <2> USE DEF diskVars, uiVars
  <2>1. ASSUME proc \in {"model", "up"}
        PROVE  FileFollows
    BY <2>1 DEF SettingsInv
  <2>2. CASE Aside
    <3>1. FileFollows /\ UNCHANGED <<file, save, clean>> /\ cfg' = cfg
      BY <1>4, <2>1, <2>2 DEF Aside
    <3>2. QED
      BY <1>1, <1>2, <1>3, <3>1, QuietFollows
  <2>3. CASE HandEdit \/ EnsureUserConfig
    BY <1>4, <2>3 DEF HandEdit, EnsureUserConfig
  <2>4. CASE LoadVoice
    BY <1>1, <1>4, <2>4, LoadFollows DEF LoadVoice
  <2>5. CASE ResolveModel \/ ModelResolved
    <3>1. proc = "model" /\ UNCHANGED <<file, save, clean>>
      BY <2>5 DEF ResolveModel, ModelResolved
    <3>2. \/ cfg' = cfg
          \/ /\ cfg' = [cfg EXCEPT !.model_path = "model"]
             /\ cfg.provider = "whisper-cpp" /\ ModelExists
      <4>1. CASE ResolveModel
        BY <4>1 DEF ResolveModel, NeedsModel
      <4>2. CASE ModelResolved
        <5>1. job[0].step = "done" => ModelExists /\ cfg.provider = "whisper-cpp"
          BY <3>1, JobFacts DEF SettingsInv, DownloadsKnown
        <5>2. QED
          BY <4>2, <5>1 DEF ModelResolved
      <4>3. QED
        BY <2>5, <4>1, <4>2
    <3>3. CASE cfg' = cfg
      BY <1>1, <1>2, <1>3, <2>1, <3>1, <3>3, QuietFollows
    <3>4. CASE /\ cfg' = [cfg EXCEPT !.model_path = "model"]
               /\ cfg.provider = "whisper-cpp" /\ ModelExists
      <4> DEFINE e == [cfg EXCEPT !.model_path = "model"]
      <4>1. e.model_path = "model" /\ \A k \in PlainKeys \cup {"temp_dir"} : e[k] = cfg[k]
        BY <1>3, KeysAre DEF IsConfig, PlainKeys
      <4>2. cfg' = e
        BY <3>4
      <4> HIDE DEF e
      <4>3. "provider" \in PlainKeys
        BY KeysAre DEF PlainKeys
      <4>4. Resolved(cfg', ModelExists')
        BY <1>2, <3>4, <4>1, <4>2, <4>3 DEF Resolved
      <4>5. QED
        BY <1>1, <1>2, <1>3, <2>1, <3>1, <4>1, <4>2, <4>4, QuietFollows
    <3>5. QED
      BY <3>2, <3>3, <3>4
  <2>6. ASSUME NEW code \in {"en", "ru"}, ChangeLanguage(code)
        PROVE  FileFollows'
    <3> DEFINE e == [cfg EXCEPT !.ui_language = code]
    <3>1. /\ e.model_path = cfg.model_path
          /\ \A k \in PlainKeys \cup {"temp_dir"} : e[k] = cfg[k]
      BY <1>3, KeysAre DEF IsConfig, PlainKeys
    <3>2. cfg' = e /\ UNCHANGED <<file, save, clean>> /\ proc = "up"
      BY <2>6 DEF ChangeLanguage, UserActs, EventLoop
    <3> HIDE DEF e
    <3>3. QED
      BY <1>1, <1>2, <1>3, <2>1, <3>1, <3>2, QuietFollows
  <2>7. CASE CloseWindow \/ \E s \in Saves, f \in 1..Len(forms) : TimerFires(f, s)
    <3>1. proc = "up" /\ UNCHANGED <<cfg, file, clean>>
      BY <2>7, CloseOrTimer
    <3>2. CASE UNCHANGED save
      BY <1>1, <1>2, <1>3, <2>1, <3>1, <3>2, QuietFollows
    <3>3. ASSUME NEW s \in Saves, save[s] = NoSave,
                 NEW r, IsSave(r), r.step = "apply", save' = [save EXCEPT ![s] = r]
          PROVE  FileFollows'
      BY <1>1, <1>2, <2>1, <3>1, <3>3, BegunFollows
    <3>4. QED
      BY <2>7, <3>2, <3>3, CloseOrTimer
  <2>8. ASSUME NEW s \in Saves, ApplyFields(s) \/ ReadFile(s) \/ TruncateFile(s) \/ FillFile(s)
        PROVE  FileFollows'
    <3>1. save[s].step # "idle" /\ UNCHANGED ModelExists
      BY <2>8 DEF ApplyFields, ReadFile, TruncateFile, FillFile, downloadVars, ModelExists
    <3>2. FileFollows
      BY <1>1, <2>1, <3>1, SavingIsUp
    <3>3. CASE TruncateFile(s)
      <4>1. /\ cfg' = cfg
            /\ \/ /\ save' = [save EXCEPT ![s].step = "fill"]
                  /\ file' = Yaml(NoKeys) /\ UNCHANGED clean
               \/ /\ save' = [save EXCEPT ![s] = NoSave]
                  /\ file' = file /\ clean' = FALSE
        BY <3>3 DEF TruncateFile
      <4>2. QED
        BY <1>1, <3>1, <3>2, <3>3, <4>1, TruncateFollows, FailedFollows
    <3>4. QED
      BY <1>1, <2>8, <3>1, <3>2, <3>3, ApplyFollows, ReadFollows, FillFollows
  <2>9. CASE ProcessEnds
    BY <1>4, <2>9 DEF ProcessEnds
  <2>10. QED
    BY <2>2, <2>3, <2>4, <2>5, <2>6, <2>7, <2>8, <2>9, NextCases
<1>5. QED
  BY <1>1, <1>2, <1>4 DEF SettingsInv

(* A restart brings back the settings of the running daemon, whatever files *)
(* the user writes by hand, whatever is edited, in any order, through any   *)
(* number of forms, saves, restarts and downloads: once every save is       *)
(* through, and none failed or overlapped another, the file reads as the    *)
(* config of the process does (but for the language of the UI).             *)
THEOREM RestartKeeps == Spec => []RestartKeepsSettings
<1>1. Spec => []SettingsInv
  <2>1. Init => SettingsInv
    BY InitSettings
  <2>2. IInv /\ SettingsInv /\ [Next]_vars => SettingsInv'
    BY StepSettings
  <2>3. QED
    BY <2>1, <2>2, Invariance, PTL DEF Spec
<1>2. SettingsInv => RestartKeepsSettings
  <2> SUFFICES ASSUME SettingsInv, Settled, NEW k \in Keys \ {"ui_language"}
               PROVE  Started(Loaded(file))[k] = Started(cfg)[k]
    BY DEF RestartKeepsSettings
  <2>1. \A s \in Saves : save[s].step # "read" /\ ~Writing(s)
    BY NoSaveFacts DEF Settled, Writing
  <2>2. SavesInTurn /\ IsConfig(cfg)
    BY DEF SettingsInv, ShapeInv, FileFollows, Settled
  <2>3. Alike(Loaded(file), cfg, ModelExists)
    BY <2>1, <2>2 DEF SavesInTurn
  <2>4. IsConfig(Loaded(file))
    BY LoadedFacts
  <2>5. QED
    BY <2>2, <2>3, <2>4, AlikeStarted
<1>3. QED
  BY <1>1, <1>2, PTL

-----------------------------------------------------------------------------
(* The whole of the types: the forms are kept in the order they were built, *)
(* and whatever the window shows or a save reads is one of them.            *)
IsForm(r) ==
  /\ r = [locale |-> r.locale, armed |-> r.armed, w |-> r.w]
  /\ r.armed \in BOOLEAN /\ r.w = [k \in Keys |-> r.w[k]]

AreForms(fs) == \E S : fs \in Seq(S) /\ \A r \in S : IsForm(r)

FileKinds == {"missing", "torn", "yaml"}

SaveOf(r, n) ==
  /\ IsSave(r)
  /\ r.step \in {"idle", "apply", "read", "truncate", "fill"}
  /\ r.step # "idle" => r.form \in 1..n
  /\ r.data.is \in FileKinds /\ r.flush \in BOOLEAN

WindowInv ==
  /\ AreForms(forms) /\ Len(forms) <= MaxForms /\ form \in 0..Len(forms)
  /\ save = [s \in Saves |-> save[s]]
  /\ \A s \in Saves : SaveOf(save[s], Len(forms))

PlainInv ==
  /\ proc \in {"down", "template", "load", "model", "up"}
  /\ file.is \in FileKinds /\ clean \in BOOLEAN
  /\ acts \in 0..MaxActs /\ starts \in 0..MaxStarts

LEMMA FormFacts ==
  ASSUME NEW fs, AreForms(fs)
  PROVE  Len(fs) \in Nat /\ \A f \in 1..Len(fs) : IsForm(fs[f])
<1>1. PICK S : fs \in Seq(S) /\ \A r \in S : IsForm(r)
  BY DEF AreForms
<1>2. QED
  BY <1>1, LenProperties, ElementOfSeq

LEMMA FormReplaced ==
  ASSUME NEW fs, AreForms(fs), NEW f \in 1..Len(fs), NEW r, IsForm(r),
         NEW gs, gs = [fs EXCEPT ![f] = r]
  PROVE  AreForms(gs) /\ Len(gs) = Len(fs)
<1>1. PICK S : fs \in Seq(S) /\ \A q \in S : IsForm(q)
  BY DEF AreForms
<1>2. fs \in Seq(S \cup {r})
  BY <1>1, SeqMonotonic
<1>3. gs \in Seq(S \cup {r}) /\ Len(gs) = Len(fs)
  BY <1>2, ExceptSeq
<1>4. \A q \in S \cup {r} : IsForm(q)
  BY <1>1
<1>5. QED
  BY <1>3, <1>4 DEF AreForms

LEMMA FormAppended ==
  ASSUME NEW fs, AreForms(fs), NEW r, IsForm(r)
  PROVE  AreForms(Append(fs, r)) /\ Len(Append(fs, r)) = Len(fs) + 1
<1>1. PICK S : fs \in Seq(S) /\ \A q \in S : IsForm(q)
  BY DEF AreForms
<1>2. fs \in Seq(S \cup {r})
  BY <1>1, SeqMonotonic
<1>3. Append(fs, r) \in Seq(S \cup {r}) /\ Len(Append(fs, r)) = Len(fs) + 1
  BY <1>2, AppendProperties
<1>4. \A q \in S \cup {r} : IsForm(q)
  BY <1>1
<1>5. QED
  BY <1>3, <1>4 DEF AreForms

LEMMA NoForms == AreForms(<<>>) /\ Len(<<>>) = 0
<1> DEFINE S == {}
<1>1. <<>> \in Seq(S) /\ Len(<<>>) = 0 /\ \A r \in S : IsForm(r)
  BY EmptySeq
<1> HIDE DEF S
<1>2. QED
  BY <1>1 DEF AreForms

LEMMA BuiltForm ==
  ASSUME NEW c, NEW locale
  PROVE  IsForm(buildContent(c, locale))
BY DEF IsForm, buildContent

LEMMA ChangedForm ==
  ASSUME NEW r, IsForm(r), NEW k, NEW v, NEW b \in BOOLEAN
  PROVE  IsForm([r EXCEPT !.armed = b]) /\ IsForm([r EXCEPT !.w[k] = v, !.armed = b])
<1>1. ASSUME NEW q, IsForm(q)
      PROVE  IsForm([q EXCEPT !.armed = b])
  <2>1. [q EXCEPT !.armed = b] = [locale |-> q.locale, armed |-> b, w |-> q.w]
    BY <1>1 DEF IsForm
  <2>2. QED
    BY <1>1, <2>1 DEF IsForm
<1> DEFINE u == [r.w EXCEPT ![k] = v]
           q == [r EXCEPT !.w = u]
<1>2. u = [i \in Keys |-> u[i]]
  BY DEF IsForm
<1> HIDE DEF u
<1>3. q = [locale |-> r.locale, armed |-> r.armed, w |-> u]
  BY DEF IsForm
<1>4. IsForm(q)
  BY <1>2, <1>3 DEF IsForm
<1> HIDE DEF q
<1>5. IsForm([r EXCEPT !.armed = b]) /\ IsForm([q EXCEPT !.armed = b])
  BY <1>1, <1>4
<1>6. QED
  BY <1>5 DEF q, u

(* What arms and disarms a saver, and what an edit does to the window.      *)
Armed(fs, f, b) == [fs EXCEPT ![f].armed = b]
Edited(fs, f, k, v) == [fs EXCEPT ![f].w[k] = v, ![f].armed = TRUE]

LEMMA ArmedForms ==
  ASSUME NEW fs, AreForms(fs), NEW f \in 1..Len(fs), NEW b \in BOOLEAN
  PROVE  AreForms(Armed(fs, f, b)) /\ Len(Armed(fs, f, b)) = Len(fs)
<1> DEFINE q == [fs[f] EXCEPT !.armed = b]
<1>1. IsForm(q)
  BY FormFacts, ChangedForm
<1>2. Armed(fs, f, b) = [fs EXCEPT ![f] = q]
  BY DEF Armed
<1> HIDE DEF q
<1>3. QED
  BY <1>1, <1>2, FormReplaced

LEMMA EditedForms ==
  ASSUME NEW fs, AreForms(fs), NEW f \in 1..Len(fs), NEW k, NEW v
  PROVE  AreForms(Edited(fs, f, k, v)) /\ Len(Edited(fs, f, k, v)) = Len(fs)
<1> DEFINE q == [fs[f] EXCEPT !.w[k] = v, !.armed = TRUE]
<1>1. IsForm(fs[f])
  BY FormFacts
<1>2. IsForm(q)
  BY <1>1, ChangedForm
<1>3. Edited(fs, f, k, v) = [fs EXCEPT ![f] = q]
  <2>1. PICK S : fs \in Seq(S)
    BY DEF AreForms
  <2>2. fs \in [1..Len(fs) -> S]
    BY <2>1, LenProperties
  <2>3. QED
    BY <2>2 DEF Edited
<1> HIDE DEF q
<1>4. QED
  BY <1>2, <1>3, FormReplaced

LEMMA SaveStays ==
  ASSUME NEW r, NEW n \in Nat, NEW m \in Nat, n <= m, SaveOf(r, n)
  PROVE  SaveOf(r, m)
BY DEF SaveOf

LEMMA NoSaveIsOne == ASSUME NEW n \in Nat PROVE SaveOf(NoSave, n)
BY NoSaveFacts DEF SaveOf, NoSave, Missing, FileKinds

(* The forms change, and none goes away.                                    *)
LEMMA FormsMove ==
  ASSUME WindowInv, UNCHANGED save, AreForms(forms'),
         Len(forms') \in {Len(forms), Len(forms) + 1}, Len(forms') <= MaxForms,
         form' \in 0..Len(forms')
  PROVE  WindowInv'
<1>1. Len(forms) \in Nat /\ Len(forms') \in Nat /\ Len(forms) <= Len(forms')
  BY FormFacts DEF WindowInv
<1>2. \A s \in Saves : SaveOf(save'[s], Len(forms'))
  BY <1>1, SaveStays DEF WindowInv
<1>3. QED
  BY <1>2 DEF WindowInv

(* One save moves.                                                          *)
LEMMA OneSaveMoves ==
  ASSUME WindowInv, AreForms(forms'), Len(forms') = Len(forms), form' \in 0..Len(forms),
         NEW s \in Saves, NEW r, SaveOf(r, Len(forms)), save' = [save EXCEPT ![s] = r]
  PROVE  WindowInv'
<1>1. save' = [t \in Saves |-> save'[t]]
  BY DEF WindowInv
<1>2. \A t \in Saves : SaveOf(save'[t], Len(forms'))
  BY DEF WindowInv
<1>3. QED
  BY <1>1, <1>2 DEF WindowInv

LEMMA Begun ==
  ASSUME WindowInv, NEW s \in Saves, NEW f \in 1..Len(forms), NEW flush \in BOOLEAN,
         BeginSave(s, f, flush), forms' = Armed(forms, f, FALSE), form' \in 0..Len(forms)
  PROVE  WindowInv'
<1>1. AreForms(forms') /\ Len(forms') = Len(forms)
  BY ArmedForms DEF WindowInv
<1> DEFINE r == [step |-> "apply", form |-> f, data |-> Missing, flush |-> flush]
<1>2. SaveOf(r, Len(forms))
  BY DEF SaveOf, IsSave, Missing, FileKinds
<1>3. save' = [save EXCEPT ![s] = r]
  BY DEF BeginSave
<1> HIDE DEF r
<1>4. QED
  BY <1>1, <1>2, <1>3, OneSaveMoves

(* What the user does in the window.                                        *)
LEMMA UserWindow ==
  ASSUME WindowInv, UserStep
  PROVE  WindowInv'
<1>1. AreForms(forms) /\ Len(forms) \in Nat /\ form \in 0..Len(forms) /\ Len(forms) <= MaxForms
  BY FormFacts DEF WindowInv
<1>2. CASE UNCHANGED <<forms, form, save>>
  BY <1>2 DEF WindowInv
<1>3. CASE OpenWindow
  <2>1. /\ forms' = Append(forms, buildContent(cfg, ui')) /\ form' = Len(forms')
        /\ Len(forms) < MaxForms /\ UNCHANGED save
    BY <1>3 DEF OpenWindow
  <2>2. AreForms(forms') /\ Len(forms') = Len(forms) + 1
    BY <1>1, <2>1, BuiltForm, FormAppended
  <2>3. Len(forms') <= MaxForms /\ form' \in 0..Len(forms')
    BY <1>1, <2>1, <2>2, SettingsAssumption DEF SettingsAssumption
  <2>4. QED
    BY <2>1, <2>2, <2>3, FormsMove
<1>4. ASSUME NEW e \in Edits, Edit(e) PROVE WindowInv'
  <2>1. /\ forms' = Edited(forms, form, e.key, e.value) /\ UNCHANGED <<form, save>>
        /\ form # 0
    BY <1>4 DEF Edit, Edited
  <2>2. form \in 1..Len(forms)
    BY <1>1, <2>1
  <2>3. AreForms(forms') /\ Len(forms') = Len(forms)
    BY <1>1, <2>1, <2>2, EditedForms
  <2>4. QED
    BY <1>1, <2>1, <2>3, FormsMove
<1>5. ASSUME NEW code \in {"en", "ru"}, ChangeLanguage(code) PROVE WindowInv'
  <2> DEFINE left == Edited(forms, form, "ui_language", code)
             built == buildContent(cfg', code)
  <2>1. /\ forms' = Append(left, built) /\ form' = Len(forms') /\ form # 0
        /\ Len(forms) < MaxForms /\ UNCHANGED save
    BY <1>5 DEF ChangeLanguage, Edited
  <2>2. form \in 1..Len(forms) /\ IsForm(built)
    BY <1>1, <2>1, BuiltForm
  <2>3. AreForms(left) /\ Len(left) = Len(forms)
    BY <1>1, <2>2, EditedForms
  <2> HIDE DEF left, built
  <2>4. AreForms(forms') /\ Len(forms') = Len(forms) + 1
    BY <2>1, <2>2, <2>3, FormAppended
  <2>5. Len(forms') <= MaxForms /\ form' \in 0..Len(forms')
    BY <1>1, <2>1, <2>4, SettingsAssumption DEF SettingsAssumption
  <2>6. QED
    BY <2>1, <2>4, <2>5, FormsMove
<1>6. CASE CloseWindow
  <2>1. form \in 1..Len(forms) /\ form' = 0 /\ form' \in 0..Len(forms)
    BY <1>1, <1>6 DEF CloseWindow
  <2>2. CASE UNCHANGED <<forms, save>>
    BY <1>1, <2>1, <2>2, FormsMove
  <2>3. ASSUME NEW s \in Saves, BeginSave(s, form, TRUE),
               forms' = [forms EXCEPT ![form].armed = FALSE]
        PROVE  WindowInv'
    <3>1. forms' = Armed(forms, form, FALSE)
      BY <2>3 DEF Armed
    <3>2. QED
      BY <2>1, <2>3, <3>1, Begun
  <2>4. QED
    BY <1>6, <2>2, <2>3 DEF CloseWindow
<1>7. CASE HandEdit \/ CancelClicked \/ \E j \in Jobs : StartClicked(j)
  BY <1>2, <1>7 DEF HandEdit, CancelClicked, StartClicked, uiVars
<1>8. QED
  BY <1>3, <1>4, <1>5, <1>6, <1>7 DEF UserStep

(* What a save does: it never loses the form it was begun with.             *)
LEMMA SaveWindow ==
  ASSUME WindowInv, NEW s \in Saves, SaveStep(s)
  PROVE  WindowInv'
<1>1. AreForms(forms) /\ Len(forms) \in Nat /\ form \in 0..Len(forms)
  BY FormFacts DEF WindowInv
<1>2. ASSUME NEW f \in 1..Len(forms), TimerFires(f, s) PROVE WindowInv'
  <2>1. forms' = Armed(forms, f, FALSE) /\ BeginSave(s, f, FALSE) /\ form' = form
    BY <1>2 DEF TimerFires, Armed
  <2>2. QED
    BY <1>1, <2>1, Begun
<1>3. CASE ApplyFields(s) \/ ReadFile(s) \/ TruncateFile(s) \/ FillFile(s)
  <2>1. UNCHANGED <<forms, form>>
    BY <1>3 DEF ApplyFields, ReadFile, TruncateFile, FillFile, uiVars
  <2>2. SaveOf(save[s], Len(forms))
    BY DEF WindowInv
  <2>3. CASE FillFile(s)
    <3>1. save' = [save EXCEPT ![s] = NoSave]
      BY <2>3 DEF FillFile
    <3>2. QED
      BY <1>1, <2>1, <3>1, NoSaveIsOne, OneSaveMoves
  <2>4. ASSUME NEW to \in {"read", "fill"}, save' = [save EXCEPT ![s].step = to],
               save[s].step # "idle"
        PROVE  WindowInv'
    <3> DEFINE r == [save[s] EXCEPT !.step = to]
    <3>1. r = [step |-> to, form |-> save[s].form, data |-> save[s].data, flush |-> save[s].flush]
      BY <2>2 DEF SaveOf, IsSave
    <3>2. SaveOf(r, Len(forms))
      BY <2>2, <2>4, <3>1 DEF SaveOf, IsSave
    <3>3. save' = [save EXCEPT ![s] = r]
      BY <2>4
    <3> HIDE DEF r
    <3>4. QED
      BY <1>1, <2>1, <3>2, <3>3, OneSaveMoves
  <2>5. CASE ReadFile(s)
    <3> DEFINE d == Saved(file, cfg)
               r == [step |-> "truncate", form |-> save[s].form, data |-> d,
                     flush |-> save[s].flush]
    <3>1. d.is \in FileKinds
      BY DEF Saved, Yaml, FileKinds
    <3>2. save' = [save EXCEPT ![s].step = "truncate", ![s].data = d] /\ save[s].step # "idle"
      BY <2>5 DEF ReadFile
    <3> HIDE DEF d
    <3>3. save' = [save EXCEPT ![s] = r]
      <4> DEFINE read == [save[s] EXCEPT !.step = "truncate", !.data = d]
      <4>1. save = [t \in Saves |-> save[t]]
        BY DEF WindowInv
      <4>2. save' = [save EXCEPT ![s] = read]
        BY <3>2, <4>1
      <4>3. read = r
        <5> DEFINE cut == [save[s] EXCEPT !.step = "truncate"]
        <5>1. cut = [step |-> "truncate", form |-> save[s].form, data |-> save[s].data,
                     flush |-> save[s].flush]
          BY <2>2 DEF SaveOf, IsSave
        <5> HIDE DEF cut
        <5>2. [cut EXCEPT !.data = d] = r
          BY <5>1
        <5>3. QED
          BY <5>2 DEF cut
      <4>4. QED
        BY <4>2, <4>3
    <3>4. SaveOf(r, Len(forms))
      BY <2>2, <3>1, <3>2 DEF SaveOf, IsSave
    <3> HIDE DEF r
    <3>5. QED
      BY <1>1, <2>1, <3>3, <3>4, OneSaveMoves
  <2>6. CASE save' = [save EXCEPT ![s] = NoSave]
    BY <1>1, <2>1, <2>6, NoSaveIsOne, OneSaveMoves
  <2>7. QED
    BY <1>3, <2>3, <2>4, <2>5, <2>6 DEF ApplyFields, TruncateFile
<1>4. QED
  BY <1>2, <1>3 DEF SaveStep

LEMMA InitWindow == Init => WindowInv /\ PlainInv
<1> SUFFICES ASSUME Init PROVE WindowInv /\ PlainInv
  OBVIOUS
<1> USE SettingsAssumption DEF SettingsAssumption, Init
<1>1. WindowInv
  BY NoForms, NoSaveIsOne DEF WindowInv
<1>2. file.is \in FileKinds
  BY HandFilesAssumption DEF HandFilesAssumption, FileKinds, Missing
<1>3. QED
  BY <1>1, <1>2 DEF PlainInv

LEMMA StepWindow == WindowInv /\ [Next]_vars => WindowInv'
<1> SUFFICES ASSUME WindowInv, [Next]_vars PROVE WindowInv'
  OBVIOUS
<1>1. CASE UNCHANGED <<forms, form, save>>
  BY <1>1 DEF WindowInv
<1>2. CASE StartStep
  BY <1>1, <1>2 DEF StartStep, EnsureUserConfig, LoadVoice, ResolveModel, ModelResolved, uiVars
<1>3. CASE ProcessEnds
  <2>1. forms' = <<>> /\ form' = 0 /\ save' = [s \in Saves |-> NoSave]
    BY <1>3 DEF ProcessEnds
  <2>2. QED
    BY <2>1, NoForms, NoSaveIsOne, SettingsAssumption DEF WindowInv, SettingsAssumption
<1>4. ASSUME NEW j \in AllJobs, Downloading(j) PROVE WindowInv'
  BY <1>1, <1>4 DEF Downloading, uiVars
<1>5. ASSUME NEW j \in Jobs, RunDownloadEnds(j) PROVE WindowInv'
  <2>1. AreForms(forms) /\ Len(forms) \in Nat /\ form \in 0..Len(forms) /\ Len(forms) <= MaxForms
    BY FormFacts DEF WindowInv
  <2>2. (form \in 1..Len(forms) /\ forms' = Armed(forms, form, TRUE)) \/ UNCHANGED forms
    BY <1>5, <2>1 DEF RunDownloadEnds, Armed
  <2>3. AreForms(forms') /\ Len(forms') = Len(forms)
    <3>1. CASE form \in 1..Len(forms) /\ forms' = Armed(forms, form, TRUE)
      BY <2>1, <3>1, ArmedForms
    <3>2. CASE UNCHANGED forms
      BY <2>1, <3>2
    <3>3. QED
      BY <2>2, <3>1, <3>2
  <2>4. UNCHANGED <<form, save>>
    BY <1>5 DEF RunDownloadEnds
  <2>5. QED
    BY <2>1, <2>3, <2>4, FormsMove
<1>6. CASE UNCHANGED vars
  BY <1>1, <1>6 DEF vars, uiVars
<1>7. QED
  BY <1>2, <1>3, <1>4, <1>5, <1>6, UserWindow, SaveWindow DEF Next

LEMMA StepPlain == WindowInv /\ PlainInv /\ [Next]_vars => PlainInv'
<1> SUFFICES ASSUME WindowInv, PlainInv, [Next]_vars PROVE PlainInv'
  OBVIOUS
<1> USE DEF PlainInv, diskVars, uiVars
<1>1. CASE UNCHANGED <<proc, file, clean, acts, starts>>
  BY <1>1
<1>2. CASE UserStep
  <2>1. CASE HandEdit
    BY <2>1, SettingsAssumption, HandFilesAssumption
    DEF SettingsAssumption, HandFilesAssumption, HandEdit, FileKinds
  <2>2. CASE OpenWindow \/ CloseWindow
    BY <1>1, <2>2 DEF OpenWindow, CloseWindow
  <2>3. CASE /\ UNCHANGED <<proc, file, clean, starts>>
             /\ acts < MaxActs /\ acts' = acts + 1
    BY <2>3, SettingsAssumption DEF SettingsAssumption
  <2>4. QED
    BY <1>2, <2>1, <2>2, <2>3
    DEF UserStep, UserActs, CancelClicked, Edit, ChangeLanguage, StartClicked
<1>3. CASE EnsureUserConfig
  <2>1. UNCHANGED <<clean, acts>> /\ proc' \in {"load", "template"}
    BY <1>3 DEF EnsureUserConfig
  <2>2. file'.is \in FileKinds
    <3>1. file' \in {file, Yaml(NoKeys), Yaml(Template), Torn}
      BY <1>3 DEF EnsureUserConfig
    <3>2. QED
      BY <3>1 DEF Yaml, Torn, FileKinds
  <2>3. starts' \in 0..MaxStarts
    BY <1>3, SettingsAssumption DEF SettingsAssumption, EnsureUserConfig
  <2>4. QED
    BY <2>1, <2>2, <2>3
<1>4. CASE LoadVoice \/ ResolveModel \/ ModelResolved
  <2>1. UNCHANGED <<file, acts, starts>> /\ proc' \in {"model", "down", "up"}
    BY <1>4 DEF LoadVoice, ResolveModel, ModelResolved
  <2>2. clean' = TRUE \/ clean' = clean
    BY <1>4 DEF LoadVoice, ResolveModel, ModelResolved
  <2>3. QED
    BY <2>1, <2>2
<1>5. CASE ProcessEnds
  <2>1. UNCHANGED <<acts, starts>> /\ proc' = "down" /\ clean' = TRUE /\ file' \in {file, Torn}
    BY <1>5 DEF ProcessEnds
  <2>2. QED
    BY <2>1 DEF Torn, FileKinds
<1>6. ASSUME NEW s \in Saves, SaveStep(s) PROVE PlainInv'
  <2>1. UNCHANGED <<proc, acts, starts>>
    BY <1>6 DEF SaveStep, TimerFires, ApplyFields, ReadFile, TruncateFile, FillFile
  <2>2. clean' \in BOOLEAN
    BY <1>6 DEF SaveStep, TimerFires, ApplyFields, ReadFile, TruncateFile, FillFile
  <2>3. file' \in {file, Yaml(NoKeys), save[s].data, Torn}
    BY <1>6 DEF SaveStep, TimerFires, ApplyFields, ReadFile, TruncateFile, FillFile
  <2>4. save[s].data.is \in FileKinds
    BY DEF WindowInv, SaveOf
  <2>5. file'.is \in FileKinds
    BY <2>3, <2>4 DEF Yaml, Torn, FileKinds
  <2>6. QED
    BY <2>1, <2>2, <2>5
<1>7. ASSUME NEW j \in AllJobs, Downloading(j) PROVE PlainInv'
  BY <1>1, <1>7 DEF Downloading
<1>8. ASSUME NEW j \in Jobs, RunDownloadEnds(j) PROVE PlainInv'
  BY <1>1, <1>8 DEF RunDownloadEnds
<1>9. CASE UNCHANGED vars
  BY <1>1, <1>9 DEF vars
<1>10. QED
  BY <1>2, <1>3, <1>4, <1>5, <1>6, <1>7, <1>8, <1>9 DEF Next, StartStep

(* Every variable keeps its type, through saves, restarts and crashes, for  *)
(* any number of forms: above all, a save that is under way has its form,   *)
(* whatever the user does with the window meanwhile (window.go:102-144).    *)
THEOREM TypeCorrect == Spec => []TypeOK
<1>1. IInv /\ ShapeInv /\ WindowInv /\ PlainInv => TypeOK
  <2> SUFFICES ASSUME IInv, ShapeInv, WindowInv, PlainInv PROVE TypeOK
    OBVIOUS
  <2>1. DownloadType /\ downloadCancel \in AllJobs
    BY DEF IInv, DownloadInv
  <2>2. /\ {file.is} \cup {save[s].data.is : s \in Saves} \subseteq {"missing", "torn", "yaml"}
        /\ DOMAIN save = Saves
        /\ \A s \in Saves :
             /\ save[s].step \in {"idle", "apply", "read", "truncate", "fill"}
             /\ save[s].step # "idle" => save[s].form \in 1..Len(forms)
             /\ save[s].flush \in BOOLEAN
    BY DEF WindowInv, SaveOf, PlainInv, FileKinds
  <2>3. /\ Len(forms) \in 0..MaxForms /\ form \in 0..Len(forms)
        /\ \A f \in 1..Len(forms) : IsForm(forms[f])
    BY FormFacts, SettingsAssumption DEF SettingsAssumption, WindowInv
  <2>4. \A f \in 1..Len(forms) : DOMAIN forms[f].w = Keys /\ forms[f].armed \in BOOLEAN
    BY <2>3 DEF IsForm
  <2>5. DOMAIN cfg = Keys
    BY DEF ShapeInv, IsConfig
  <2>6. QED
    BY <2>1, <2>2, <2>3, <2>4, <2>5 DEF PlainInv, TypeOK
<1>2. Init => ShapeInv
  BY InitSettings DEF SettingsInv
<1>3. Spec => []ShapeInv
  BY <1>2, StepShape, PTL DEF Spec
<1>4. QED
  BY <1>1, <1>3, Invariance, InitWindow, StepWindow, StepPlain, PTL DEF Spec
=============================================================================
