---------------------------- MODULE ModelDownload ----------------------------
(***************************************************************************)
(* The download of a whisper.cpp model (pkg/whispercpp/download.go): the    *)
(* mirrors in turn, a .partial file beside the final path and a rename.     *)
(* Two downloads share the .partial: a file is known by the job that        *)
(* truncated it last and by whether that job has written all of it.  One    *)
(* model; job 0 is the one of the start-up.                                 *)
(***************************************************************************)
EXTENDS Naturals

CONSTANTS
  Jobs,       \* the downloads the window may have under way
  Sources     \* number of mirrors

ASSUME DownloadAssumption == Jobs \subseteq Nat \ {0} /\ Sources \in Nat \ {0}

AllJobs == Jobs \cup {0}
none == [by |-> 99, whole |-> FALSE]
Contents == {none} \cup [by : AllJobs, whole : BOOLEAN]

VARIABLES
  final,      \* what is at the model's path
  partial,    \* what is at its .partial
  job,        \* job[j]: where the download is, at which mirror, and which
              \*   file it has open
  cancelled,  \* downloads whose context is done
  shared      \* an observer: some download opened the .partial while another
              \*   was writing or about to rename it

downloadVars == <<final, partial, job, cancelled, shared>>

DownloadSteps == {"idle", "stat", "try", "copy", "rename", "remove", "done", "failed"}
NoJob == [step |-> "idle", source |-> 0, file |-> "none"]

DownloadType ==
  /\ final \in Contents /\ partial \in Contents
  /\ job \in [AllJobs -> [step : DownloadSteps, source : 0..Sources,
                          file : {"none", "partial", "final", "unlinked"}]]
  /\ cancelled \subseteq AllJobs /\ shared \in BOOLEAN

DownloadInit ==
  /\ final = none /\ partial = none
  /\ job = [j \in AllJobs |-> NoJob]
  /\ cancelled = {} /\ shared = FALSE

(* An empty file is no model; the code never leaves one at the path.        *)
ModelExists == final # none

Step(j, from, to) ==
  job[j].step = from /\ job' = [job EXCEPT ![j].step = to]

StartDownload(j) ==
  /\ job[j].step \in {"idle", "done", "failed"}
  /\ job' = [job EXCEPT ![j] = [NoJob EXCEPT !.step = "stat"]]
  /\ cancelled' = cancelled \ {j}
  /\ UNCHANGED <<final, partial, shared>>

(* Download: a model that is there is taken as it is.                       *)
StatModel(j) ==
  /\ Step(j, "stat", IF ModelExists THEN "done" ELSE "try")
  /\ UNCHANGED <<final, partial, cancelled, shared>>

(* tryAllSources: no mirror is asked for a download that was cancelled, or  *)
(* once all have failed.                                                    *)
GiveUp(j) ==
  /\ Step(j, "try", "failed")
  /\ j \in cancelled \/ job[j].source = Sources
  /\ UNCHANGED <<final, partial, cancelled, shared>>

(* fetchOne up to os.Create; the request or the creation may fail.          *)
Fetch(j) ==
  /\ job[j].step = "try" /\ j \notin cancelled /\ job[j].source < Sources
  /\ \/ /\ job' = [job EXCEPT ![j].source = @ + 1]
        /\ UNCHANGED <<partial, shared>>
     \/ /\ job' = [job EXCEPT ![j].source = @ + 1, ![j].step = "remove"]
        /\ UNCHANGED <<partial, shared>>
     \/ /\ job' = [job EXCEPT ![j] = [step |-> "copy", source |-> @.source + 1,
                                      file |-> "partial"]]
        /\ partial' = [by |-> j, whole |-> FALSE]
        /\ shared' = (shared \/ \E i \in AllJobs \ {j} : job[i].step \in {"copy", "rename"})
  /\ UNCHANGED <<final, cancelled>>

(* Seeded fault: what was read when the body breaks off is kept.            *)
CopyBodyKeeping(j) ==
  /\ Step(j, "copy", "rename")
  /\ UNCHANGED <<final, partial, cancelled, shared>>

(* copyWithProgress into the file that is open, wherever it is by now; the  *)
(* link, the disk and a cancellation end it early.                          *)
CopyBody(j) ==
  \/ /\ Step(j, "copy", "rename")
     /\ partial' = IF job[j].file = "partial" /\ partial.by = j
                   THEN [partial EXCEPT !.whole = TRUE] ELSE partial
     /\ final' = IF job[j].file = "final" /\ final.by = j
                 THEN [final EXCEPT !.whole = TRUE] ELSE final
     /\ UNCHANGED <<cancelled, shared>>
  \/ /\ Step(j, "copy", "remove")
     /\ UNCHANGED <<final, partial, cancelled, shared>>

(* The name is renamed or removed, not the file that was written.           *)
RenamePartial(j) ==
  /\ job[j].step = "rename"
  /\ IF partial = none
     THEN /\ job' = [job EXCEPT ![j].step = "remove"]
          /\ UNCHANGED <<final, partial>>
     ELSE /\ final' = partial /\ partial' = none
          /\ job' = [i \in AllJobs |->
               IF i = j THEN [NoJob EXCEPT !.step = "done"]
               ELSE CASE job[i].file = "partial" -> [job[i] EXCEPT !.file = "final"]
                      [] job[i].file = "final" -> [job[i] EXCEPT !.file = "unlinked"]
                      [] OTHER -> job[i]]
  /\ UNCHANGED <<cancelled, shared>>

RemovePartial(j) ==
  /\ job[j].step = "remove"
  /\ partial' = none
  /\ job' = [i \in AllJobs |->
       IF i = j THEN [job[i] EXCEPT !.step = "try", !.file = "none"]
       ELSE IF job[i].file = "partial" THEN [job[i] EXCEPT !.file = "unlinked"]
       ELSE job[i]]
  /\ UNCHANGED <<final, cancelled, shared>>

DownloadGoesOn(j) ==
  \/ StatModel(j) \/ GiveUp(j) \/ Fetch(j) \/ CopyBody(j)
  \/ RenamePartial(j) \/ RemovePartial(j)

(* The process is gone, the files stay.                                     *)
DownloadsDie ==
  /\ job' = [j \in AllJobs |-> NoJob]
  /\ cancelled' = {}
  /\ UNCHANGED <<final, partial, shared>>

=============================================================================
