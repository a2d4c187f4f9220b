------------------------ MODULE ProcessLifecycleProofs ------------------------
(***************************************************************************)
(* Proofs about ProcessLifecycle for any number of invocations: where the   *)
(* runtime directory is not swept with the temporary one, one daemon at     *)
(* most listens, and the lock file names it.                                *)
(***************************************************************************)
EXTENDS ProcessLifecycle, SequenceTheorems, TLAPS

(* The types of what the proofs speak of.                                   *)
LifeType ==
  /\ path \in 0..MaxFiles /\ files \in 0..MaxFiles
  /\ fd \in [Procs -> 0..MaxFiles]
  /\ flock \in [Files -> Procs \cup {nobody}]
  /\ pidIn \in [Files -> Procs \cup {nobody}]
  /\ pc \in [Procs -> Steps]
  /\ keys \in [Procs -> {"off", "on", "stopped"}]
  /\ watch \in [Procs -> WatchSteps]

(* There is one lock file, and nobody has another one open.                 *)
OneFile ==
  /\ path = files
  /\ \A p \in Procs : fd[p] \in {0, path}

(* A lock is held through an open file, from flock to Release.              *)
LockFollows ==
  /\ \A p \in Procs, f \in Files : flock[f] = p => fd[p] = f
  /\ \A p \in Procs : pc[p] = "flock" => fd[p] # 0
  /\ \A p \in Procs :
       pc[p] \in {"truncate", "pid", "sync"} \cup Starting \cup Serving => Holds(p)

PidFollows ==
  \A p \in Procs :
    pc[p] \in {"sync"} \cup Starting \cup Serving => pidIn[fd[p]] = p

(* The hotkey is listened to from Serve on, and no more when the goroutine  *)
(* that Serve waits for, and that runs from Serve on too, is through.       *)
KeysFollow ==
  \A p \in Procs :
    /\ keys[p] = "on" => pc[p] \in {"window", "loop", "returned"}
    /\ watch[p] \in {"stopwindow", "done"} => keys[p] # "on"
    /\ watch[p] # "off" => pc[p] \in {"window", "loop", "returned", "release"}

LifeInv == LifeType /\ OneFile /\ LockFollows /\ PidFollows /\ KeysFollow

procVars == <<pc, keys, watch>>
lifeVars == <<lockVars, procVars>>

-----------------------------------------------------------------------------
LEMMA InitLife == Init => LifeInv
<1> SUFFICES ASSUME Init PROVE LifeInv OBVIOUS
<1> USE LockAssumption DEF Init, LockInit, LockAssumption
<1>1. LifeType
  BY DEF LifeType, Files, Steps, WatchSteps
<1>2. OneFile BY DEF OneFile
<1>3. LockFollows
  BY DEF LockFollows, Acquiring, Starting, Serving
<1>4. PidFollows BY DEF PidFollows, Starting, Serving
<1>5. KeysFollow BY DEF KeysFollow
<1>6. QED BY <1>1, <1>2, <1>3, <1>4, <1>5 DEF LifeInv

LEMMA LifeUntouched ==
  ASSUME LifeInv, UNCHANGED lifeVars
  PROVE  LifeInv'
BY DEF LifeInv, LifeType, OneFile, LockFollows, PidFollows, KeysFollow,
       Holds, lifeVars, lockVars, procVars

(* Who holds a lock is alone with it.                                       *)
LEMMA HoldersAgree ==
  ASSUME LifeInv, NEW p \in Procs, NEW q \in Procs, Holds(p), Holds(q)
  PROVE  p = q
BY DEF LifeInv, OneFile, Holds

(* The end of a process, at whatever step it comes.                         *)
LEMMA GoneKeeps ==
  ASSUME LifeInv, NEW p \in Procs, Gone(p)
  PROVE  LifeInv'
<1> USE LockAssumption DEF LifeInv, Gone, Unlock, Goto, dirVars, LockAssumption
<1>1. LifeType' BY DEF LifeType, Steps, WatchSteps
<1>2. OneFile' BY DEF OneFile, LifeType
<1>3. LockFollows'
  BY DEF LockFollows, LifeType, Holds, Steps, Acquiring, Starting, Serving, Files
<1>4. PidFollows' BY DEF PidFollows, LifeType, Starting, Serving
<1>5. KeysFollow' BY DEF KeysFollow, LifeType
<1>6. QED BY <1>1, <1>2, <1>3, <1>4, <1>5

(* The steps of a start that touch the lock file.                           *)
LEMMA OpenKeeps ==
  ASSUME LifeInv, NEW p \in Procs, AcquireOpens(p)
  PROVE  LifeInv'
<1>1. CASE Gone(p) BY <1>1, GoneKeeps
<1>2. CASE pc[p] = "lock" /\ Goto(p, "flock") /\ OpenLock(p) /\ UNCHANGED runVars
  <2> USE LockAssumption DEF LifeInv, LifeType, LockAssumption
  <2>1. /\ \/ path # 0 /\ path' = path /\ files' = files
           \/ path = 0 /\ files < MaxFiles /\ path' = files + 1 /\ files' = files + 1
        /\ fd' = [fd EXCEPT ![p] = path']
        /\ flock' = flock /\ pidIn' = pidIn
    BY <1>2, Zenon DEF OpenLock, dirVars
  <2>2. pc' = [pc EXCEPT ![p] = "flock"] /\ keys' = keys /\ watch' = watch
    BY <1>2, Zenon DEF Goto, runVars
  <2>3. /\ pc'[p] = "flock" /\ fd'[p] \in Files
        /\ \A q \in Procs : q # p => pc'[q] = pc[q] /\ fd'[q] = fd[q]
        /\ fd[p] # 0 => fd'[p] = fd[p]
    BY <2>1, <2>2 DEF OneFile, Files
  <2>4. LifeType' /\ OneFile'
    BY <2>1, <2>2 DEF OneFile, Steps, Acquiring
  <2>5. LockFollows'
    BY <2>1, <2>3 DEF LockFollows, Holds, Starting, Serving, Files
  <2>6. PidFollows' BY <2>1, <2>3 DEF PidFollows, Starting, Serving
  <2>7. KeysFollow' BY <1>2, <2>2, <2>3 DEF KeysFollow
  <2>8. QED BY <2>4, <2>5, <2>6, <2>7
<1>3. QED BY <1>1, <1>2 DEF AcquireOpens

LEMMA LockKeeps ==
  ASSUME LifeInv, NEW p \in Procs, AcquireLocks(p)
  PROVE  LifeInv'
<1>1. CASE Gone(p) BY <1>1, GoneKeeps
<1>2. CASE pc[p] = "flock" /\ Goto(p, "truncate") /\ Flock(p) /\ UNCHANGED runVars
  <2> USE <1>2, LockAssumption
      DEF LifeInv, Flock, Goto, dirVars, runVars, LifeType, LockAssumption
  <2>1. fd[p] \in Files BY DEF LockFollows, Files
  <2>2. LifeType' BY <2>1 DEF Steps, Acquiring
  <2>3. OneFile' BY DEF OneFile
  <2>4. LockFollows'
    BY <2>1 DEF LockFollows, Holds, Files, Starting, Serving
  <2>5. PidFollows' BY DEF PidFollows, Starting, Serving
  <2>6. KeysFollow' BY DEF KeysFollow
  <2>7. QED BY <2>2, <2>3, <2>4, <2>5, <2>6
<1>3. QED BY <1>1, <1>2 DEF AcquireLocks

(* Only the holder writes, so that no other holder's pid is touched.        *)
LEMMA WriteKeeps ==
  ASSUME LifeInv, NEW p \in Procs, AcquireWrites(p)
  PROVE  LifeInv'
<1>1. CASE Gone(p) BY <1>1, GoneKeeps
<1>2. CASE /\ \/ pc[p] = "truncate" /\ Goto(p, "pid") /\ Truncate(p)
              \/ pc[p] = "pid" /\ Goto(p, "sync") /\ WritePid(p)
              \/ pc[p] = "sync" /\ Goto(p, "deps") /\ UNCHANGED lockVars
           /\ UNCHANGED runVars
  <2> USE <1>2, LockAssumption
      DEF LifeInv, Truncate, WritePid, Goto, dirVars, lockVars, runVars, LockAssumption
  <2>1. Holds(p) BY DEF LockFollows
  <2>2. fd[p] \in Files BY <2>1 DEF Holds, LifeType, Files
  <2>3. LifeType' BY <2>2 DEF LifeType, Steps, Acquiring, Starting
  <2>4. OneFile' BY DEF OneFile
  <2>5. LockFollows'
    BY DEF LockFollows, Holds, Starting, Serving, LifeType
  <2>6. PidFollows'
    <3>1. \A q \in Procs : q # p /\ Holds(q) => FALSE
      BY <2>1 DEF OneFile, Holds
    <3>2. \A q \in Procs : q # p => pc'[q] = pc[q] BY DEF LifeType
    <3>3. \A q \in Procs :
            q # p /\ pc'[q] \in {"sync"} \cup Starting \cup Serving => FALSE
      BY <3>1, <3>2 DEF LockFollows
    <3>4. pc'[p] \in {"sync"} \cup Starting \cup Serving => pidIn'[fd'[p]] = p
      BY <2>2 DEF PidFollows, LifeType, Starting, Serving
    <3>5. QED BY <3>3, <3>4 DEF PidFollows
  <2>7. KeysFollow' BY DEF KeysFollow, LifeType
  <2>8. QED BY <2>3, <2>4, <2>5, <2>6, <2>7
<1>3. QED BY <1>1, <1>2 DEF AcquireWrites

(* The deferred Release.                                                    *)
LEMMA ReleaseKeeps ==
  ASSUME LifeInv, NEW p \in Procs, Release(p)
  PROVE  LifeInv'
<1> USE LockAssumption DEF LifeInv, LifeType, LockAssumption
<1>1. /\ flock' = [f \in Files |-> IF flock[f] = p THEN nobody ELSE flock[f]]
      /\ fd' = [fd EXCEPT ![p] = 0]
      /\ UNCHANGED <<path, files, pidIn, pc, keys, watch>> /\ pc[p] = "release"
  BY Zenon DEF Release, Unlock, dirVars, runVars
<1>2. LifeType' /\ OneFile' BY <1>1 DEF OneFile
<1>3. LockFollows'
  BY <1>1 DEF LockFollows, Holds, Starting, Serving, Files
<1>4. PidFollows' BY <1>1 DEF PidFollows, Starting, Serving
<1>5. KeysFollow' BY <1>1 DEF KeysFollow
<1>6. QED BY <1>2, <1>3, <1>4, <1>5

(* A step of the main goroutine outside the lock.                           *)
LEMMA MoveKeeps ==
  ASSUME LifeInv, NEW p \in Procs, NEW to \in Steps \ Acquiring,
         UNCHANGED <<path, files, fd, flock, pidIn, keys, watch>>,
         pc' = [pc EXCEPT ![p] = to],
         to \in Starting \cup Serving => pc[p] \in Starting \cup Serving,
         keys[p] = "on" => to \in {"window", "loop", "returned"},
         watch[p] # "off" => to \in {"window", "loop", "returned", "release"}
  PROVE  LifeInv'
<1> USE DEF LifeInv, LifeType
<1>1. LifeType' /\ OneFile' BY DEF OneFile
<1>2. LockFollows' BY DEF LockFollows, Holds, Acquiring
<1>3. PidFollows' BY DEF PidFollows, Acquiring
<1>4. KeysFollow' BY DEF KeysFollow
<1>5. QED BY <1>1, <1>2, <1>3, <1>4

LEMMA StartKeeps ==
  ASSUME LifeInv, ~InTemp, NEW p \in Procs,
         \/ Launch(p) \/ ReadConfig(p) \/ PrepareRuntime(p) \/ CheckDeps(p)
         \/ Sweep(p) \/ PrepareModel(p) \/ Wire(p)
  PROVE  LifeInv'
<1>1. CASE Gone(p) BY <1>1, GoneKeeps
<1>2. CASE ~Gone(p)
  <2>1. UNCHANGED <<path, files, fd, flock, pidIn, keys, watch>>
    BY <1>2, Zenon
    DEF Launch, ReadConfig, PrepareRuntime, EnsureRuntimeDir, CheckDeps, Sweep, CleanOrphanDirs,
        PrepareModel, Wire, lockVars, runVars
  <2>2. PICK to : /\ pc' = [pc EXCEPT ![p] = to]
                  /\ \/ pc[p] \in {"off", "config", "runtime"}
                        /\ to \in {"config", "runtime", "lock"}
                     \/ pc[p] \in Starting
                        /\ to \in {"sweep", "model", "wire", "serve", "release"}
    <3>1. CASE Launch(p) BY <3>1 DEF Launch, Goto
    <3>2. CASE ReadConfig(p) BY <1>2, <3>2 DEF ReadConfig, Goto
    <3>3. CASE PrepareRuntime(p) BY <1>2, <3>3 DEF PrepareRuntime, Goto
    <3>4. CASE CheckDeps(p) BY <3>4 DEF CheckDeps, Goto, Starting
    <3>5. CASE Sweep(p) BY <3>5 DEF Sweep, Goto, Starting
    <3>6. CASE PrepareModel(p) BY <3>6 DEF PrepareModel, Goto, Starting
    <3>7. CASE Wire(p) BY <3>7 DEF Wire, Goto, Starting
    <3>8. QED BY <3>1, <3>2, <3>3, <3>4, <3>5, <3>6, <3>7
  <2>3. to \in Steps \ Acquiring /\ (to \in Starting \cup Serving => pc[p] \in Starting \cup Serving)
    BY <2>2 DEF Steps, Acquiring, Starting, Serving
  <2>4. keys[p] # "on" /\ watch[p] = "off"
    BY <2>2 DEF LifeInv, KeysFollow, Starting
  <2>5. QED BY <2>1, <2>2, <2>3, <2>4, MoveKeeps
<1>3. QED BY <1>1, <1>2

LEMMA WindowKeeps ==
  ASSUME LifeInv, NEW p \in Procs,
         WindowRuns(p) \/ LoopEnds(p) \/ LoopGivesUp(p) \/ ServeReturns(p)
  PROVE  LifeInv'
<1>1. UNCHANGED <<path, files, fd, flock, pidIn, keys, watch>>
  BY Zenon DEF WindowRuns, LoopEnds, LoopGivesUp, ServeReturns, lockVars, runVars
<1>2. PICK to : /\ pc' = [pc EXCEPT ![p] = to]
                /\ \/ pc[p] \in {"window", "loop"} /\ to \in {"loop", "returned"}
                   \/ pc[p] = "returned" /\ to = "release" /\ watch[p] = "done"
  <2>1. CASE WindowRuns(p) BY <2>1 DEF WindowRuns, Goto
  <2>2. CASE LoopEnds(p) BY <2>2 DEF LoopEnds, Goto
  <2>3. CASE LoopGivesUp(p) BY <2>3 DEF LoopGivesUp, Goto
  <2>4. CASE ServeReturns(p) BY <2>4 DEF ServeReturns, Goto
  <2>5. QED BY <2>1, <2>2, <2>3, <2>4
<1>3. to \in Steps \ Acquiring /\ (to \in Starting \cup Serving => pc[p] \in Starting \cup Serving)
  BY <1>2 DEF Steps, Acquiring, Starting, Serving
<1>4. keys[p] = "on" => to \in {"window", "loop", "returned"}
  BY <1>2 DEF LifeInv, KeysFollow
<1>5. QED BY <1>1, <1>2, <1>3, <1>4, MoveKeeps

(* READY: the hotkey and the shutdown goroutine are there.                  *)
LEMMA ServeKeeps ==
  ASSUME LifeInv, NEW p \in Procs, Serve(p)
  PROVE  LifeInv'
<1> USE DEF LifeInv, LifeType
<1>1. /\ UNCHANGED <<path, files, fd, flock, pidIn>>
      /\ pc[p] = "serve" /\ pc' = [pc EXCEPT ![p] = "window"]
      /\ keys' = [keys EXCEPT ![p] = "on"] /\ watch' = [watch EXCEPT ![p] = "waiting"]
  BY Zenon DEF Serve, Goto, lockVars
<1>2. LifeType' /\ OneFile' BY <1>1 DEF OneFile, Steps, Serving, WatchSteps
<1>3. LockFollows' BY <1>1 DEF LockFollows, Holds, Starting, Serving
<1>4. PidFollows' BY <1>1 DEF PidFollows, Starting, Serving
<1>5. KeysFollow' BY <1>1 DEF KeysFollow
<1>6. QED BY <1>2, <1>3, <1>4, <1>5

(* The shutdown goroutine.                                                  *)
LEMMA WatcherKeeps ==
  ASSUME LifeInv, NEW p \in Procs, Watcher(p)
  PROVE  LifeInv'
<1> USE DEF LifeInv, LifeType
<1>1. UNCHANGED <<path, files, fd, flock, pidIn, pc>>
  BY Zenon
  DEF Watcher, ShutdownBegins, ShutdownApplies, ShutdownCancels, ShutdownCloses, StopWindow, lockVars
<1>2. PICK to \in WatchSteps :
        /\ watch[p] # "off" /\ watch' = [watch EXCEPT ![p] = to]
        /\ \/ keys' = keys /\ to \notin {"stopwindow", "done"}
           \/ keys' = keys /\ watch[p] = "stopwindow"
           \/ keys' = [keys EXCEPT ![p] = "stopped"]
  <2>1. CASE ShutdownBegins(p) BY <2>1 DEF ShutdownBegins, Watch, WatchSteps
  <2>2. CASE ShutdownApplies(p) BY <2>2 DEF ShutdownApplies, Watch, WatchSteps
  <2>3. CASE ShutdownCancels(p) BY <2>3 DEF ShutdownCancels, Watch, WatchSteps
  <2>4. CASE ShutdownCloses(p) BY <2>4 DEF ShutdownCloses, Watch, WatchSteps
  <2>5. CASE StopWindow(p) BY <2>5 DEF StopWindow, Watch, WatchSteps
  <2>6. QED BY <2>1, <2>2, <2>3, <2>4, <2>5 DEF Watcher
<1>3. LifeType' /\ OneFile' BY <1>1, <1>2 DEF OneFile
<1>4. LockFollows' BY <1>1 DEF LockFollows, Holds
<1>5. PidFollows' BY <1>1 DEF PidFollows
<1>6. KeysFollow' BY <1>1, <1>2 DEF KeysFollow
<1>7. QED BY <1>3, <1>4, <1>5, <1>6

(* What the daemon shows does not touch any of it.                          *)
LEMMA DeskKeeps ==
  ASSUME LifeInv, NEW p \in Procs, NEW d, Desk(p, d)
  PROVE  LifeInv'
BY LifeUntouched DEF Desk, lifeVars, procVars

-----------------------------------------------------------------------------
LEMMA StepLife == ~InTemp /\ LifeInv /\ [Next]_vars => LifeInv'
<1> SUFFICES ASSUME ~InTemp, LifeInv, [Next]_vars PROVE LifeInv' OBVIOUS
<1>1. CASE UNCHANGED vars
  BY <1>1, LifeUntouched DEF vars, lifeVars, procVars, lockVars
<1>2. ASSUME NEW p \in Procs, Crash(p) PROVE LifeInv'
  BY <1>2, GoneKeeps DEF Crash
<1>3. ASSUME NEW p \in Procs, Terminate(p) PROVE LifeInv'
  <2>1. CASE Gone(p) BY <2>1, <1>3, GoneKeeps
  <2>2. CASE UNCHANGED pc /\ UNCHANGED lockVars /\ UNCHANGED runVars
    BY <2>2, LifeUntouched DEF lifeVars, procVars, runVars
  <2>3. QED BY <1>3, <2>1, <2>2 DEF Terminate
<1>4. ASSUME NEW p \in Procs, Main(p) PROVE LifeInv'
  <2>1. CASE Exit(p) BY <1>4, <2>1, GoneKeeps DEF Exit
  <2>2. CASE AcquireOpens(p) BY <1>4, <2>2, OpenKeeps
  <2>3. CASE AcquireLocks(p) BY <1>4, <2>3, LockKeeps
  <2>4. CASE AcquireWrites(p) BY <1>4, <2>4, WriteKeeps
  <2>5. CASE Release(p) BY <1>4, <2>5, ReleaseKeeps
  <2>6. CASE Serve(p) BY <1>4, <2>6, ServeKeeps
  <2>7. QED
    BY <1>4, <2>1, <2>2, <2>3, <2>4, <2>5, <2>6, StartKeeps, WindowKeeps DEF Main, Start
<1>5. ASSUME NEW p \in Procs, Listener(p) PROVE LifeInv'
  BY <1>5, DeskKeeps DEF Listener, ListenerTells, ListenerSends
<1>6. ASSUME NEW p \in Procs, NEW n, NEW event, Change(p, n, event) PROVE LifeInv'
  BY <1>6, DeskKeeps DEF Change
<1>7. ASSUME NEW p \in Procs, TrayRelays(p) \/ TrayDraws(p) PROVE LifeInv'
  BY <1>7, DeskKeeps DEF TrayRelays, TrayDraws
<1>8. CASE Next
  BY <1>2, <1>3, <1>4, <1>5, <1>6, <1>7, <1>8, StartKeeps, WindowKeeps, WatcherKeeps DEF Next
<1>9. QED BY <1>1, <1>8

(* Outside InTemp the lock is sound, through crashes and restarts.          *)
THEOREM LockIsSound == ASSUME ~InTemp PROVE Spec => []LifeInv
<1>1. LifeInv /\ [Next]_vars => LifeInv' BY StepLife
<1>2. QED BY InitLife, <1>1, PTL DEF Spec

(* At most one daemon listens to the keyboard: who listens holds the one    *)
(* lock (bootstrap.go:32-33, lock_linux.go:49).                             *)
THEOREM OneListens == ASSUME ~InTemp PROVE Spec => []OneDaemonListens
<1>1. LifeInv => OneDaemonListens
  <2> SUFFICES ASSUME LifeInv, NEW p \in Procs, NEW q \in Procs, keys[p] = "on", keys[q] = "on"
               PROVE  p = q
    BY DEF OneDaemonListens
  <2>1. Holds(p) /\ Holds(q)
    BY DEF LifeInv, KeysFollow, LockFollows, Serving
  <2>2. QED BY <2>1, HoldersAgree
<1>2. QED BY LockIsSound, <1>1, PTL

(* An invocation that loses the race leaves the winner's pid in the file    *)
(* (lock_linux.go:63-84).                                                   *)
THEOREM PidNamesHolder == ASSUME ~InTemp PROVE Spec => []PidFileNamesHolder
<1>1. LifeInv => PidFileNamesHolder
  BY DEF LifeInv, LockFollows, PidFollows, PidFileNamesHolder
<1>2. QED BY LockIsSound, <1>1, PTL

-----------------------------------------------------------------------------
(* What the factories say and what the dependency check said before.        *)

(* The search along PATH finds a candidate that is installed, if any is.    *)
LEMMA FirstOfOne ==
  ASSUME NEW box, NEW a
  PROVE  FirstInstalled(box, <<a>>) \in {"none", a}
<1> DEFINE found == {i \in DOMAIN <<a>> : Has(box, <<a>>[i])}
<1>1. found \subseteq {1}
  OBVIOUS
<1>2. CASE found = {}
  BY <1>2 DEF FirstInstalled
<1>3. CASE found = {1}
  <2>1. Min(found) = 1
    BY <1>3 DEF Min
  <2>2. QED
    BY <1>3, <2>1 DEF FirstInstalled
<1>4. QED
  BY <1>1, <1>2, <1>3

LEMMA FirstOfTwo ==
  ASSUME NEW box, NEW a, NEW b
  PROVE  FirstInstalled(box, <<a, b>>) \in {"none", a, b}
<1> DEFINE found == {i \in DOMAIN <<a, b>> : Has(box, <<a, b>>[i])}
<1>1. found \subseteq 1..2
  OBVIOUS
<1>2. CASE found = {}
  BY <1>2 DEF FirstInstalled
<1>3. CASE found # {}
  <2>1. Min(found) \in found
    <3>1. \E m \in found : \A i \in found : m =< i
      BY <1>1, <1>3
    <3>2. QED
      BY <3>1 DEF Min
  <2>2. QED
    BY <1>1, <1>3, <2>1 DEF FirstInstalled
<1>4. QED
  BY <1>2, <1>3

LEMMA FirstOfThree ==
  ASSUME NEW box, NEW a, NEW b, NEW c
  PROVE  FirstInstalled(box, <<a, b, c>>) \in {"none", a, b, c}
<1> DEFINE found == {i \in DOMAIN <<a, b, c>> : Has(box, <<a, b, c>>[i])}
<1>1. found \subseteq 1..3
  OBVIOUS
<1>2. CASE found = {}
  BY <1>2 DEF FirstInstalled
<1>3. CASE found # {}
  <2>1. Min(found) \in found
    <3>1. \E m \in found : \A i \in found : m =< i
      BY <1>1, <1>3
    <3>2. QED
      BY <3>1 DEF Min
  <2>2. QED
    BY <1>1, <1>3, <2>1 DEF FirstInstalled
<1>4. QED
  BY <1>2, <1>3

(* The recorder of the factory is the one the check looked for.             *)
LEMMA RecorderForeseen ==
  ASSUME NEW cfg, NEW box, BuildRecorder(box) = "none"
  PROVE  FatalMissing(cfg, box) # {}
<1> DEFINE d == Dep("capture", FALSE, FALSE)
<1>1. d \in CaptureDeps(box)
  BY DEF CaptureDeps, BuildRecorder
<1>2. d \in BuildDeps(cfg, box)
  BY <1>1 DEF BuildDeps
<1>3. d \in Missing(cfg, box) /\ ~d.optional
  BY <1>2 DEF Missing, Dep
<1>4. QED
  BY <1>3 DEF FatalMissing

(* The output is refused for one reason: a tool that is not of the session. *)
LEMMA RefusalForeseen ==
  ASSUME NEW cfg, NEW box, cfg.mode \in Modes, cfg.paste \in PasteCommands,
         BuildOutput(cfg, box).to = "refused"
  PROVE  cfg.paste \in {"wtype", "ydotool"} /\ ~box.wayland
<1> DEFINE clip == SessionClipboard(box)
           paste == SessionAutopaster(cfg.paste, box)
<1>1. clip \in {"none", "wl-copy", "xclip"}
  BY FirstOfTwo DEF SessionClipboard, InSessionOrder
<1>2. Sink(clip).to = clip /\ Sink("stdout").to = "stdout" /\ Sink("log").to = "log"
  BY DEF Sink
<1>3. AutopasteOutput(cfg, box, clip).to = "refused"
  BY <1>1, <1>2 DEF BuildOutput
<1>4. paste = "unsupported"
  BY <1>1, <1>2, <1>3 DEF AutopasteOutput
<1>5. WaylandAutopaster(cfg.paste, box) \in {"none", "wtype", "ydotool", "xdotool", cfg.paste}
  BY FirstOfOne, FirstOfThree DEF WaylandAutopaster
<1>6. FirstInstalled(box, <<"xdotool">>) \in {"none", "xdotool"}
  BY FirstOfOne
<1>7. WaylandAutopaster(cfg.paste, box) # "unsupported" /\ cfg.paste # "unsupported"
  BY <1>5 DEF PasteCommands
<1>8. cfg.paste # "uinput" /\ ~box.wayland
  BY <1>4, <1>7 DEF SessionAutopaster
<1>9. X11Autopaster(cfg.paste, box) = "unsupported"
  BY <1>4, <1>7, <1>8 DEF SessionAutopaster
<1>10. cfg.paste \notin {"auto", "xdotool"}
  BY <1>6, <1>9 DEF X11Autopaster
<1>11. QED
  BY <1>8, <1>10 DEF PasteCommands

LEMMA BuildForeseen ==
  ASSUME NEW s \in Setups
  PROVE  \/ FailedBuild(s.cfg, s.box) = "none"
         \/ FatalMissing(s.cfg, s.box) # {}
         \/ FailedBuild(s.cfg, s.box) = "hotkey" /\ ~s.cfg.keyKnown
         \/ /\ FailedBuild(s.cfg, s.box) = "output"
            /\ s.cfg.paste \in {"wtype", "ydotool"} /\ ~s.box.wayland
<1>1. s.cfg.mode \in Modes /\ s.cfg.paste \in PasteCommands
  BY ConfigsAssumption DEF Setups, ConfigsAssumption
<1>2. CASE BuildRecorder(s.box) = "none"
  BY <1>2, RecorderForeseen
<1>3. CASE BuildRecorder(s.box) # "none" /\ BuildOutput(s.cfg, s.box).to = "refused"
  <2>1. s.cfg.paste \in {"wtype", "ydotool"} /\ ~s.box.wayland
    BY <1>1, <1>3, RefusalForeseen
  <2>2. FailedBuild(s.cfg, s.box) = "output"
    BY <1>3 DEF FailedBuild
  <2>3. QED
    BY <2>1, <2>2
<1>4. CASE BuildRecorder(s.box) # "none" /\ BuildOutput(s.cfg, s.box).to # "refused"
  BY <1>4 DEF FailedBuild, BuildHotkey
<1>5. QED
  BY <1>2, <1>3, <1>4

(* Only a factory that failed leaves a set-up behind, and the factory is    *)
(* the one that fails for it.                                               *)
SetupInv ==
  /\ setup \in [Procs -> SUBSET Setups]
  /\ failed \in [Procs -> {"none", "recorder", "output", "hotkey"}]
  /\ \A p \in Procs, s \in Setups : s \in setup[p] => failed[p] = FailedBuild(s.cfg, s.box)

LEMMA InitSetup == Init => SetupInv
  BY DEF Init, SetupInv

LEMMA WireKeeps ==
  ASSUME SetupInv, NEW p \in Procs, Wire(p)
  PROVE  SetupInv'
<1>1. PICK s \in Setups :
        LET f == FailedBuild(s.cfg, s.box)
        IN /\ failed' = [failed EXCEPT ![p] = f]
           /\ setup' = [setup EXCEPT ![p] = IF f = "none" THEN {} ELSE {s}]
  BY DEF Wire
<1> DEFINE f == FailedBuild(s.cfg, s.box)
<1>2. f \in {"none", "recorder", "output", "hotkey"}
  BY DEF FailedBuild
<1>3. failed' = [failed EXCEPT ![p] = f] /\ setup' = [setup EXCEPT ![p] = IF f = "none" THEN {} ELSE {s}]
  BY <1>1
<1> HIDE DEF f
<1>4. setup' \in [Procs -> SUBSET Setups] /\ failed' \in [Procs -> {"none", "recorder", "output", "hotkey"}]
  BY <1>2, <1>3 DEF SetupInv
<1>5. \A q \in Procs, t \in Setups : t \in setup'[q] => failed'[q] = FailedBuild(t.cfg, t.box)
  BY <1>2, <1>3 DEF SetupInv, f
<1>6. QED
  BY <1>4, <1>5 DEF SetupInv

LEMMA StepSetup == SetupInv /\ [Next]_vars => SetupInv'
<1> SUFFICES ASSUME SetupInv, [Next]_vars PROVE SetupInv' OBVIOUS
<1>1. ASSUME NEW p \in Procs, Gone(p) PROVE SetupInv'
  BY <1>1 DEF SetupInv, Gone
<1>2. ASSUME UNCHANGED <<setup, failed>> PROVE SetupInv'
  BY <1>2 DEF SetupInv
<1> USE DEF runVars
<1>3. ASSUME NEW p \in Procs, Start(p) PROVE SetupInv'
  <2>1. \/ Gone(p) \/ Wire(p) \/ UNCHANGED <<setup, failed>>
    BY <1>3, Zenon
    DEF Start, ReadConfig, PrepareRuntime, AcquireOpens, AcquireLocks, AcquireWrites,
        CheckDeps, Sweep, PrepareModel
  <2>2. QED
    BY <1>1, <1>2, <2>1, WireKeeps
<1>4. ASSUME NEW p \in Procs, Main(p), ~Start(p) PROVE SetupInv'
  <2>1. Gone(p) \/ UNCHANGED <<setup, failed>>
    BY <1>4, Zenon DEF Main, Serve, WindowRuns, LoopEnds, ServeReturns, Release, Exit
  <2>2. QED
    BY <1>1, <1>2, <2>1
<1>5. ASSUME NEW p \in Procs, Watcher(p) PROVE SetupInv'
  BY <1>2, <1>5, Zenon
  DEF Watcher, ShutdownBegins, ShutdownApplies, ShutdownCancels, ShutdownCloses, StopWindow
<1>6. ASSUME NEW p \in Procs, Listener(p) \/ TrayRelays(p) \/ TrayDraws(p) PROVE SetupInv'
  BY <1>2, <1>6, Zenon DEF Listener, ListenerTells, ListenerSends, TrayRelays, TrayDraws, Desk
<1>7. ASSUME NEW p \in Procs, NEW n, NEW event, Change(p, n, event) PROVE SetupInv'
  BY <1>2, <1>7, Zenon DEF Change, Desk
<1>8. ASSUME NEW p \in Procs, Launch(p) \/ Crash(p) \/ Terminate(p) \/ LoopGivesUp(p)
      PROVE  SetupInv'
  <2>1. Gone(p) \/ UNCHANGED <<setup, failed>>
    BY <1>8, Zenon DEF Launch, Crash, Terminate, LoopGivesUp
  <2>2. QED
    BY <1>1, <1>2, <2>1
<1>9. CASE UNCHANGED vars
  BY <1>2, <1>9 DEF vars
<1>10. QED
  BY <1>3, <1>4, <1>5, <1>6, <1>7, <1>8, <1>9 DEF Next

(* Whatever the machine and the configuration: a start that ends for want   *)
(* of something was announced by the dependency check, but for the two      *)
(* refusals the property names (bootstrap.go:218-234, probes.go:74-120).    *)
THEOREM RefusalsForeseen == Spec => []DepcheckForesees
<1>1. SetupInv => DepcheckForesees
  <2> SUFFICES ASSUME SetupInv, NEW p \in Procs, failed[p] # "none", NEW s \in setup[p]
               PROVE  \/ FatalMissing(s.cfg, s.box) # {}
                      \/ failed[p] = "hotkey" /\ ~s.cfg.keyKnown
                      \/ /\ failed[p] = "output" /\ s.cfg.paste \in {"wtype", "ydotool"}
                         /\ ~s.box.wayland
    BY DEF DepcheckForesees
  <2>1. s \in Setups /\ failed[p] = FailedBuild(s.cfg, s.box)
    BY DEF SetupInv
  <2>2. QED
    BY <2>1, BuildForeseen
<1>2. SetupInv /\ [Next]_vars => SetupInv'
  BY StepSetup
<1>3. QED
  BY InitSetup, <1>1, <1>2, PTL DEF Spec

-----------------------------------------------------------------------------
(* What a desk shows on the way from one burst of changes to the next.      *)

Desks == [machine : States, status : States, icon : States, calls : SUBSET Calls,
          notifyCh : Seq(States), stateIn : Seq(States), burst : SUBSET States]

(* Whatever is on its way belongs to the burst, and so does what is shown   *)
(* once nothing is on its way to replace it.  The first state of a burst    *)
(* meets empty channels: a full one drops none but later ones.              *)
Shows(d) ==
  /\ d \in Desks
  /\ \A c \in d.calls : c.st \in d.burst
  /\ d.notifyCh \in Seq(d.burst) /\ d.stateIn \in Seq(d.burst)
  /\ d.status \in d.burst \/ \E c \in d.calls : c.step = "status"
  /\ d.icon \in d.burst \/ ~Quiet(d)

(* A goroutine is bound to shut the daemon down exactly while one serves.   *)
DeskInv ==
  /\ pc \in [Procs -> Steps] /\ watch \in [Procs -> WatchSteps]
  /\ DOMAIN desk = Procs /\ desk = [p \in Procs |-> desk[p]]
  /\ \A p \in Procs :
       /\ watch[p] = "off" => desk[p] = NewDesk /\ ~Alive(p)
       /\ watch[p] # "off" => Alive(p) \/ pc[p] = "release"
       /\ watch[p] = "waiting" => Shows(desk[p])

(* A channel that takes a state or drops it.                                *)
LEMMA OfferKeeps ==
  ASSUME NEW S, NEW ch \in Seq(S), NEW s \in S
  PROVE  Offer(ch, s) \in Seq(S) /\ Offer(ch, s) # <<>>
<1>1. Append(ch, s) \in Seq(S) /\ Append(ch, s) # <<>>
  BY AppendProperties
<1>2. ~(Len(ch) < Buffer) => ch # <<>>
  BY BufferAssumption, EmptySeq DEF BufferAssumption
<1>3. QED
  BY <1>1, <1>2 DEF Offer

LEMMA NewShows == Shows(NewDesk)
<1>1. <<>> \in Seq(States) /\ <<>> \in Seq({"idle"})
  BY EmptySeq
<1>2. QED
  BY <1>1 DEF Shows, NewDesk, Desks, States

LEMMA AppliedShows ==
  ASSUME NEW d, Shows(d), NEW n \in Notifiers, NEW s \in States
  PROVE  Shows(Applied(d, n, s))
<1> DEFINE c == [by |-> n, st |-> s, step |-> "status"]
           burst == IF Quiet(d) THEN {s} ELSE d.burst \cup {s}
           e == Applied(d, n, s)
<1>1. c \in Calls /\ c.st = s /\ c.step = "status"
  BY DEF Calls
<1>2. /\ e.machine = s /\ e.status = d.status /\ e.icon = d.icon
      /\ e.calls = d.calls \cup {c} /\ e.notifyCh = d.notifyCh /\ e.stateIn = d.stateIn
      /\ e.burst = burst
  BY DEF Shows, Desks, Applied
<1>3. s \in burst /\ burst \subseteq States
  BY DEF Shows, Desks
<1>4. d.notifyCh \in Seq(burst) /\ d.stateIn \in Seq(burst)
  <2>1. CASE Quiet(d)
    BY <2>1, EmptySeq DEF Quiet
  <2>2. CASE ~Quiet(d)
    BY <2>2, SeqMonotonic DEF Shows
  <2>3. QED
    BY <2>1, <2>2
<1>5. \A k \in e.calls : k.st \in burst
  BY <1>1, <1>2 DEF Shows, Quiet
<1>6. e \in Desks
  BY <1>1, <1>3 DEF Shows, Desks, Applied
<1>7. c \in e.calls /\ ~Quiet(e)
  BY <1>2 DEF Quiet
<1>8. \E k \in e.calls : k.step = "status"
  BY <1>1, <1>7
<1> HIDE DEF c, e
<1>9. Shows(e)
  BY <1>2, <1>4, <1>5, <1>6, <1>7, <1>8 DEF Shows
<1>10. QED
  BY <1>9 DEF e

LEMMA ToldShows ==
  ASSUME NEW d, Shows(d), NEW c \in d.calls
  PROVE  Shows(TellSystemd(d, c))
<1> DEFINE k == [c EXCEPT !.step = "send"]
           e == TellSystemd(d, c)
<1>1. c \in Calls /\ k \in Calls /\ k.st = c.st /\ c.st \in d.burst
  BY DEF Shows, Desks, Calls
<1>2. /\ e.status = c.st /\ e.icon = d.icon /\ e.burst = d.burst
      /\ e.calls = (d.calls \ {c}) \cup {k}
      /\ e.notifyCh = d.notifyCh /\ e.stateIn = d.stateIn
  BY DEF Shows, Desks, TellSystemd
<1>3. e \in Desks
  <2>1. c.st \in States
    BY <1>1 DEF Calls
  <2>2. (d.calls \ {c}) \cup {k} \in SUBSET Calls
    BY <1>1 DEF Shows, Desks
  <2>3. QED
    BY <2>1, <2>2 DEF Shows, Desks, TellSystemd
<1>4. \A i \in e.calls : i.st \in e.burst
  BY <1>1, <1>2 DEF Shows
<1>5. ~Quiet(e)
  BY <1>2 DEF Quiet
<1> HIDE DEF e, k
<1>6. Shows(e)
  BY <1>1, <1>2, <1>3, <1>4, <1>5 DEF Shows
<1>7. QED
  BY <1>6 DEF e

LEMMA SentShows ==
  ASSUME NEW d, Shows(d), NEW c \in d.calls, c.step = "send"
  PROVE  Shows(SendToTray(d, c))
<1> DEFINE ch == Offer(d.notifyCh, c.st)
           e == SendToTray(d, c)
<1>1. c.st \in d.burst /\ d.burst \subseteq States
  BY DEF Shows, Desks
<1>2. ch \in Seq(d.burst) /\ ch # <<>>
  BY <1>1, OfferKeeps DEF Shows
<1>3. ch \in Seq(States)
  BY <1>1, <1>2, SeqMonotonic
<1>4. /\ e.status = d.status /\ e.icon = d.icon /\ e.burst = d.burst
      /\ e.calls = d.calls \ {c} /\ e.notifyCh = ch /\ e.stateIn = d.stateIn
  BY DEF Shows, Desks, SendToTray
<1>5. e \in Desks
  BY <1>3 DEF Shows, Desks, SendToTray
<1>6. ~Quiet(e)
  BY <1>2, <1>4 DEF Quiet
<1>7. d.status \in d.burst \/ \E i \in e.calls : i.step = "status"
  BY <1>4 DEF Shows
<1> HIDE DEF e, ch
<1>8. Shows(e)
  BY <1>2, <1>4, <1>5, <1>6, <1>7 DEF Shows
<1>9. QED
  BY <1>8 DEF e

LEMMA RelayedShows ==
  ASSUME NEW d, Shows(d), d.notifyCh # <<>>
  PROVE  Shows(RelayState(d))
<1> DEFINE rest == Tail(d.notifyCh)
           ch == Offer(d.stateIn, Head(d.notifyCh))
           e == RelayState(d)
<1>1. d.burst \subseteq States
  BY DEF Shows, Desks
<1>2. Head(d.notifyCh) \in d.burst /\ rest \in Seq(d.burst)
  BY HeadTailProperties DEF Shows
<1>3. ch \in Seq(d.burst) /\ ch # <<>>
  BY <1>2, OfferKeeps DEF Shows
<1>4. ch \in Seq(States) /\ rest \in Seq(States)
  BY <1>1, <1>2, <1>3, SeqMonotonic
<1>5. /\ e.status = d.status /\ e.icon = d.icon /\ e.burst = d.burst
      /\ e.calls = d.calls /\ e.notifyCh = rest /\ e.stateIn = ch
  BY DEF Shows, Desks, RelayState
<1>6. e \in Desks
  BY <1>4 DEF Shows, Desks, RelayState
<1>7. ~Quiet(e)
  BY <1>3, <1>5 DEF Quiet
<1> HIDE DEF e, ch, rest
<1>8. Shows(e)
  BY <1>2, <1>3, <1>5, <1>6, <1>7 DEF Shows
<1>9. QED
  BY <1>8 DEF e

LEMMA DrawnShows ==
  ASSUME NEW d, Shows(d), d.stateIn # <<>>
  PROVE  Shows(ApplyState(d))
<1> DEFINE rest == Tail(d.stateIn)
           e == ApplyState(d)
<1>1. d.burst \subseteq States
  BY DEF Shows, Desks
<1>2. Head(d.stateIn) \in d.burst /\ rest \in Seq(d.burst)
  BY HeadTailProperties DEF Shows
<1>3. rest \in Seq(States) /\ Head(d.stateIn) \in States
  BY <1>1, <1>2, SeqMonotonic
<1>4. /\ e.status = d.status /\ e.icon = Head(d.stateIn) /\ e.burst = d.burst
      /\ e.calls = d.calls /\ e.notifyCh = d.notifyCh /\ e.stateIn = rest
  BY DEF Shows, Desks, ApplyState
<1>5. e \in Desks
  BY <1>3 DEF Shows, Desks, ApplyState
<1> HIDE DEF e, rest
<1>6. Shows(e)
  BY <1>2, <1>4, <1>5 DEF Shows
<1>7. QED
  BY <1>6 DEF e

(* One desk changes and the goroutines stay where they are.                 *)
LEMMA DeskMoves ==
  ASSUME DeskInv, NEW p \in Procs, NEW d, Desk(p, d),
         watch[p] = "waiting" => Shows(d)
  PROVE  DeskInv'
<1>1. /\ desk' = [desk EXCEPT ![p] = d] /\ UNCHANGED <<pc, watch>> /\ Alive(p)
  BY DEF Desk
<1>2. DOMAIN desk' = Procs /\ desk' = [q \in Procs |-> desk'[q]]
  BY <1>1 DEF DeskInv
<1>3. desk'[p] = d /\ \A q \in Procs : q # p => desk'[q] = desk[q]
  BY <1>1 DEF DeskInv
<1>4. watch[p] # "off"
  BY <1>1 DEF DeskInv
<1>5. ASSUME NEW q \in Procs
      PROVE  /\ watch'[q] = "off" => desk'[q] = NewDesk /\ ~Alive(q)'
             /\ watch'[q] # "off" => Alive(q)' \/ pc'[q] = "release"
             /\ watch'[q] = "waiting" => Shows(desk'[q])
  BY <1>1, <1>3, <1>4 DEF DeskInv, Alive
<1>6. QED
  BY <1>1, <1>2, <1>5 DEF DeskInv

(* The main goroutine and the shutdown goroutine, which leave what the desk *)
(* of a daemon that nobody told to stop shows.                              *)
LEMMA OthersMove ==
  ASSUME DeskInv, NEW p \in Procs, NEW d, NEW to \in Steps, NEW next \in WatchSteps,
         pc' = [pc EXCEPT ![p] = to], watch' = [watch EXCEPT ![p] = next],
         desk' = [desk EXCEPT ![p] = d],
         next = "off" => d = NewDesk /\ to \notin {"window", "loop", "returned"},
         next # "off" => to \in {"window", "loop", "returned", "release"},
         next = "waiting" => Shows(d)
  PROVE  DeskInv'
<1>1. pc' \in [Procs -> Steps] /\ watch' \in [Procs -> WatchSteps]
  BY DEF DeskInv
<1>2. DOMAIN desk' = Procs /\ desk' = [q \in Procs |-> desk'[q]]
  BY DEF DeskInv
<1>3. desk'[p] = d /\ pc'[p] = to /\ watch'[p] = next
  BY DEF DeskInv
<1>4. \A q \in Procs : q # p => desk'[q] = desk[q] /\ pc'[q] = pc[q] /\ watch'[q] = watch[q]
  BY DEF DeskInv
<1>5. ASSUME NEW q \in Procs
      PROVE  /\ watch'[q] = "off" => desk'[q] = NewDesk /\ ~Alive(q)'
             /\ watch'[q] # "off" => Alive(q)' \/ pc'[q] = "release"
             /\ watch'[q] = "waiting" => Shows(desk'[q])
  BY <1>3, <1>4 DEF DeskInv, Alive
<1>6. QED
  BY <1>1, <1>2, <1>5 DEF DeskInv

LEMMA TransitionStays ==
  ASSUME NEW s \in States, NEW event \in Events
  PROVE  Transition(s, event).state \in States
<1> USE DEF States, Events, Accept, Busy, Transition
<1>1. CASE s \in {"idle", "error"}
  <2>1. Table[s] = FromRest
    BY <1>1 DEF Table
  <2>2. QED
    BY <1>1, <2>1 DEF FromRest
<1>2. CASE s = "recording"
  <2>1. Table[s] = FromRecording
    BY <1>2 DEF Table
  <2>2. QED
    BY <1>2, <2>1 DEF FromRecording
<1>3. CASE s = "transcribing"
  <2>1. Table[s] = FromTranscribing
    BY <1>3 DEF Table
  <2>2. QED
    BY <1>3, <2>1 DEF FromTranscribing
<1>4. CASE s = "delivering"
  <2>1. Table[s] = FromDelivering
    BY <1>4 DEF Table
  <2>2. QED
    BY <1>4, <2>1 DEF FromDelivering
<1>5. CASE s = "shutting_down"
  <2>1. Table[s] = FromShuttingDown
    BY <1>5 DEF Table
  <2>2. QED
    BY <1>5, <2>1 DEF FromShuttingDown
<1>6. QED
  BY <1>1, <1>2, <1>3, <1>4, <1>5

LEMMA InitDesk == Init => DeskInv
  BY DEF Init, DeskInv, Steps, WatchSteps, Alive

LEMMA MainDesk ==
  ASSUME DeskInv, NEW p \in Procs,
         \/ Launch(p) \/ Crash(p) \/ Terminate(p) \/ LoopGivesUp(p) \/ Main(p)
  PROVE  DeskInv'
<1>0. /\ desk = [q \in Procs |-> desk[q]] /\ DOMAIN desk = Procs
      /\ watch \in [Procs -> WatchSteps] /\ pc \in [Procs -> Steps]
      /\ watch[p] = "off" => desk[p] = NewDesk /\ ~Alive(p)
      /\ watch[p] # "off" => Alive(p) \/ pc[p] = "release"
      /\ watch[p] = "waiting" => Shows(desk[p])
  BY DEF DeskInv
<1>1. CASE Gone(p)
  <2>1. /\ pc' = [pc EXCEPT ![p] = "exited"] /\ watch' = [watch EXCEPT ![p] = "off"]
        /\ desk' = [desk EXCEPT ![p] = NewDesk]
    BY <1>1 DEF Gone, Goto
  <2>2. "exited" \in Steps /\ "off" \in WatchSteps
    BY DEF Steps, WatchSteps
  <2>3. QED
    BY <2>1, <2>2, OthersMove
<1>2. CASE Serve(p)
  <2>1. /\ pc' = [pc EXCEPT ![p] = "window"] /\ watch' = [watch EXCEPT ![p] = "waiting"]
        /\ desk' = [desk EXCEPT ![p] = desk[p]] /\ pc[p] = "serve"
    BY <1>0, <1>2 DEF Serve, Goto
  <2>2. "window" \in Steps /\ "waiting" \in WatchSteps
    BY DEF Steps, Serving, WatchSteps
  <2>3. Shows(desk[p])
    BY <1>0, <2>1, NewShows DEF Alive
  <2>4. QED
    BY <2>1, <2>2, <2>3, OthersMove
<1>3. CASE ServeReturns(p)
  <2>1. /\ pc' = [pc EXCEPT ![p] = "release"] /\ watch' = [watch EXCEPT ![p] = "done"]
        /\ desk' = [desk EXCEPT ![p] = NewDesk]
    BY <1>0, <1>3 DEF ServeReturns, Goto
  <2>2. "release" \in Steps /\ "done" \in WatchSteps
    BY DEF Steps, WatchSteps
  <2>3. QED
    BY <2>1, <2>2, OthersMove
<1>4. CASE UNCHANGED <<pc, watch, desk>>
  BY <1>4 DEF DeskInv, Alive
<1>5. CASE /\ UNCHANGED <<watch, desk>>
           /\ \E to \in Steps : /\ pc' = [pc EXCEPT ![p] = to]
                                /\ to \in {"window", "loop", "returned"} <=> Alive(p)
                                /\ pc[p] # "release"
  <2>1. PICK to \in Steps : /\ pc' = [pc EXCEPT ![p] = to]
                            /\ to \in {"window", "loop", "returned"} <=> Alive(p)
                            /\ pc[p] # "release"
    BY <1>5
  <2>2. /\ watch' = [watch EXCEPT ![p] = watch[p]] /\ desk' = [desk EXCEPT ![p] = desk[p]]
        /\ watch[p] \in WatchSteps
    BY <1>0, <1>5
  <2>3. QED
    BY <1>0, <2>1, <2>2, OthersMove DEF Alive
<1>6. ASSUME ~Gone(p), ~Serve(p), ~ServeReturns(p), ~UNCHANGED <<pc, watch, desk>>
      PROVE  /\ UNCHANGED <<watch, desk>>
             /\ \E to \in Steps : /\ pc' = [pc EXCEPT ![p] = to]
                                  /\ to \in {"window", "loop", "returned"} <=> Alive(p)
                                  /\ pc[p] # "release"
  <2>1. UNCHANGED <<watch, desk>>
    BY <1>6, Zenon
    DEF Launch, Crash, Terminate, LoopGivesUp, Main, Start, ReadConfig, PrepareRuntime,
        AcquireOpens, AcquireLocks, AcquireWrites, CheckDeps, Sweep, PrepareModel, Wire,
        WindowRuns, LoopEnds, Release, Exit, runVars
  <2> USE DEF Goto, Alive, Steps, Acquiring, Starting, Serving
  <2>2. CASE Launch(p) \/ Crash(p) \/ Terminate(p) \/ LoopGivesUp(p)
    BY <1>6, <2>1, <2>2 DEF Launch, Crash, Terminate, LoopGivesUp
  <2>3. CASE ReadConfig(p) \/ PrepareRuntime(p) \/ AcquireOpens(p) \/ AcquireLocks(p)
    BY <1>6, <2>1, <2>3 DEF ReadConfig, PrepareRuntime, AcquireOpens, AcquireLocks
  <2>4. CASE AcquireWrites(p) \/ CheckDeps(p) \/ Sweep(p) \/ PrepareModel(p)
    BY <1>6, <2>1, <2>4 DEF AcquireWrites, CheckDeps, Sweep, PrepareModel
  <2>5. CASE Wire(p)
    <3>1. PICK to \in {"serve", "release"} : pc' = [pc EXCEPT ![p] = to] /\ pc[p] = "wire"
      BY <2>5 DEF Wire
    <3>2. QED
      BY <2>1, <3>1
  <2>6. CASE WindowRuns(p) \/ LoopEnds(p) \/ Release(p) \/ Exit(p)
    BY <1>6, <2>1, <2>6 DEF WindowRuns, LoopEnds, Release, Exit
  <2>7. QED
    BY <1>6, <2>2, <2>3, <2>4, <2>5, <2>6 DEF Main, Start
<1>7. QED
  BY <1>1, <1>2, <1>3, <1>4, <1>5, <1>6

LEMMA WatcherDesk ==
  ASSUME DeskInv, NEW p \in Procs, Watcher(p)
  PROVE  DeskInv'
<1>0. /\ desk = [q \in Procs |-> desk[q]] /\ DOMAIN desk = Procs
      /\ watch \in [Procs -> WatchSteps] /\ pc \in [Procs -> Steps]
      /\ watch[p] # "off" => Alive(p) \/ pc[p] = "release"
  BY DEF DeskInv
<1>1. PICK next \in WatchSteps \ {"off", "waiting"} :
        watch[p] # "off" /\ watch' = [watch EXCEPT ![p] = next]
  <2> USE DEF Watch, WatchSteps
  <2>1. CASE ShutdownBegins(p) BY <2>1 DEF ShutdownBegins
  <2>2. CASE ShutdownApplies(p) BY <2>2 DEF ShutdownApplies
  <2>3. CASE ShutdownCancels(p) BY <2>3 DEF ShutdownCancels
  <2>4. CASE ShutdownCloses(p) BY <2>4 DEF ShutdownCloses
  <2>5. CASE StopWindow(p) BY <2>5 DEF StopWindow
  <2>6. QED BY <2>1, <2>2, <2>3, <2>4, <2>5 DEF Watcher
<1>2. PICK d : desk' = [desk EXCEPT ![p] = d]
  <2>1. CASE desk' = desk
    <3>1. desk = [desk EXCEPT ![p] = desk[p]]
      BY <1>0
    <3>2. QED
      BY <2>1, <3>1
  <2>2. CASE desk' # desk
    BY <2>2, Zenon
    DEF Watcher, ShutdownBegins, ShutdownApplies, ShutdownCancels, ShutdownCloses, StopWindow
  <2>3. QED
    BY <2>1, <2>2
<1>3. pc' = [pc EXCEPT ![p] = pc[p]] /\ pc[p] \in {"window", "loop", "returned", "release"}
  <2>1. pc' = pc
    BY Zenon
    DEF Watcher, ShutdownBegins, ShutdownApplies, ShutdownCancels, ShutdownCloses, StopWindow
  <2>2. QED
    BY <1>0, <1>1, <2>1 DEF Alive
<1>4. pc[p] \in Steps
  BY <1>0
<1>5. QED
  BY <1>1, <1>2, <1>3, <1>4, OthersMove

LEMMA StepDesk == DeskInv /\ [Next]_vars => DeskInv'
<1> SUFFICES ASSUME DeskInv, [Next]_vars PROVE DeskInv' OBVIOUS
<1>0. \A p \in Procs : watch[p] = "waiting" => Shows(desk[p])
  BY DEF DeskInv
<1>1. ASSUME NEW p \in Procs, Listener(p) PROVE DeskInv'
  <2>1. PICK c \in desk[p].calls : ListenerTells(p, c) \/ ListenerSends(p, c)
    BY <1>1 DEF Listener
  <2>2. CASE ListenerTells(p, c)
    BY <1>0, <2>2, ToldShows, DeskMoves DEF ListenerTells
  <2>3. CASE ListenerSends(p, c)
    BY <1>0, <2>3, SentShows, DeskMoves DEF ListenerSends
  <2>4. QED
    BY <2>1, <2>2, <2>3
<1>2. ASSUME NEW p \in Procs, NEW n \in {"caller", "cycle"}, NEW event \in EventsOf(n),
             Change(p, n, event)
      PROVE  DeskInv'
  <2> DEFINE s == Transition(desk[p].machine, event).state
  <2>1. Desk(p, Applied(desk[p], n, s))
    BY <1>2 DEF Change
  <2>2. event \in Events /\ n \in Notifiers
    BY DEF EventsOf, Events, Notifiers
  <2>3. ASSUME Shows(desk[p]) PROVE Shows(Applied(desk[p], n, s))
    <3>1. s \in States
      BY <2>2, <2>3, TransitionStays DEF Shows, Desks
    <3> HIDE DEF s
    <3>2. QED
      BY <2>2, <2>3, <3>1, AppliedShows
  <2> HIDE DEF s
  <2>4. QED
    BY <1>0, <2>1, <2>3, DeskMoves
<1>3. ASSUME NEW p \in Procs, TrayRelays(p) PROVE DeskInv'
  BY <1>0, <1>3, RelayedShows, DeskMoves DEF TrayRelays
<1>4. ASSUME NEW p \in Procs, TrayDraws(p) PROVE DeskInv'
  BY <1>0, <1>4, DrawnShows, DeskMoves DEF TrayDraws
<1>5. CASE UNCHANGED vars
  BY <1>5 DEF vars, DeskInv, Alive
<1>6. CASE Next
  <2>1. PICK p \in Procs :
          \/ Launch(p) \/ Crash(p) \/ Terminate(p) \/ LoopGivesUp(p)
          \/ Main(p) \/ Watcher(p) \/ Listener(p)
          \/ \E n \in {"caller", "cycle"} : \E event \in EventsOf(n) : Change(p, n, event)
          \/ TrayRelays(p) \/ TrayDraws(p)
    BY <1>6, Zenon DEF Next
  <2>2. QED
    BY <1>1, <1>2, <1>3, <1>4, <2>1, MainDesk, WatcherDesk
<1>7. QED
  BY <1>5, <1>6

(* However many changes come in whatever order the listeners tell them, and *)
(* whatever a channel of any capacity drops: once nothing is on its way,    *)
(* the status line and the icon show states of the last burst               *)
(* (daemon.go:734-747, tray.go:117-124).                                    *)
THEOREM ShownIsRecent == Spec => []ShownIsFromLastBurst
<1>1. DeskInv => ShownIsFromLastBurst
  <2> SUFFICES ASSUME DeskInv, NEW p \in Procs, watch[p] = "waiting", Quiet(desk[p])
               PROVE  {desk[p].status, desk[p].icon} \subseteq desk[p].burst
    BY DEF ShownIsFromLastBurst
  <2>1. Shows(desk[p])
    BY DEF DeskInv
  <2>2. desk[p].status \in desk[p].burst /\ desk[p].icon \in desk[p].burst
    BY <2>1 DEF Shows, Quiet
  <2>3. QED
    BY <2>2
<1>2. DeskInv /\ [Next]_vars => DeskInv'
  BY StepDesk
<1>3. QED
  BY InitDesk, <1>1, <1>2, PTL DEF Spec

-----------------------------------------------------------------------------
(* The whole of the types, a swept runtime directory included; what a desk  *)
(* has on its way fits into the channels.                                   *)
SizedDesks == {d \in Desks : Len(d.notifyCh) <= Buffer /\ Len(d.stateIn) <= Buffer}

RunType ==
  /\ pc \in [Procs -> Steps]
  /\ ctx \in [Procs -> {"unset", "live", "done"}]
  /\ keys \in [Procs -> {"off", "on", "stopped"}]
  /\ watch \in [Procs -> WatchSteps]
  /\ quit \in [Procs -> BOOLEAN]
  /\ changes \in 0..MaxTransitions

DesksType == desk \in [Procs -> SizedDesks]

LEMMA OfferFits ==
  ASSUME NEW ch \in Seq(States), Len(ch) <= Buffer, NEW s \in States
  PROVE  Offer(ch, s) \in Seq(States) /\ Len(Offer(ch, s)) <= Buffer
<1>1. CASE Len(ch) < Buffer
  <2>1. Append(ch, s) \in Seq(States) /\ Len(Append(ch, s)) = Len(ch) + 1 /\ Len(ch) \in Nat
    BY AppendProperties, LenProperties
  <2>2. QED
    BY <1>1, <2>1, BufferAssumption DEF Offer, BufferAssumption
<1>2. CASE ~(Len(ch) < Buffer)
  BY <1>2 DEF Offer
<1>3. QED
  BY <1>1, <1>2

LEMMA TailFits ==
  ASSUME NEW ch \in Seq(States), Len(ch) <= Buffer, ch # <<>>
  PROVE  Head(ch) \in States /\ Tail(ch) \in Seq(States) /\ Len(Tail(ch)) <= Buffer
<1>1. Head(ch) \in States /\ Tail(ch) \in Seq(States) /\ Len(Tail(ch)) = Len(ch) - 1
      /\ Len(ch) \in Nat
  BY HeadTailProperties, LenProperties
<1>2. QED
  BY <1>1, BufferAssumption DEF BufferAssumption

LEMMA NewFits == NewDesk \in SizedDesks
<1>1. <<>> \in Seq(States) /\ Len(<<>>) = 0
  BY EmptySeq
<1>2. QED
  BY <1>1, BufferAssumption DEF SizedDesks, NewDesk, Desks, States, BufferAssumption

LEMMA AppliedFits ==
  ASSUME NEW d \in SizedDesks, NEW n \in Notifiers, NEW s \in States
  PROVE  Applied(d, n, s) \in SizedDesks
<1>1. [by |-> n, st |-> s, step |-> "status"] \in Calls
  BY DEF Calls
<1>2. QED
  BY <1>1 DEF SizedDesks, Desks, Applied

LEMMA ToldFits ==
  ASSUME NEW d \in SizedDesks, NEW c \in d.calls
  PROVE  TellSystemd(d, c) \in SizedDesks
<1>1. c \in Calls /\ d.calls \subseteq Calls
  BY DEF SizedDesks, Desks
<1>2. c.st \in States /\ [c EXCEPT !.step = "send"] \in Calls
  BY <1>1 DEF Calls
<1>3. (d.calls \ {c}) \cup {[c EXCEPT !.step = "send"]} \in SUBSET Calls
  BY <1>1, <1>2
<1>4. QED
  BY <1>2, <1>3 DEF SizedDesks, Desks, TellSystemd

LEMMA SentFits ==
  ASSUME NEW d \in SizedDesks, NEW c \in d.calls
  PROVE  SendToTray(d, c) \in SizedDesks
<1> DEFINE ch == Offer(d.notifyCh, c.st)
<1>1. c \in Calls /\ d.notifyCh \in Seq(States) /\ Len(d.notifyCh) <= Buffer
  BY DEF SizedDesks, Desks
<1>2. ch \in Seq(States) /\ Len(ch) <= Buffer
  BY <1>1, OfferFits DEF Calls
<1>3. SendToTray(d, c) = [d EXCEPT !.calls = @ \ {c}, !.notifyCh = ch]
  BY DEF SizedDesks, Desks, SendToTray
<1> HIDE DEF ch
<1>4. QED
  BY <1>2, <1>3 DEF SizedDesks, Desks

LEMMA RelayedFits ==
  ASSUME NEW d \in SizedDesks, d.notifyCh # <<>>
  PROVE  RelayState(d) \in SizedDesks
<1> DEFINE rest == Tail(d.notifyCh)
           ch == Offer(d.stateIn, Head(d.notifyCh))
<1>1. /\ d.notifyCh \in Seq(States) /\ Len(d.notifyCh) <= Buffer
      /\ d.stateIn \in Seq(States) /\ Len(d.stateIn) <= Buffer
  BY DEF SizedDesks, Desks
<1>2. Head(d.notifyCh) \in States /\ rest \in Seq(States) /\ Len(rest) <= Buffer
  BY <1>1, TailFits
<1>3. ch \in Seq(States) /\ Len(ch) <= Buffer
  BY <1>1, <1>2, OfferFits
<1>4. RelayState(d) = [d EXCEPT !.notifyCh = rest, !.stateIn = ch]
  BY DEF SizedDesks, Desks, RelayState
<1> HIDE DEF ch, rest
<1>5. QED
  BY <1>2, <1>3, <1>4 DEF SizedDesks, Desks

LEMMA DrawnFits ==
  ASSUME NEW d \in SizedDesks, d.stateIn # <<>>
  PROVE  ApplyState(d) \in SizedDesks
<1> DEFINE rest == Tail(d.stateIn)
           shown == Head(d.stateIn)
<1>1. d.stateIn \in Seq(States) /\ Len(d.stateIn) <= Buffer
  BY DEF SizedDesks, Desks
<1>2. shown \in States /\ rest \in Seq(States) /\ Len(rest) <= Buffer
  BY <1>1, TailFits
<1>3. ApplyState(d) = [d EXCEPT !.stateIn = rest, !.icon = shown]
  BY DEF SizedDesks, Desks, ApplyState
<1> HIDE DEF rest, shown
<1>4. QED
  BY <1>2, <1>3 DEF SizedDesks, Desks

LEMMA TypeParts == LockType /\ RunType /\ SetupInv /\ DesksType => TypeOK
<1> SUFFICES ASSUME LockType, RunType, SetupInv, DesksType PROVE TypeOK
  OBVIOUS
<1>1. ASSUME NEW p \in Procs PROVE DeskType(desk[p])
  BY DEF DesksType, SizedDesks, Desks, DeskType
<1>2. QED
  BY <1>1 DEF RunType, SetupInv, TypeOK

LEMMA InitTypes == Init => LockType /\ RunType /\ DesksType
<1> SUFFICES ASSUME Init PROVE LockType /\ RunType /\ DesksType
  OBVIOUS
<1>1. LockType
  <2>1. dir \in BOOLEAN
    BY DEF Init, LockInit
  <2>2. /\ path \in 0..MaxFiles /\ files \in 0..MaxFiles
        /\ fd \in [Procs -> 0..MaxFiles]
    BY LockAssumption DEF LockAssumption, Init, LockInit
  <2>3. flock \in [Files -> Procs \cup {nobody}] /\ pidIn \in [Files -> Procs \cup {nobody}]
    BY DEF Init, LockInit
  <2>4. QED
    BY <2>1, <2>2, <2>3 DEF LockType
<1>2. RunType
  BY TransitionsAssumption DEF TransitionsAssumption, Init, RunType, Steps, WatchSteps
<1>3. DesksType
  BY NewFits DEF Init, DesksType
<1>4. QED
  BY <1>1, <1>2, <1>3

(* The lock file's types need nothing else, swept or not.                   *)
LEMMA StepLock == LockType /\ [Next]_vars => LockType'
<1> SUFFICES ASSUME LockType, [Next]_vars PROVE LockType' OBVIOUS
<1>1. CASE UNCHANGED lockVars
  BY <1>1 DEF LockType, lockVars
<1>2. ASSUME NEW p \in Procs, Unlock(p) PROVE LockType'
  BY <1>2, LockAssumption DEF LockAssumption, LockType, Unlock, dirVars
<1>3. CASE EnsureRuntimeDir \/ CleanOrphanDirs
  <2>1. UNCHANGED <<files, fd, flock, pidIn>>
    BY <1>3 DEF EnsureRuntimeDir, CleanOrphanDirs
  <2>2. dir' \in BOOLEAN
    BY <1>3 DEF LockType, EnsureRuntimeDir, CleanOrphanDirs
  <2>3. path' = path \/ path' = 0
    BY <1>3 DEF EnsureRuntimeDir, CleanOrphanDirs
  <2>4. path' \in 0..MaxFiles
    BY <2>3, LockAssumption DEF LockAssumption, LockType
  <2>5. QED
    BY <2>1, <2>2, <2>4 DEF LockType
<1>4. ASSUME NEW p \in Procs, OpenLock(p) PROVE LockType'
  <2>1. UNCHANGED <<dir, flock, pidIn>>
    BY <1>4 DEF OpenLock, dirVars
  <2>2. path \in 0..MaxFiles /\ files \in 0..MaxFiles /\ MaxFiles \in Nat
    BY LockAssumption DEF LockAssumption, LockType
  <2>3. CASE fd' = [fd EXCEPT ![p] = path] /\ UNCHANGED <<path, files>>
    BY <2>1, <2>3 DEF LockType
  <2>4. CASE /\ files < MaxFiles /\ files' = files + 1 /\ path' = files + 1
             /\ fd' = [fd EXCEPT ![p] = files + 1]
    <3>1. files + 1 \in 0..MaxFiles
      BY <2>2, <2>4
    <3>2. QED
      BY <2>1, <2>4, <3>1 DEF LockType
  <2>5. QED
    BY <1>4, <2>3, <2>4 DEF OpenLock, dirVars
<1>5. ASSUME NEW p \in Procs, Flock(p) \/ Truncate(p) \/ WritePid(p) PROVE LockType'
  BY <1>5 DEF LockType, Flock, Truncate, WritePid, dirVars
<1>6. ASSUME NEW p \in Procs, Start(p) PROVE LockType'
  <2>1. \/ UNCHANGED lockVars \/ Unlock(p) \/ EnsureRuntimeDir \/ CleanOrphanDirs
        \/ OpenLock(p) \/ Flock(p) \/ Truncate(p) \/ WritePid(p)
    BY <1>6, Zenon
    DEF Start, ReadConfig, PrepareRuntime, AcquireOpens, AcquireLocks, AcquireWrites,
        CheckDeps, Sweep, PrepareModel, Wire, Gone
  <2>2. QED
    BY <1>1, <1>2, <1>3, <1>4, <1>5, <2>1
<1>7. ASSUME NEW p \in Procs, Main(p), ~Start(p) PROVE LockType'
  <2>1. UNCHANGED lockVars \/ Unlock(p)
    BY <1>7, Zenon DEF Main, Serve, WindowRuns, LoopEnds, ServeReturns, Release, Exit, Gone
  <2>2. QED
    BY <1>1, <1>2, <2>1
<1>8. ASSUME NEW p \in Procs, Launch(p) \/ Crash(p) \/ Terminate(p) \/ LoopGivesUp(p)
      PROVE  LockType'
  <2>1. UNCHANGED lockVars \/ Unlock(p)
    BY <1>8, Zenon DEF Launch, Crash, Terminate, LoopGivesUp, Gone
  <2>2. QED
    BY <1>1, <1>2, <2>1
<1>9. ASSUME NEW p \in Procs, Watcher(p) PROVE LockType'
  BY <1>1, <1>9, Zenon
  DEF Watcher, ShutdownBegins, ShutdownApplies, ShutdownCancels, ShutdownCloses, StopWindow
<1>10. ASSUME NEW p \in Procs, Listener(p) \/ TrayRelays(p) \/ TrayDraws(p) PROVE LockType'
  BY <1>1, <1>10, Zenon DEF Listener, ListenerTells, ListenerSends, TrayRelays, TrayDraws, Desk
<1>11. ASSUME NEW p \in Procs, NEW n, NEW event, Change(p, n, event) PROVE LockType'
  BY <1>1, <1>11, Zenon DEF Change, Desk
<1>12. CASE UNCHANGED vars
  BY <1>1, <1>12 DEF vars, lockVars
<1>13. QED
  BY <1>6, <1>7, <1>8, <1>9, <1>10, <1>11, <1>12 DEF Next

(* The desk of a daemon changes by one of StateNotify's steps, or is new.   *)
LEMMA StepDesks == DesksType /\ [Next]_vars => DesksType'
<1> SUFFICES ASSUME DesksType, [Next]_vars PROVE DesksType' OBVIOUS
<1>1. CASE UNCHANGED desk
  BY <1>1 DEF DesksType
<1>2. ASSUME NEW p \in Procs, NEW d \in SizedDesks, desk' = [desk EXCEPT ![p] = d]
      PROVE  DesksType'
  BY <1>2 DEF DesksType
<1>3. ASSUME NEW p \in Procs, Gone(p) PROVE DesksType'
  BY <1>2, <1>3, NewFits DEF Gone
<1> USE DEF runVars
<1>4. ASSUME NEW p \in Procs, Start(p) PROVE DesksType'
  <2>1. Gone(p) \/ UNCHANGED desk
    BY <1>4, Zenon
    DEF Start, ReadConfig, PrepareRuntime, AcquireOpens, AcquireLocks, AcquireWrites,
        CheckDeps, Sweep, PrepareModel, Wire
  <2>2. QED
    BY <1>1, <1>3, <2>1
<1>5. ASSUME NEW p \in Procs, Main(p), ~Start(p) PROVE DesksType'
  <2>1. CASE ServeReturns(p)
    BY <1>2, <2>1, NewFits DEF ServeReturns
  <2>2. CASE ~ServeReturns(p)
    <3>1. Gone(p) \/ UNCHANGED desk
      BY <1>5, <2>2, Zenon DEF Main, Serve, WindowRuns, LoopEnds, Release, Exit
    <3>2. QED
      BY <1>1, <1>3, <3>1
  <2>3. QED
    BY <2>1, <2>2
<1>6. ASSUME NEW p \in Procs, Launch(p) \/ Crash(p) \/ Terminate(p) \/ LoopGivesUp(p)
      PROVE  DesksType'
  <2>1. Gone(p) \/ UNCHANGED desk
    BY <1>6, Zenon DEF Launch, Crash, Terminate, LoopGivesUp
  <2>2. QED
    BY <1>1, <1>3, <2>1
<1>7. ASSUME NEW p \in Procs, Watcher(p) PROVE DesksType'
  <2>1. desk[p] \in SizedDesks
    BY DEF DesksType
  <2>2. CASE ShutdownBegins(p)
    <3>1. desk' = [desk EXCEPT ![p] = TellStopping(desk[p])]
      BY <2>2 DEF ShutdownBegins
    <3>2. TellStopping(desk[p]) \in SizedDesks
      BY <2>1 DEF TellStopping, SizedDesks, Desks, States
    <3>3. QED
      BY <1>2, <3>1, <3>2
  <2>3. CASE ShutdownApplies(p)
    <3>1. desk' = [desk EXCEPT ![p] = Applied(desk[p], "shutdown", "shutting_down")]
      BY <2>3 DEF ShutdownApplies
    <3>2. Applied(desk[p], "shutdown", "shutting_down") \in SizedDesks
      BY <2>1, AppliedFits DEF Notifiers, States
    <3>3. QED
      BY <1>2, <3>1, <3>2
  <2>4. CASE ShutdownCancels(p) \/ ShutdownCloses(p) \/ StopWindow(p)
    BY <1>1, <2>4, Zenon DEF ShutdownCancels, ShutdownCloses, StopWindow
  <2>5. QED
    BY <1>7, <2>2, <2>3, <2>4 DEF Watcher
<1>8. ASSUME NEW p \in Procs, Listener(p) PROVE DesksType'
  <2>1. PICK c \in desk[p].calls : ListenerTells(p, c) \/ ListenerSends(p, c)
    BY <1>8 DEF Listener
  <2>2. /\ desk[p] \in SizedDesks /\ TellSystemd(desk[p], c) \in SizedDesks
        /\ SendToTray(desk[p], c) \in SizedDesks
    BY ToldFits, SentFits DEF DesksType
  <2>3. QED
    BY <1>2, <2>1, <2>2 DEF ListenerTells, ListenerSends, Desk
<1>9. ASSUME NEW p \in Procs, TrayRelays(p) \/ TrayDraws(p) PROVE DesksType'
  <2>1. desk[p] \in SizedDesks
    BY DEF DesksType
  <2>2. CASE TrayRelays(p)
    BY <1>2, <2>1, <2>2, RelayedFits DEF TrayRelays, Desk
  <2>3. CASE TrayDraws(p)
    BY <1>2, <2>1, <2>3, DrawnFits DEF TrayDraws, Desk
  <2>4. QED
    BY <1>9, <2>2, <2>3
<1>10. ASSUME NEW p \in Procs, NEW n \in {"caller", "cycle"}, NEW event \in EventsOf(n),
              Change(p, n, event)
       PROVE  DesksType'
  <2> DEFINE s == Transition(desk[p].machine, event).state
  <2>1. desk[p] \in SizedDesks /\ desk[p].machine \in States
    BY DEF DesksType, SizedDesks, Desks
  <2>2. event \in Events /\ n \in Notifiers
    BY DEF EventsOf, Events, Notifiers
  <2>3. s \in States
    BY <2>1, <2>2, TransitionStays
  <2>4. desk' = [desk EXCEPT ![p] = Applied(desk[p], n, s)]
    BY <1>10 DEF Change, Desk
  <2> HIDE DEF s
  <2>5. QED
    BY <1>2, <2>1, <2>2, <2>3, <2>4, AppliedFits
<1>11. CASE UNCHANGED vars
  BY <1>1, <1>11 DEF vars
<1>12. QED
  BY <1>4, <1>5, <1>6, <1>7, <1>8, <1>9, <1>10, <1>11 DEF Next

(* Where the goroutines are, the signal context and the hotkey.             *)
LEMMA StepRun == RunType /\ [Next]_vars => RunType'
<1> SUFFICES ASSUME RunType, [Next]_vars PROVE RunType' OBVIOUS
<1>1. ASSUME NEW p \in Procs, NEW to \in Steps, pc' = [pc EXCEPT ![p] = to],
             UNCHANGED <<ctx, keys, watch, quit, changes>>
      PROVE  RunType'
  BY <1>1 DEF RunType
<1>2. ASSUME NEW p \in Procs, Gone(p) PROVE RunType'
  BY <1>2 DEF RunType, Gone, Goto, Steps, WatchSteps
<1>3. CASE UNCHANGED <<pc, ctx, keys, watch, quit, changes>>
  BY <1>3 DEF RunType
<1> USE DEF runVars
<1>4. ASSUME NEW p \in Procs, Launch(p) \/ (Start(p) /\ ~ReadConfig(p)), ~Gone(p) PROVE RunType'
  <2>1. UNCHANGED <<ctx, keys, watch, quit, changes>>
    BY <1>4, Zenon
    DEF Start, Launch, PrepareRuntime, AcquireOpens, AcquireLocks, AcquireWrites,
        CheckDeps, Sweep, PrepareModel, Wire
  <2>2. PICK to \in Steps : pc' = [pc EXCEPT ![p] = to]
    <3> USE DEF Steps, Acquiring, Starting, Serving, Goto
    <3>1. CASE Launch(p) \/ PrepareRuntime(p) \/ AcquireOpens(p) \/ AcquireLocks(p)
      BY <1>4, <3>1 DEF Launch, PrepareRuntime, AcquireOpens, AcquireLocks
    <3>2. CASE AcquireWrites(p) \/ CheckDeps(p) \/ Sweep(p) \/ PrepareModel(p)
      BY <1>4, <3>2 DEF AcquireWrites, CheckDeps, Sweep, PrepareModel
    <3>3. CASE Wire(p)
      BY <3>3 DEF Wire
    <3>4. QED
      BY <1>4, <3>1, <3>2, <3>3 DEF Start
  <2>3. QED
    BY <1>1, <2>1, <2>2
<1>5. ASSUME NEW p \in Procs, ReadConfig(p), ~Gone(p) PROVE RunType'
  <2>1. /\ pc' = [pc EXCEPT ![p] = "runtime"] /\ ctx' = [ctx EXCEPT ![p] = "live"]
        /\ UNCHANGED <<keys, watch, quit, changes>>
    BY <1>5 DEF ReadConfig, Goto
  <2>2. QED
    BY <2>1 DEF RunType, Steps
<1>6. ASSUME NEW p \in Procs, Terminate(p), ~Gone(p) PROVE RunType'
  BY <1>6 DEF Terminate, RunType
<1>7. ASSUME NEW p \in Procs, WindowRuns(p) \/ LoopEnds(p) \/ LoopGivesUp(p) \/ ServeReturns(p)
      PROVE  RunType'
  <2>1. UNCHANGED <<ctx, keys, watch, quit, changes>>
    BY <1>7, Zenon DEF WindowRuns, LoopEnds, LoopGivesUp, ServeReturns
  <2>2. PICK to \in Steps : pc' = [pc EXCEPT ![p] = to]
    BY <1>7 DEF WindowRuns, LoopEnds, LoopGivesUp, ServeReturns, Goto, Steps, Serving
  <2>3. QED
    BY <1>1, <2>1, <2>2
<1>8. ASSUME NEW p \in Procs, Serve(p) PROVE RunType'
  <2>1. /\ pc' = [pc EXCEPT ![p] = "window"] /\ keys' = [keys EXCEPT ![p] = "on"]
        /\ watch' = [watch EXCEPT ![p] = "waiting"] /\ UNCHANGED <<ctx, quit, changes>>
    BY <1>8 DEF Serve, Goto
  <2>2. QED
    BY <2>1 DEF RunType, Steps, Serving, WatchSteps
<1>9. ASSUME NEW p \in Procs, Main(p) PROVE RunType'
  <2>1. CASE Release(p)
    BY <1>3, <2>1, Zenon DEF Release
  <2>2. QED
    BY <1>2, <1>4, <1>5, <1>7, <1>8, <1>9, <2>1 DEF Main, Exit
<1>10. ASSUME NEW p \in Procs, Watcher(p) PROVE RunType'
  <2>1. UNCHANGED <<pc, ctx, changes>>
    BY <1>10, Zenon
    DEF Watcher, ShutdownBegins, ShutdownApplies, ShutdownCancels, ShutdownCloses, StopWindow
  <2>2. PICK to \in WatchSteps : watch' = [watch EXCEPT ![p] = to]
    BY <1>10
    DEF Watcher, ShutdownBegins, ShutdownApplies, ShutdownCancels, ShutdownCloses, StopWindow,
        Watch, WatchSteps
  <2>3. keys' = keys \/ keys' = [keys EXCEPT ![p] = "stopped"]
    BY <1>10, Zenon
    DEF Watcher, ShutdownBegins, ShutdownApplies, ShutdownCancels, ShutdownCloses, StopWindow
  <2>4. quit' = quit \/ quit' = [quit EXCEPT ![p] = (pc[p] = "loop")]
    BY <1>10, Zenon
    DEF Watcher, ShutdownBegins, ShutdownApplies, ShutdownCancels, ShutdownCloses, StopWindow
  <2>5. quit' \in [Procs -> BOOLEAN]
    BY <2>4 DEF RunType
  <2>6. keys' \in [Procs -> {"off", "on", "stopped"}] /\ watch' \in [Procs -> WatchSteps]
    BY <2>2, <2>3 DEF RunType
  <2>7. QED
    BY <2>1, <2>5, <2>6 DEF RunType
<1>11. ASSUME NEW p \in Procs, Listener(p) \/ TrayRelays(p) \/ TrayDraws(p) PROVE RunType'
  BY <1>3, <1>11, Zenon DEF Listener, ListenerTells, ListenerSends, TrayRelays, TrayDraws, Desk
<1>12. ASSUME NEW p \in Procs, NEW n, NEW event, Change(p, n, event) PROVE RunType'
  <2>1. UNCHANGED <<pc, ctx, keys, watch, quit>>
    BY <1>12, Zenon DEF Change, Desk
  <2>2. changes < MaxTransitions /\ changes' = changes + 1
    BY <1>12 DEF Change
  <2>3. changes' \in 0..MaxTransitions
    BY <2>2, TransitionsAssumption DEF TransitionsAssumption, RunType
  <2>4. QED
    BY <2>1, <2>3 DEF RunType
<1>13. CASE UNCHANGED vars
  BY <1>3, <1>13 DEF vars
<1>14. ASSUME NEW p \in Procs, Launch(p) \/ Crash(p) \/ Terminate(p) \/ LoopGivesUp(p)
       PROVE  RunType'
  BY <1>2, <1>4, <1>6, <1>7, <1>14, Zenon DEF Crash
<1>15. QED
  BY <1>9, <1>10, <1>11, <1>12, <1>13, <1>14 DEF Next

(* Every variable keeps its type, through crashes and restarts and whether  *)
(* or not the runtime directory is swept; no channel to the tray ever holds *)
(* more than it takes (daemon.go:734-747, tray.go:117-124).                 *)
THEOREM TypeCorrect == Spec => []TypeOK
<1>1. Init => LockType /\ RunType /\ SetupInv /\ DesksType
  BY InitTypes, InitSetup
<1>2. LockType /\ RunType /\ SetupInv /\ DesksType /\ [Next]_vars
        => (LockType /\ RunType /\ SetupInv /\ DesksType)'
  BY StepLock, StepRun, StepSetup, StepDesks
<1>3. QED
  BY <1>1, <1>2, TypeParts, PTL DEF Spec
=============================================================================
