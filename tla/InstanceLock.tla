---------------------------- MODULE InstanceLock ----------------------------
(***************************************************************************)
(* The lock that keeps a2text single (internal/infra/sysd/lock_linux.go):   *)
(* a file in the runtime directory, locked with flock and holding the pid   *)
(* of its owner.  The lock is on the file, not on its name: InTemp says     *)
(* that there is no XDG_RUNTIME_DIR and the runtime directory lies in the   *)
(* temporary directory the start-up sweeps.                                 *)
(***************************************************************************)
EXTENDS Naturals

CONSTANTS
  Procs,      \* invocations of the program
  nobody,     \* no process
  InTemp,     \* is the runtime directory a child of cfg.TempDir
  MaxFiles    \* bound: lock files created one after the other

ASSUME LockAssumption ==
  nobody \notin Procs /\ InTemp \in BOOLEAN /\ MaxFiles \in Nat

Files == 1..MaxFiles

VARIABLES
  dir,      \* does the runtime directory exist
  path,     \* the file with the lock's name, 0 if there is none
  files,    \* how many files were created
  fd,       \* the file each process has open, 0 if none
  flock,    \* which process holds the lock of each file
  pidIn     \* whose pid each file holds

dirVars == <<dir, path, files>>
lockVars == <<dir, path, files, fd, flock, pidIn>>

LockType ==
  /\ dir \in BOOLEAN
  /\ path \in 0..MaxFiles /\ files \in 0..MaxFiles
  /\ fd \in [Procs -> 0..MaxFiles]
  /\ flock \in [Files -> Procs \cup {nobody}]
  /\ pidIn \in [Files -> Procs \cup {nobody}]

LockInit ==
  /\ dir = FALSE
  /\ path = 0 /\ files = 0
  /\ fd = [p \in Procs |-> 0]
  /\ flock = [f \in Files |-> nobody]
  /\ pidIn = [f \in Files |-> nobody]

Holds(p) == fd[p] # 0 /\ flock[fd[p]] = p

-----------------------------------------------------------------------------
EnsureRuntimeDir ==
  /\ dir' = TRUE
  /\ UNCHANGED <<path, files, fd, flock, pidIn>>

(* Seeded fault: the file is opened with O_TRUNC.                           *)
OpenLockTruncating(p) ==
  /\ dir
  /\ path' = IF path = 0 THEN 1 ELSE path
  /\ files' = path'
  /\ fd' = [fd EXCEPT ![p] = path']
  /\ pidIn' = [pidIn EXCEPT ![path'] = nobody]
  /\ UNCHANGED <<dir, flock>>

(* verifyParentDirIsPrivate, then O_CREATE.                                 *)
OpenLock(p) ==
  /\ dir
  /\ \/ /\ path # 0
        /\ fd' = [fd EXCEPT ![p] = path]
        /\ UNCHANGED dirVars
     \/ /\ path = 0 /\ files < MaxFiles
        /\ files' = files + 1 /\ path' = files + 1
        /\ fd' = [fd EXCEPT ![p] = files + 1]
        /\ UNCHANGED dir
  /\ UNCHANGED <<flock, pidIn>>

Flock(p) ==
  /\ flock[fd[p]] = nobody
  /\ flock' = [flock EXCEPT ![fd[p]] = p]
  /\ UNCHANGED dirVars /\ UNCHANGED <<fd, pidIn>>

WouldBlock(p) == flock[fd[p]] # nobody

Truncate(p) ==
  /\ pidIn' = [pidIn EXCEPT ![fd[p]] = nobody]
  /\ UNCHANGED dirVars /\ UNCHANGED <<fd, flock>>

WritePid(p) ==
  /\ pidIn' = [pidIn EXCEPT ![fd[p]] = p]
  /\ UNCHANGED dirVars /\ UNCHANGED <<fd, flock>>

(* closeAndUnlockFile, Release and the end of the process alike: the file   *)
(* and its contents stay.                                                   *)
Unlock(p) ==
  /\ flock' = [f \in Files |-> IF flock[f] = p THEN nobody ELSE flock[f]]
  /\ fd' = [fd EXCEPT ![p] = 0]
  /\ UNCHANGED dirVars /\ UNCHANGED pidIn

(* CleanOrphanDirs takes every private directory called a2text-* in the     *)
(* temporary directory that is a day old for a session directory, the       *)
(* fallback runtime directory a2text-voice-<uid> included.                  *)
CleanOrphanDirs ==
  /\ \E old \in BOOLEAN :
       IF InTemp /\ dir /\ old
       THEN dir' = FALSE /\ path' = 0
       ELSE UNCHANGED <<dir, path>>
  /\ UNCHANGED <<files, fd, flock, pidIn>>

=============================================================================
