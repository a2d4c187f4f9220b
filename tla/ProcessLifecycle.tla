-------------------------- MODULE ProcessLifecycle --------------------------
(***************************************************************************)
(* An invocation of a2text from the command line to its exit                *)
(* (internal/infra/cli/command.go, internal/infra/daemon/bootstrap.go and   *)
(* Serve and Shutdown of daemon.go): the instance lock, the wiring of the   *)
(* daemon, the settings window's event loop on the main goroutine, the      *)
(* goroutine that shuts the daemon down and what systemd and the tray show. *)
(* Invocations crash, lose the race for the lock and start after another.   *)
(***************************************************************************)
EXTENDS InstanceLock, StateNotify, Wiring

CONSTANTS
  Boxes,          \* the machines to start on
  Configs,        \* configurations that passed ValidateVoice
  MaxTransitions  \* bound: state changes of the machines, shutdowns apart

ASSUME TransitionsAssumption == MaxTransitions \in Nat

(* The validators of the output, which ran before.                          *)
ASSUME ConfigsAssumption ==
  \A c \in Configs : c.mode \in Modes /\ c.paste \in PasteCommands

VARIABLES
  pc,       \* where the main goroutine of each invocation is
  ctx,      \* its signal context: "unset", "live", "done"
  setup,    \* the machine and the configuration of a start that failed
  failed,   \* the factory that ended the start
  keys,     \* is the hotkey listened to: "off", "on", "stopped"
  watch,    \* where Serve's shutdown goroutine is
  quit,     \* is app.Quit queued
  desk,     \* what the daemon shows
  changes   \* bound: how often a machine changed

runVars == <<setup, failed, keys, watch, quit, desk, changes>>
vars == <<dir, path, files, fd, flock, pidIn, pc, ctx, setup, failed,
          keys, watch, quit, desk, changes>>

Acquiring == {"flock", "truncate", "pid", "sync"}
Starting == {"deps", "sweep", "model", "wire"}
Serving == {"serve", "window", "loop", "returned"}
Steps == {"off", "config", "runtime", "lock", "release", "exited"}
           \cup Acquiring \cup Starting \cup Serving
WatchSteps == {"off", "waiting", "stopping", "applied", "told", "closing",
               "stopwindow", "done"}
Setups == [box : Boxes, cfg : Configs]

TypeOK ==
  /\ LockType
  /\ pc \in [Procs -> Steps]
  /\ ctx \in [Procs -> {"unset", "live", "done"}]
  /\ setup \in [Procs -> SUBSET Setups]
  /\ failed \in [Procs -> {"none", "recorder", "output", "hotkey"}]
  /\ keys \in [Procs -> {"off", "on", "stopped"}]
  /\ watch \in [Procs -> WatchSteps]
  /\ quit \in [Procs -> BOOLEAN]
  /\ \A p \in Procs : DeskType(desk[p])
  /\ changes \in 0..MaxTransitions

Init ==
  /\ LockInit
  /\ pc = [p \in Procs |-> "off"]
  /\ ctx = [p \in Procs |-> "unset"]
  /\ setup = [p \in Procs |-> {}]
  /\ failed = [p \in Procs |-> "none"]
  /\ keys = [p \in Procs |-> "off"]
  /\ watch = [p \in Procs |-> "off"]
  /\ quit = [p \in Procs |-> FALSE]
  /\ desk = [p \in Procs |-> NewDesk]
  /\ changes = 0

Goto(p, step) == pc' = [pc EXCEPT ![p] = step]

-----------------------------------------------------------------------------
(* The world: invocations, signals and crashes.                             *)

Launch(p) ==
  /\ pc[p] = "off"
  /\ Goto(p, "config")
  /\ UNCHANGED lockVars /\ UNCHANGED runVars /\ UNCHANGED ctx

(* The process is gone: its goroutines, its files and its locks.            *)
Gone(p) ==
  /\ Goto(p, "exited")
  /\ Unlock(p)
  /\ keys' = [keys EXCEPT ![p] = "off"]
  /\ watch' = [watch EXCEPT ![p] = "off"]
  /\ desk' = [desk EXCEPT ![p] = NewDesk]
  /\ setup' = [setup EXCEPT ![p] = {}]
  /\ ctx' = [ctx EXCEPT ![p] = "unset"]
  /\ failed' = [failed EXCEPT ![p] = "none"]
  /\ quit' = [quit EXCEPT ![p] = FALSE]
  /\ UNCHANGED changes

Crash(p) == pc[p] \notin {"off", "exited"} /\ Gone(p)

(* SIGTERM kills until NotifyContext is installed; the tray's quit is the   *)
(* same cancellation.  Later signals change nothing.                        *)
Terminate(p) ==
  \/ pc[p] = "config" /\ Gone(p)
  \/ /\ ctx[p] = "live"
     /\ ctx' = [ctx EXCEPT ![p] = "done"]
     /\ UNCHANGED pc /\ UNCHANGED lockVars /\ UNCHANGED runVars

-----------------------------------------------------------------------------
(* The start, up to Serve.                                                  *)

(* LoadVoice, the overrides, ValidateVoice, the signals, pprof.             *)
ReadConfig(p) ==
  /\ pc[p] = "config"
  /\ \/ Gone(p)
     \/ /\ Goto(p, "runtime")
        /\ ctx' = [ctx EXCEPT ![p] = "live"]
        /\ UNCHANGED lockVars /\ UNCHANGED runVars

PrepareRuntime(p) ==
  /\ pc[p] = "runtime"
  /\ \/ Gone(p)
     \/ /\ Goto(p, "lock") /\ EnsureRuntimeDir
        /\ UNCHANGED runVars /\ UNCHANGED ctx

(* A directory that was swept in between refuses the start.                 *)
AcquireOpens(p) ==
  /\ pc[p] = "lock"
  /\ \/ Gone(p)
     \/ /\ Goto(p, "flock") /\ OpenLock(p)
        /\ UNCHANGED runVars /\ UNCHANGED ctx

(* Seeded fault: a lock that is held is taken for a stale one.              *)
AcquireLocksStale(p) ==
  /\ pc[p] = "flock"
  /\ Goto(p, "truncate")
  /\ flock' = [flock EXCEPT ![fd[p]] = p]
  /\ UNCHANGED <<dir, path, files, fd, pidIn>>
  /\ UNCHANGED runVars /\ UNCHANGED ctx

(* ErrDaemonAlreadyRunning is returned, or the lock is ours.                *)
AcquireLocks(p) ==
  /\ pc[p] = "flock"
  /\ \/ WouldBlock(p) /\ Gone(p)
     \/ /\ Goto(p, "truncate") /\ Flock(p)
        /\ UNCHANGED runVars /\ UNCHANGED ctx

(* Truncate, write, sync: each may fail, which gives the lock back.         *)
AcquireWrites(p) ==
  /\ \/ pc[p] \in {"truncate", "pid", "sync"} /\ Gone(p)
     \/ /\ \/ pc[p] = "truncate" /\ Goto(p, "pid") /\ Truncate(p)
           \/ pc[p] = "pid" /\ Goto(p, "sync") /\ WritePid(p)
           \/ pc[p] = "sync" /\ Goto(p, "deps") /\ UNCHANGED lockVars
        /\ UNCHANGED runVars /\ UNCHANGED ctx

(* checkDaemonDeps only logs.                                               *)
CheckDeps(p) ==
  /\ pc[p] = "deps"
  /\ Goto(p, "sweep")
  /\ UNCHANGED ctx /\ UNCHANGED lockVars /\ UNCHANGED runVars

Sweep(p) ==
  /\ pc[p] = "sweep"
  /\ Goto(p, "model")
  /\ CleanOrphanDirs
  /\ UNCHANGED ctx /\ UNCHANGED runVars

(* The model, the audit log and the transcriber: failures degrade.  A       *)
(* download takes as long as it takes, the signal context cancels it.       *)
PrepareModel(p) ==
  /\ pc[p] = "model"
  /\ Goto(p, "wire")
  /\ UNCHANGED ctx /\ UNCHANGED lockVars /\ UNCHANGED runVars

(* The factories, then NewDaemon, the tray and the settings window; on the  *)
(* machine and with the configuration the dependency check saw.             *)
Wire(p) ==
  /\ pc[p] = "wire"
  /\ \E s \in Setups :
       LET f == FailedBuild(s.cfg, s.box)
       IN /\ failed' = [failed EXCEPT ![p] = f]
          /\ setup' = [setup EXCEPT ![p] = IF f = "none" THEN {} ELSE {s}]
          /\ Goto(p, IF f = "none" THEN "serve" ELSE "release")
  /\ UNCHANGED <<keys, watch, quit, desk, changes, ctx>>
  /\ UNCHANGED lockVars

-----------------------------------------------------------------------------
(* Serve on the main goroutine.                                             *)

(* READY, then the hotkey, the tray and the shutdown goroutine.             *)
Serve(p) ==
  /\ pc[p] = "serve"
  /\ Goto(p, "window")
  /\ keys' = [keys EXCEPT ![p] = "on"]
  /\ watch' = [watch EXCEPT ![p] = "waiting"]
  /\ UNCHANGED <<setup, failed, quit, desk, changes, ctx>>
  /\ UNCHANGED lockVars

(* Window.Run up to the event loop: w.app and running are set.              *)
WindowRuns(p) ==
  /\ pc[p] = "window"
  /\ Goto(p, "loop")
  /\ UNCHANGED ctx /\ UNCHANGED lockVars /\ UNCHANGED runVars

(* The loop ends by Quit, or it panicked too often.                         *)
LoopEnds(p) ==
  /\ pc[p] = "loop" /\ quit[p]
  /\ Goto(p, "returned")
  /\ UNCHANGED ctx /\ UNCHANGED lockVars /\ UNCHANGED runVars

LoopGivesUp(p) ==
  /\ pc[p] = "loop"
  /\ Goto(p, "returned")
  /\ UNCHANGED ctx /\ UNCHANGED lockVars /\ UNCHANGED runVars

(* Seeded fault: Serve returns with its window.                             *)
ServeReturnsEarly(p) ==
  /\ pc[p] = "returned"
  /\ Goto(p, "release")
  /\ UNCHANGED ctx /\ UNCHANGED lockVars /\ UNCHANGED runVars

(* <-shutdownDone.  What the daemon still shows is not followed further.    *)
ServeReturns(p) ==
  /\ pc[p] = "returned" /\ watch[p] = "done"
  /\ Goto(p, "release")
  /\ desk' = [desk EXCEPT ![p] = NewDesk]
  /\ UNCHANGED <<ctx, setup, failed, keys, watch, quit, changes>>
  /\ UNCHANGED lockVars

(* The deferred Release; what still runs ends with the process.             *)
Release(p) ==
  /\ pc[p] = "release" /\ fd[p] # 0
  /\ Unlock(p)
  /\ UNCHANGED <<pc, ctx>> /\ UNCHANGED runVars

Exit(p) ==
  /\ pc[p] = "release" /\ fd[p] = 0
  /\ Gone(p)

-----------------------------------------------------------------------------
(* The shutdown goroutine of Serve.                                         *)

Watch(p, from, to) == watch[p] = from /\ watch' = [watch EXCEPT ![p] = to]

(* <-ctx.Done() and Stopping.                                               *)
ShutdownBegins(p) ==
  /\ ctx[p] = "done" /\ Watch(p, "waiting", "stopping")
  /\ desk' = [desk EXCEPT ![p] = TellStopping(@)]
  /\ UNCHANGED <<pc, ctx, setup, failed, keys, quit, changes>>
  /\ UNCHANGED lockVars

(* machine.Apply(EventShutdown) and its listener.                           *)
ShutdownApplies(p) ==
  /\ Watch(p, "stopping", "applied")
  /\ desk' = [desk EXCEPT ![p] = Applied(@, "shutdown", "shutting_down")]
  /\ UNCHANGED <<pc, ctx, setup, failed, keys, quit, changes>>
  /\ UNCHANGED lockVars

(* The cycle is cancelled once the listener has returned.                   *)
ShutdownCancels(p) ==
  /\ Watch(p, "applied", "closing")
  /\ \A c \in desk[p].calls : c.by # "shutdown"
  /\ UNCHANGED <<pc, ctx, setup, failed, keys, quit, desk, changes>>
  /\ UNCHANGED lockVars

(* LIFO: the hotkey, then the transcriber.                                  *)
ShutdownCloses(p) ==
  /\ Watch(p, "closing", "stopwindow")
  /\ keys' = [keys EXCEPT ![p] = "stopped"]
  /\ UNCHANGED <<pc, ctx, setup, failed, quit, desk, changes>>
  /\ UNCHANGED lockVars

(* Seeded fault: no Stop after the resources are closed.                    *)
StopWindowForgotten(p) ==
  /\ Watch(p, "stopwindow", "done")
  /\ UNCHANGED <<pc, ctx, setup, failed, keys, quit, desk, changes>>
  /\ UNCHANGED lockVars

(* Window.Stop, once: it does nothing for a window that does not run yet.   *)
StopWindow(p) ==
  /\ Watch(p, "stopwindow", "done")
  /\ quit' = [quit EXCEPT ![p] = (pc[p] = "loop")]
  /\ UNCHANGED <<pc, ctx, setup, failed, keys, desk, changes>>
  /\ UNCHANGED lockVars

-----------------------------------------------------------------------------
(* The machine of a serving daemon, its listener and the tray.              *)

EventsOf(n) ==
  IF n = "caller" THEN {"toggle", "start", "stop"}
  ELSE Events \ {"toggle", "start", "stop", "shutdown"}

Alive(p) == pc[p] \in {"window", "loop", "returned"}

Desk(p, d) ==
  /\ Alive(p)
  /\ desk' = [desk EXCEPT ![p] = d]
  /\ UNCHANGED <<pc, ctx, setup, failed, keys, watch, quit>>
  /\ UNCHANGED lockVars

(* A goroutine applies one event at a time.                                 *)
Change(p, n, event) ==
  LET answer == Transition(desk[p].machine, event)
  IN /\ changes < MaxTransitions
     /\ n = "caller" => keys[p] = "on"
     /\ \A c \in desk[p].calls : c.by # n
     /\ answer.err = "nil"
     /\ changes' = changes + 1
     /\ Desk(p, Applied(desk[p], n, answer.state))

ListenerTells(p, c) ==
  /\ c.step = "status" /\ Desk(p, TellSystemd(desk[p], c))
  /\ UNCHANGED changes

ListenerSends(p, c) ==
  /\ c.step = "send" /\ Desk(p, SendToTray(desk[p], c))
  /\ UNCHANGED changes

(* Both tray goroutines end with the context.                               *)
TrayRelays(p) ==
  /\ ctx[p] = "live" /\ desk[p].notifyCh # <<>>
  /\ Desk(p, RelayState(desk[p])) /\ UNCHANGED changes

TrayDraws(p) ==
  /\ ctx[p] = "live" /\ desk[p].stateIn # <<>>
  /\ Desk(p, ApplyState(desk[p])) /\ UNCHANGED changes

-----------------------------------------------------------------------------
Start(p) ==
  \/ ReadConfig(p) \/ PrepareRuntime(p) \/ AcquireOpens(p) \/ AcquireLocks(p)
  \/ AcquireWrites(p) \/ CheckDeps(p) \/ Sweep(p) \/ PrepareModel(p) \/ Wire(p)

Main(p) ==
  \/ Start(p)
  \/ Serve(p) \/ WindowRuns(p) \/ LoopEnds(p) \/ ServeReturns(p)
  \/ Release(p) \/ Exit(p)

Watcher(p) ==
  \/ ShutdownBegins(p) \/ ShutdownApplies(p) \/ ShutdownCancels(p)
  \/ ShutdownCloses(p) \/ StopWindow(p)

Listener(p) ==
  \E c \in desk[p].calls : ListenerTells(p, c) \/ ListenerSends(p, c)

Next ==
  \E p \in Procs :
       \/ Launch(p) \/ Crash(p) \/ Terminate(p) \/ LoopGivesUp(p)
       \/ Main(p) \/ Watcher(p) \/ Listener(p)
       \/ \E n \in {"caller", "cycle"} : \E event \in EventsOf(n) : Change(p, n, event)
       \/ TrayRelays(p) \/ TrayDraws(p)

Spec == Init /\ [][Next]_vars

(* Goroutines are scheduled; nobody has to start, stop or use the program.  *)
FairSpec ==
  /\ Spec
  /\ \A p \in Procs : WF_vars(Main(p)) /\ WF_vars(Watcher(p)) /\ WF_vars(Listener(p))

-----------------------------------------------------------------------------
(* At most one daemon listens to the keyboard at any time, through losing   *)
(* starts, crashes, shutdowns and restarts.  (Not with InTemp: a start's    *)
(* sweep may remove the directory and the file that is locked.)             *)
OneDaemonListens ==
  \A p, q \in Procs : keys[p] = "on" /\ keys[q] = "on" => p = q

(* The lock file names the daemon that holds it once the lock is acquired:  *)
(* an invocation that loses the race disturbs neither file nor owner.       *)
PidFileNamesHolder ==
  \A p \in Procs :
    pc[p] \in Starting \cup Serving => Holds(p) /\ pidIn[fd[p]] = p

(* When everything has been told and drawn, systemd's status and the icon   *)
(* show states of the last burst of changes: stale by one burst at most,    *)
(* and exact after a change that came alone, whatever order the listeners   *)
(* ran in and whatever a full channel dropped.                              *)
ShownIsFromLastBurst ==
  \A p \in Procs :
    Alive(p) /\ watch[p] = "waiting" /\ Quiet(desk[p])
      => {desk[p].status, desk[p].icon} \subseteq desk[p].burst

(* A start that fails for want of a tool was announced by the dependency    *)
(* check as missing and required.  Two refusals are of another kind: a      *)
(* paste tool of the other session and a key with no keycode.               *)
DepcheckForesees ==
  \A p \in Procs :
    pc[p] = "release" /\ failed[p] # "none" =>
      \A s \in setup[p] :
        \/ FatalMissing(s.cfg, s.box) # {}
        \/ failed[p] = "hotkey" /\ ~s.cfg.keyKnown
        \/ failed[p] = "output" /\ s.cfg.paste \in {"wtype", "ydotool"} /\ ~s.box.wayland

(* A daemon whose window's loop runs when the shutdown comes to stop it     *)
(* exits.                                                                   *)
StopsWhenTold ==
  \A p \in Procs :
    pc[p] = "loop" /\ ctx[p] = "done" /\ watch[p] # "done" ~> pc[p] = "exited"

=============================================================================
