----------------------------- MODULE HoldHotkey -----------------------------
(***************************************************************************)
(* Push-to-talk: the keyboards' reader goroutines                          *)
(* (pkg/hotkey/evdev_linux.go), the gate that drops short taps             *)
(* (internal/infra/daemon/hold_gate.go) and the events both give the       *)
(* machine.  A reader changes the listener's state under its mutex, then   *)
(* calls the handler with no lock held; the gate has a mutex of its own,   *)
(* and Apply a third.                                                      *)
(***************************************************************************)
EXTENDS VoiceMachine, Naturals

CONSTANTS
  Devices,      \* keyboards that carry the chord, one reader goroutine each
  MainDevices,  \* those whose main key the user presses
  ModGroups,    \* the configured modifiers, each the set of its keycodes
  MaxPresses    \* bound: Press edges the listener emits

ASSUME PressesAssumption == MaxPresses \in Nat /\ MainDevices \subseteq Devices

Modifiers == UNION ModGroups
Main == "main"                       \* the keycode of the main key

(* keycodeMap and modifierKeycodes share no keycode.                        *)
ASSUME KeycodesAssumption == Main \notin Modifiers

Presses == 1..MaxPresses

VARIABLES
  held,         \* held[d]: the keys d's events say are down
  modState,     \* EvdevHotkey.modState: keycodes believed down
  keyDown,      \* EvdevHotkey.keyDown
  presses,      \* Press edges emitted so far; they number the presses
  at,           \* at[d]: where the reader of d is; "off" once d is unplugged
  press,        \* press[d]: the press d's reader is handling, 0 if none
  pending,      \* holdGate.pending
  started,      \* holdGate.started
  handle,       \* holdGate.timer: the press whose timer it is, 0 for nil
  timer,        \* timer[n]: the timer armed for press n
  tally,        \* how many presses the gate took, dropped, fired and ended
  waiting,      \* the press that is pending (the code keeps no such thing)
  state         \* Machine.state

keyVars  == <<held, modState, keyDown, presses>>
gateVars == <<pending, started, handle, tally, waiting>>
vars == <<held, modState, keyDown, presses, at, press, pending, started,
          handle, timer, tally, waiting, state>>

ReaderSteps == {"read", "press", "arm", "release", "stop", "off"}

(* An armed timer is "due" once its callback's goroutine exists, and has    *)
(* "fired" once the callback passed the gate.                               *)
TimerSteps == {"none", "armed", "due", "fired", "over"}

TypeOK ==
  /\ held \in [Devices -> SUBSET ({Main} \cup Modifiers)]
  /\ modState \in SUBSET Modifiers
  /\ keyDown \in BOOLEAN
  /\ presses \in 0..MaxPresses
  /\ at \in [Devices -> ReaderSteps]
  /\ press \in [Devices -> 0..MaxPresses]
  /\ pending \in BOOLEAN
  /\ started \in BOOLEAN
  /\ handle \in 0..MaxPresses
  /\ timer \in [Presses -> TimerSteps]
  /\ tally \in [taken: Nat, dropped: Nat, fired: Nat, ended: Nat]
  /\ waiting \in 0..MaxPresses
  /\ state \in States

Init ==
  /\ held = [d \in Devices |-> {}]
  /\ modState = {}
  /\ keyDown = FALSE
  /\ presses = 0
  /\ at = [d \in Devices |-> "read"]
  /\ press = [d \in Devices |-> 0]
  /\ pending = FALSE
  /\ started = FALSE
  /\ handle = 0
  /\ timer = [n \in Presses |-> "none"]
  /\ tally = [taken |-> 0, dropped |-> 0, fired |-> 0, ended |-> 0]
  /\ waiting = 0
  /\ state = "idle"

Goto(d, where) == at' = [at EXCEPT ![d] = where]
SetTimer(n, where) == timer' = [timer EXCEPT ![n] = where]
Count(what) == tally' = [tally EXCEPT ![what] = @ + 1]
Apply(event) == state' = Transition(state, event).state

-----------------------------------------------------------------------------
(* The reader of device d: one event at a time, the handler included.       *)

ModifiersSatisfied == \A group \in ModGroups : group \cap modState # {}

PressMain(d) ==
  /\ d \in MainDevices
  /\ at[d] = "read" /\ Main \notin held[d]
  /\ held' = [held EXCEPT ![d] = @ \cup {Main}]
  /\ \/ /\ ~keyDown /\ ModifiersSatisfied
        /\ presses < MaxPresses
        /\ presses' = presses + 1
        /\ press' = [press EXCEPT ![d] = presses + 1]
        /\ keyDown' = TRUE
        /\ Goto(d, "press")
     \/ /\ keyDown \/ ~ModifiersSatisfied
        /\ UNCHANGED <<keyDown, presses, press, at>>
  /\ UNCHANGED <<modState, timer, state>> /\ UNCHANGED gateVars

ReleaseMain(d) ==
  /\ at[d] = "read" /\ Main \in held[d]
  /\ held' = [held EXCEPT ![d] = @ \ {Main}]
  /\ keyDown' = FALSE
  /\ Goto(d, IF keyDown THEN "release" ELSE "read")
  /\ UNCHANGED <<modState, presses, press, timer, state>> /\ UNCHANGED gateVars

(* A first press and the kernel's repeats record the same thing.            *)
PressModifier(d, code) ==
  /\ at[d] = "read"
  /\ held' = [held EXCEPT ![d] = @ \cup {code}]
  /\ modState' = modState \cup {code}
  /\ UNCHANGED <<keyDown, presses, at, press, timer, state>>
  /\ UNCHANGED gateVars

(* Seeded fault: releases of modifiers are not recorded.                    *)
ReleaseModifierIgnored(d, code) ==
  /\ at[d] = "read" /\ code \in held[d]
  /\ held' = [held EXCEPT ![d] = @ \ {code}]
  /\ UNCHANGED <<modState, keyDown, presses, at, press, timer, state>>
  /\ UNCHANGED gateVars

ReleaseModifier(d, code) ==
  /\ at[d] = "read" /\ code \in held[d]
  /\ held' = [held EXCEPT ![d] = @ \ {code}]
  /\ modState' = modState \ {code}
  /\ UNCHANGED <<keyDown, presses, at, press, timer, state>>
  /\ UNCHANGED gateVars

(* A read error ends the reader; what the listener believes stays.          *)
Unplug(d) ==
  /\ at[d] = "read"
  /\ Goto(d, "off")
  /\ UNCHANGED <<press, timer, state>>
  /\ UNCHANGED keyVars /\ UNCHANGED gateVars

-----------------------------------------------------------------------------
(* The gate.  OnPress marks the press pending, leaves the lock and only     *)
(* then arms the timer and stores it.                                       *)

OnPress(d) ==
  /\ at[d] = "press"
  /\ \/ /\ started \/ pending
        /\ press' = [press EXCEPT ![d] = 0]
        /\ Goto(d, "read")
        /\ UNCHANGED <<pending, tally, waiting>>
     \/ /\ ~started /\ ~pending
        /\ pending' = TRUE
        /\ waiting' = press[d]
        /\ Count("taken")
        /\ Goto(d, "arm")
        /\ UNCHANGED press
  /\ UNCHANGED <<started, handle, timer, state>> /\ UNCHANGED keyVars

Arm(d) ==
  /\ at[d] = "arm"
  /\ SetTimer(press[d], "armed")
  /\ handle' = press[d]
  /\ press' = [press EXCEPT ![d] = 0]
  /\ Goto(d, "read")
  /\ UNCHANGED <<pending, started, tally, waiting, state>> /\ UNCHANGED keyVars

HoldElapses(n) ==
  /\ timer[n] = "armed"
  /\ SetTimer(n, "due")
  /\ UNCHANGED <<at, press, state>> /\ UNCHANGED keyVars /\ UNCHANGED gateVars

(* Seeded fault: the callback does not ask whether the press still waits.   *)
CallbackUnchecked(n) ==
  /\ timer[n] = "due"
  /\ SetTimer(n, "fired")
  /\ pending' = FALSE
  /\ waiting' = 0
  /\ started' = TRUE
  /\ Count("fired")
  /\ UNCHANGED <<at, press, handle, state>> /\ UNCHANGED keyVars

(* Seeded fault: the callback leaves the press pending.                     *)
CallbackKeepsPending(n) ==
  /\ timer[n] = "due"
  /\ \/ /\ ~pending
        /\ SetTimer(n, "over")
        /\ UNCHANGED <<started, tally>>
     \/ /\ pending
        /\ SetTimer(n, "fired")
        /\ started' = TRUE
        /\ Count("fired")
  /\ UNCHANGED <<at, press, handle, pending, waiting, state>> /\ UNCHANGED keyVars

Callback(n) ==
  /\ timer[n] = "due"
  /\ \/ /\ ~pending
        /\ SetTimer(n, "over")
        /\ UNCHANGED <<pending, started, waiting, tally>>
     \/ /\ pending
        /\ SetTimer(n, "fired")
        /\ pending' = FALSE
        /\ waiting' = 0
        /\ started' = TRUE
        /\ Count("fired")
  /\ UNCHANGED <<at, press, handle, state>> /\ UNCHANGED keyVars

(* dispatch() runs after the callback released the gate.                    *)
DispatchStart(n) ==
  /\ timer[n] = "fired"
  /\ SetTimer(n, "over")
  /\ Apply("start")
  /\ UNCHANGED <<at, press>> /\ UNCHANGED keyVars /\ UNCHANGED gateVars

(* Stop on a timer whose callback is already running does nothing.          *)
StopTimer ==
  IF handle # 0 /\ timer[handle] = "armed" THEN SetTimer(handle, "over")
                                           ELSE UNCHANGED timer

(* Seeded fault: the flag is not cleared when the hold ends.                *)
OnReleaseKeepsStarted(d) ==
  /\ at[d] = "release"
  /\ \/ /\ pending
        /\ StopTimer
        /\ pending' = FALSE
        /\ waiting' = 0
        /\ Count("dropped")
        /\ Goto(d, "read")
        /\ UNCHANGED started
     \/ /\ ~pending /\ started
        /\ Count("ended")
        /\ Goto(d, "stop")
        /\ UNCHANGED <<pending, started, waiting, timer>>
     \/ /\ ~pending /\ ~started
        /\ Goto(d, "read")
        /\ UNCHANGED <<pending, started, waiting, tally, timer>>
  /\ UNCHANGED <<press, handle, state>> /\ UNCHANGED keyVars

OnRelease(d) ==
  /\ at[d] = "release"
  /\ \/ /\ pending
        /\ StopTimer
        /\ pending' = FALSE
        /\ waiting' = 0
        /\ Count("dropped")
        /\ Goto(d, "read")
        /\ UNCHANGED started
     \/ /\ ~pending /\ started
        /\ started' = FALSE
        /\ Count("ended")
        /\ Goto(d, "stop")
        /\ UNCHANGED <<pending, waiting, timer>>
     \/ /\ ~pending /\ ~started
        /\ Goto(d, "read")
        /\ UNCHANGED <<pending, started, waiting, tally, timer>>
  /\ UNCHANGED <<press, handle, state>> /\ UNCHANGED keyVars

ApplyStop(d) ==
  /\ at[d] = "stop"
  /\ Apply("stop")
  /\ Goto(d, "read")
  /\ UNCHANGED <<press, timer>> /\ UNCHANGED keyVars /\ UNCHANGED gateVars

-----------------------------------------------------------------------------
(* The rest of the daemon, as far as the machine shows it: the cap ends a   *)
(* recording, a cycle reports what became of it (see DictationDaemon).      *)

CycleReports ==
  /\ \E event \in {"timeout", "record_failed", "transcribe_done",
                   "transcribe_failed", "empty_result", "deliver_done"} :
        /\ Transition(state, event).err = "nil"
        /\ Apply(event)
  /\ UNCHANGED <<at, press, timer>> /\ UNCHANGED keyVars /\ UNCHANGED gateVars

Key(d) ==
  \/ PressMain(d)
  \/ ReleaseMain(d)
  \/ \E code \in Modifiers : PressModifier(d, code) \/ ReleaseModifier(d, code)
  \/ Unplug(d)

Handler(d) == OnPress(d) \/ Arm(d) \/ OnRelease(d) \/ ApplyStop(d)

HoldTimer(n) == HoldElapses(n) \/ Callback(n) \/ DispatchStart(n)

Next ==
  \/ \E d \in Devices : Key(d) \/ Handler(d)
  \/ \E n \in Presses : HoldTimer(n)
  \/ CycleReports

Spec == Init /\ [][Next]_vars

(* A handler that is running goes on, and a timer that is armed is served.  *)
(* Nobody has to press or release a key.                                    *)
FairSpec ==
  /\ Spec
  /\ \A d \in Devices : WF_vars(Handler(d))
  /\ \A n \in Presses : WF_vars(HoldTimer(n))

-----------------------------------------------------------------------------
(* Properties.                                                             *)

(* The gate holds one press at a time, and every press it took is accounted *)
(* for once: it still waits, it was dropped as a tap or it fired; every     *)
(* start that fired is still held or was ended by exactly one stop.  No     *)
(* order of the readers, the timers and the late callbacks breaks this.     *)
One(b) == IF b THEN 1 ELSE 0

PressesBalance ==
  /\ ~(pending /\ started)
  /\ tally.taken = tally.dropped + tally.fired + One(pending)
  /\ tally.fired = tally.ended + One(started)

(* What the listener believes is down was pressed on some keyboard and not  *)
(* released there since (a keyboard may be gone by now).                    *)
BelievedKeysWereHeld ==
  /\ keyDown => \E d \in Devices : Main \in held[d]
  /\ \A code \in modState : \E d \in Devices : code \in held[d]

(* With nothing in flight the gate is shut exactly while the chord is held: *)
(* a hold that ended left nothing behind that would start a recording or    *)
(* swallow the next press.                                                  *)
Settled ==
  /\ \A d \in Devices : at[d] \in {"read", "off"}
  /\ \A n \in Presses : timer[n] \notin {"due", "fired"}

GateFollowsKey == Settled => (keyDown <=> (pending \/ started))

(* A released chord sets the gate free, whatever the timers do.             *)
ReleaseFreesGate == ~keyDown ~> (keyDown \/ (~pending /\ ~started))

(* A press the gate took does not wait for ever.                            *)
PressDoesNotWait == \A n \in Presses : waiting = n ~> waiting # n

=============================================================================
