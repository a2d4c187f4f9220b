-------------------------- MODULE HoldHotkeyProofs --------------------------
(***************************************************************************)
(* Proofs about HoldHotkey for any keyboards, any modifiers and any number *)
(* of presses.                                                             *)
(***************************************************************************)
EXTENDS HoldHotkey, TLAPS

(* What the balance rests on: the flags are flags and the counts numbers.   *)
GateType ==
  /\ pending \in BOOLEAN
  /\ started \in BOOLEAN
  /\ tally \in [taken: Nat, dropped: Nat, fired: Nat, ended: Nat]

GateInv == GateType /\ PressesBalance

(* A flag counts one when it is up.                                         *)
LEMMA OneIs == One(TRUE) = 1 /\ One(FALSE) = 0
  BY DEF One

(* Nothing is pending, started or counted when the gate is new.             *)
LEMMA InitGate == Init => GateInv
<1> SUFFICES ASSUME Init
             PROVE  GateInv
  OBVIOUS
<1>1. pending = FALSE /\ started = FALSE
  BY DEF Init
<1>2. tally = [taken |-> 0, dropped |-> 0, fired |-> 0, ended |-> 0]
  BY DEF Init
<1>3. ~(pending /\ started)
  BY <1>1
<1>4. /\ tally.taken = tally.dropped + tally.fired + One(pending)
      /\ tally.fired = tally.ended + One(started)
  <2>1. One(pending) = 0 /\ One(started) = 0
    BY <1>1, OneIs
  <2>2. QED
    BY <1>2, <2>1
<1>5. GateType
  BY <1>1, <1>2 DEF GateType
<1>6. QED
  BY <1>3, <1>4, <1>5 DEF GateInv, PressesBalance

(* The gate's bookkeeping, flag by flag: the flags before and after a step  *)
(* that counts one thing, and the balance that follows.                     *)
LEMMA Bookkeeping ==
  ASSUME GateInv, NEW what \in {"taken", "dropped", "fired", "ended"},
         Count(what),
         \/ what = "taken"   /\ pending = FALSE /\ started = FALSE
                             /\ pending' = TRUE /\ started' = FALSE
         \/ what = "dropped" /\ pending = TRUE  /\ started = FALSE
                             /\ pending' = FALSE /\ started' = FALSE
         \/ what = "fired"   /\ pending = TRUE  /\ started = FALSE
                             /\ pending' = FALSE /\ started' = TRUE
         \/ what = "ended"   /\ pending = FALSE /\ started = TRUE
                             /\ pending' = FALSE /\ started' = FALSE
  PROVE  GateInv'
<1>1. /\ tally \in [taken: Nat, dropped: Nat, fired: Nat, ended: Nat]
      /\ tally.taken = tally.dropped + tally.fired + One(pending)
      /\ tally.fired = tally.ended + One(started)
  BY DEF GateInv, GateType, PressesBalance
<1>2. tally' = [tally EXCEPT ![what] = @ + 1]
  BY DEF Count
<1>3. tally' \in [taken: Nat, dropped: Nat, fired: Nat, ended: Nat]
  BY ONLY <1>1, <1>2, what \in {"taken", "dropped", "fired", "ended"}
<1>4. /\ pending' \in BOOLEAN /\ started' \in BOOLEAN
      /\ ~(pending' /\ started')
  OBVIOUS
<1>5. /\ tally'.taken = tally'.dropped + tally'.fired + One(pending')
      /\ tally'.fired = tally'.ended + One(started')
  <2>1. CASE what = "taken"
    <3>1. One(pending) = 0 /\ One(started) = 0 /\ One(pending') = 1 /\ One(started') = 0
      BY <2>1, OneIs
    <3>2. QED
      BY ONLY <1>1, <1>2, <2>1, <3>1
  <2>2. CASE what = "dropped"
    <3>1. One(pending) = 1 /\ One(started) = 0 /\ One(pending') = 0 /\ One(started') = 0
      BY <2>2, OneIs
    <3>2. QED
      BY ONLY <1>1, <1>2, <2>2, <3>1
  <2>3. CASE what = "fired"
    <3>1. One(pending) = 1 /\ One(started) = 0 /\ One(pending') = 0 /\ One(started') = 1
      BY <2>3, OneIs
    <3>2. QED
      BY ONLY <1>1, <1>2, <2>3, <3>1
  <2>4. CASE what = "ended"
    <3>1. One(pending) = 0 /\ One(started) = 1 /\ One(pending') = 0 /\ One(started') = 0
      BY <2>4, OneIs
    <3>2. QED
      BY ONLY <1>1, <1>2, <2>4, <3>1
  <2>5. QED
    BY <2>1, <2>2, <2>3, <2>4
<1>6. QED
  BY <1>3, <1>4, <1>5 DEF GateInv, GateType, PressesBalance

(* The two flags are never up together, so each is FALSE under the other.   *)
LEMMA FlagsExclude ==
  ASSUME GateInv
  PROVE  /\ pending = TRUE \/ pending = FALSE
         /\ started = TRUE \/ started = FALSE
         /\ pending = TRUE => started = FALSE
  BY Zenon DEF GateInv, GateType, PressesBalance

(* The gate changes only in OnPress, OnRelease and the timer's callback.    *)
LEMMA StepGate == GateInv /\ [Next]_vars => GateInv'
<1> SUFFICES ASSUME GateInv, [Next]_vars
             PROVE  GateInv'
  OBVIOUS
<1>1. ASSUME UNCHANGED <<pending, started, tally>>
      PROVE  GateInv'
  BY <1>1 DEF GateInv, GateType, PressesBalance, One
<1>2. ASSUME NEW d \in Devices, OnPress(d)
      PROVE  GateInv'
  <2>1. CASE UNCHANGED <<pending, started, tally>>
    BY <1>1, <2>1
  <2>2. CASE ~started /\ ~pending /\ pending' = TRUE /\ Count("taken")
    <3>1. pending = FALSE /\ started = FALSE /\ pending' = TRUE /\ started' = FALSE
      BY <1>2, <2>2, FlagsExclude DEF OnPress
    <3>2. QED
      BY <2>2, <3>1, Bookkeeping
  <2>3. QED
    BY <1>2, <2>1, <2>2 DEF OnPress
<1>3. ASSUME NEW d \in Devices, OnRelease(d)
      PROVE  GateInv'
  <2>1. CASE UNCHANGED <<pending, started, tally>>
    BY <1>1, <2>1
  <2>2. CASE pending /\ pending' = FALSE /\ Count("dropped") /\ UNCHANGED started
    <3>1. pending = TRUE /\ started = FALSE /\ pending' = FALSE /\ started' = FALSE
      BY <2>2, FlagsExclude
    <3>2. QED
      BY <2>2, <3>1, Bookkeeping
  <2>3. CASE ~pending /\ started /\ started' = FALSE /\ Count("ended") /\ UNCHANGED pending
    <3>1. pending = FALSE /\ started = TRUE /\ pending' = FALSE /\ started' = FALSE
      BY <2>3, FlagsExclude
    <3>2. QED
      BY <2>3, <3>1, Bookkeeping
  <2>4. QED
    BY <1>3, <2>1, <2>2, <2>3 DEF OnRelease
<1>4. ASSUME NEW n \in Presses, Callback(n)
      PROVE  GateInv'
  <2>1. CASE UNCHANGED <<pending, started, tally>>
    BY <1>1, <2>1
  <2>2. CASE pending /\ pending' = FALSE /\ started' = TRUE /\ Count("fired")
    <3>1. pending = TRUE /\ started = FALSE /\ pending' = FALSE /\ started' = TRUE
      BY <2>2, FlagsExclude
    <3>2. QED
      BY <2>2, <3>1, Bookkeeping
  <2>3. QED
    BY <1>4, <2>1, <2>2 DEF Callback
<1>5. ASSUME NEW d \in Devices, Key(d) \/ Arm(d) \/ ApplyStop(d)
      PROVE  UNCHANGED <<pending, started, tally>>
  BY <1>5 DEF Key, Arm, ApplyStop, PressMain, ReleaseMain, PressModifier,
              ReleaseModifier, Unplug, gateVars
<1>6. ASSUME NEW n \in Presses, HoldElapses(n) \/ DispatchStart(n)
      PROVE  UNCHANGED <<pending, started, tally>>
  BY <1>6 DEF HoldElapses, DispatchStart, gateVars
<1>7. QED
  BY <1>1, <1>2, <1>3, <1>4, <1>5, <1>6
  DEF Next, Handler, HoldTimer, CycleReports, gateVars, vars

(* However readers, timers and callbacks interleave, on any keyboards, each *)
(* press the gate took is dropped once or started once, and each start is   *)
(* ended at most once.                                                      *)
THEOREM EveryPressCounted == Spec => []PressesBalance
<1>1. GateInv => PressesBalance
  BY DEF GateInv
<1>2. QED
  BY InitGate, StepGate, <1>1, PTL DEF Spec

-----------------------------------------------------------------------------
(* What the listener believes.  A release of the main key on any keyboard   *)
(* clears keyDown, a release of a modifier on any keyboard clears its       *)
(* keycode, so what is left was pressed and not released since.             *)
HeldType ==
  /\ keyDown \in BOOLEAN
  /\ modState \subseteq Modifiers
  /\ held \in [Devices -> SUBSET ({Main} \cup Modifiers)]

BelievedInv == HeldType /\ BelievedKeysWereHeld

LEMMA InitBelieved == Init => BelievedInv
  BY DEF Init, BelievedInv, HeldType, BelievedKeysWereHeld

(* Only the four key events touch what is held and what is believed.        *)
LEMMA StepBelieved == BelievedInv /\ [Next]_vars => BelievedInv'
<1> SUFFICES ASSUME BelievedInv, [Next]_vars
             PROVE  BelievedInv'
  OBVIOUS
<1> USE KeycodesAssumption DEF BelievedInv, HeldType, BelievedKeysWereHeld
<1>1. ASSUME NEW d \in Devices, PressMain(d)
      PROVE  BelievedInv'
  <2>1. /\ held' = [held EXCEPT ![d] = @ \cup {Main}]
        /\ UNCHANGED modState
        /\ keyDown' = TRUE \/ keyDown' = keyDown
    BY <1>1 DEF PressMain
  <2>2. HeldType' /\ Main \in held'[d] /\ \A e \in Devices : held[e] \subseteq held'[e]
    BY <2>1
  <2>3. QED
    BY <2>1, <2>2
<1>2. ASSUME NEW d \in Devices, ReleaseMain(d)
      PROVE  BelievedInv'
  <2>1. /\ held' = [held EXCEPT ![d] = @ \ {Main}]
        /\ UNCHANGED modState /\ keyDown' = FALSE
    BY <1>2 DEF ReleaseMain
  <2>2. HeldType' /\ \A e \in Devices : held[e] \ {Main} \subseteq held'[e]
    BY <2>1
  <2>3. QED
    BY <2>1, <2>2
<1>3. ASSUME NEW d \in Devices, NEW code \in Modifiers, PressModifier(d, code)
      PROVE  BelievedInv'
  <2>1. /\ held' = [held EXCEPT ![d] = @ \cup {code}]
        /\ modState' = modState \cup {code} /\ UNCHANGED keyDown
    BY <1>3 DEF PressModifier
  <2>2. HeldType' /\ code \in held'[d] /\ \A e \in Devices : held[e] \subseteq held'[e]
    BY <2>1
  <2>3. QED
    BY <2>1, <2>2
<1>4. ASSUME NEW d \in Devices, NEW code \in Modifiers, ReleaseModifier(d, code)
      PROVE  BelievedInv'
  <2>1. /\ held' = [held EXCEPT ![d] = @ \ {code}]
        /\ modState' = modState \ {code} /\ UNCHANGED keyDown
    BY <1>4 DEF ReleaseModifier
  <2>2. HeldType' /\ \A e \in Devices : held[e] \ {code} \subseteq held'[e]
    BY <2>1
  <2>3. QED
    BY <2>1, <2>2
<1>5. CASE UNCHANGED <<held, modState, keyDown>>
  BY <1>5
<1>6. QED
  BY <1>1, <1>2, <1>3, <1>4, <1>5
  DEF Next, Key, Handler, HoldTimer, CycleReports, vars, keyVars, Unplug, OnPress,
      Arm, OnRelease, ApplyStop, HoldElapses, Callback, DispatchStart

(* No key is believed down that no keyboard holds.                          *)
THEOREM BeliefIsGrounded == Spec => []BelievedKeysWereHeld
<1>1. BelievedInv => BelievedKeysWereHeld
  BY DEF BelievedInv
<1>2. QED
  BY InitBelieved, StepBelieved, <1>1, PTL DEF Spec

-----------------------------------------------------------------------------
(* The gate and the key, when one keyboard has the main key.  Then one      *)
(* reader alone runs the gate's handlers, and where it is says what the     *)
(* flags are: between a press and its arming the gate is shut and the key   *)
(* is down, between a release and the end of its handler the key is up.     *)
OneMainDevice == \A d, e \in MainDevices : d = e

Shut == pending \/ started

OthersAreIdle ==
  \A e \in Devices \ MainDevices : Main \notin held[e] /\ at[e] \in {"read", "off"}

ReaderAgrees(d) ==
  /\ at[d] \in {"read", "off"} => (keyDown <=> Shut)
  /\ at[d] = "press"   => keyDown /\ ~Shut
  /\ at[d] = "arm"     => keyDown /\ Shut
  /\ at[d] = "release" => ~keyDown
  /\ at[d] = "stop"    => ~keyDown /\ ~Shut

(* "Flags" are Boolean; a reader's place is one of ReaderSteps.             *)
KeyType ==
  /\ keyDown \in BOOLEAN
  /\ held \in [Devices -> SUBSET ({Main} \cup Modifiers)]
  /\ at \in [Devices -> ReaderSteps]

FollowInv ==
  /\ GateInv /\ KeyType /\ OneMainDevice
  /\ OthersAreIdle
  /\ \A d \in MainDevices : ReaderAgrees(d)
  /\ MainDevices = {} => ~keyDown /\ ~Shut

LEMMA InitFollow == OneMainDevice /\ Init => FollowInv
<1> SUFFICES ASSUME OneMainDevice, Init
             PROVE  FollowInv
  OBVIOUS
<1>1. /\ GateInv /\ keyDown = FALSE /\ pending = FALSE /\ started = FALSE
      /\ held = [d \in Devices |-> {}] /\ at = [d \in Devices |-> "read"]
  BY InitGate DEF Init
<1>2. KeyType
  BY <1>1 DEF KeyType, ReaderSteps
<1>3. OthersAreIdle /\ \A d \in MainDevices : ReaderAgrees(d)
  BY <1>1, PressesAssumption DEF OthersAreIdle, ReaderAgrees, Shut
<1>4. QED
  BY <1>1, <1>2, <1>3 DEF FollowInv, Shut

(* The types of the key's part are kept.                                    *)
LEMMA StepKeyType == KeyType /\ [Next]_vars => KeyType'
<1> SUFFICES ASSUME KeyType, [Next]_vars
             PROVE  KeyType'
  OBVIOUS
<1> USE DEF KeyType, ReaderSteps, Goto, keyVars
<1>1. ASSUME NEW d \in Devices, Key(d)
      PROVE  KeyType'
  <2>1. CASE PressMain(d)
    BY <2>1 DEF PressMain
  <2>2. CASE ReleaseMain(d)
    BY <2>2 DEF ReleaseMain
  <2>3. ASSUME NEW code \in Modifiers, PressModifier(d, code) \/ ReleaseModifier(d, code)
        PROVE  KeyType'
    BY <2>3 DEF PressModifier, ReleaseModifier
  <2>4. CASE Unplug(d)
    BY <2>4 DEF Unplug
  <2>5. QED
    BY <1>1, <2>1, <2>2, <2>3, <2>4 DEF Key
<1>2. ASSUME NEW d \in Devices, Handler(d)
      PROVE  KeyType'
  BY <1>2 DEF Handler, OnPress, Arm, OnRelease, ApplyStop
<1>3. CASE UNCHANGED <<keyDown, held, at>>
  BY <1>3
<1>4. QED
  BY <1>1, <1>2, <1>3
  DEF Next, HoldTimer, HoldElapses, Callback, DispatchStart, CycleReports, vars

(* A reader that leaves the gate's flags and the others alone is checked by *)
(* where it is.                                                             *)
LEMMA OneReaderMoves ==
  ASSUME FollowInv, NEW d \in MainDevices, [Next]_vars,
         \A e \in Devices : e # d => held'[e] = held[e] /\ at'[e] = at[e],
         ReaderAgrees(d)'
  PROVE  FollowInv'
<1>1. GateInv' /\ KeyType'
  BY StepGate, StepKeyType DEF FollowInv
<1>2. OneMainDevice' /\ (MainDevices = {} => ~keyDown' /\ ~Shut')
  BY DEF FollowInv, OneMainDevice
<1>3. OthersAreIdle'
  BY DEF FollowInv, OthersAreIdle
<1>4. \A e \in MainDevices : ReaderAgrees(e)'
  BY <1>2 DEF OneMainDevice
<1>5. QED
  BY <1>1, <1>2, <1>3, <1>4 DEF FollowInv

(* What the reader of the main key does, event by event and handler by      *)
(* handler.                                                                 *)
LEMMA MainFollows ==
  ASSUME FollowInv, NEW d \in MainDevices, Key(d) \/ Handler(d), [Next]_vars
  PROVE  FollowInv'
<1>1. /\ d \in Devices /\ ReaderAgrees(d) /\ KeyType /\ GateType
      /\ pending = TRUE => started = FALSE
  BY PressesAssumption, FlagsExclude DEF FollowInv, GateInv
<1> USE <1>1 DEF KeyType, GateType, Goto, keyVars, gateVars
<1>2. \A e \in Devices : e # d => held'[e] = held[e] /\ at'[e] = at[e]
  BY DEF Key, Handler, PressMain, ReleaseMain, PressModifier, ReleaseModifier,
         Unplug, OnPress, Arm, OnRelease, ApplyStop
<1>3. ReaderAgrees(d)'
  <2> USE DEF ReaderAgrees, Shut
  <2>1. CASE PressMain(d)
    BY <2>1 DEF PressMain
  <2>2. CASE ReleaseMain(d)
    BY <2>2 DEF ReleaseMain
  <2>3. CASE \E code \in Modifiers : PressModifier(d, code) \/ ReleaseModifier(d, code)
    BY <2>3 DEF PressModifier, ReleaseModifier
  <2>4. CASE Unplug(d)
    BY <2>4 DEF Unplug
  <2>5. CASE OnPress(d)
    BY <2>5 DEF OnPress
  <2>6. CASE Arm(d)
    BY <2>6 DEF Arm
  <2>7. CASE OnRelease(d)
    BY <2>7 DEF OnRelease
  <2>8. CASE ApplyStop(d)
    BY <2>8 DEF ApplyStop
  <2>9. QED
    BY <2>1, <2>2, <2>3, <2>4, <2>5, <2>6, <2>7, <2>8 DEF Key, Handler
<1>4. QED
  BY <1>2, <1>3, OneReaderMoves

(* The other keyboards have no main key: they add and remove modifiers and  *)
(* never reach the gate.                                                    *)
LEMMA OthersFollow ==
  ASSUME FollowInv, NEW d \in Devices \ MainDevices, Key(d) \/ Handler(d), [Next]_vars
  PROVE  FollowInv'
<1>1. Main \notin held[d] /\ at[d] \in {"read", "off"} /\ KeyType
  BY DEF FollowInv, OthersAreIdle
<1>2. /\ UNCHANGED <<keyDown, pending, started>>
      /\ \A e \in Devices : e # d => held'[e] = held[e] /\ at'[e] = at[e]
      /\ Main \notin held'[d] /\ at'[d] \in {"read", "off"}
  BY <1>1, KeycodesAssumption
  DEF Key, Handler, PressMain, ReleaseMain, PressModifier, ReleaseModifier,
      Unplug, OnPress, Arm, OnRelease, ApplyStop, KeyType, Goto, keyVars, gateVars
<1>3. GateInv' /\ KeyType' /\ OneMainDevice'
  BY StepGate, StepKeyType DEF FollowInv, OneMainDevice
<1>4. OthersAreIdle'
  BY <1>2 DEF FollowInv, OthersAreIdle
<1>5. \A e \in MainDevices : ReaderAgrees(e)'
  <2>1. \A e \in MainDevices : at'[e] = at[e]
    BY <1>2, PressesAssumption
  <2>2. QED
    BY <1>2, <2>1 DEF FollowInv, ReaderAgrees, Shut
<1>6. MainDevices = {} => ~keyDown' /\ ~Shut'
  BY <1>2 DEF FollowInv, Shut
<1>7. QED
  BY <1>3, <1>4, <1>5, <1>6 DEF FollowInv

(* A timer turns a pending press into a started one or does nothing, so it  *)
(* does not open or shut the gate.                                          *)
LEMMA TimersFollow ==
  ASSUME FollowInv, [Next]_vars, UNCHANGED <<keyDown, held, at>>,
         Shut' = Shut
  PROVE  FollowInv'
<1>1. GateInv' /\ KeyType' /\ OneMainDevice'
  BY StepGate, StepKeyType DEF FollowInv, OneMainDevice
<1>2. OthersAreIdle'
  BY DEF FollowInv, OthersAreIdle
<1>3. \A e \in MainDevices : ReaderAgrees(e)'
  BY DEF FollowInv, ReaderAgrees
<1>4. MainDevices = {} => ~keyDown' /\ ~Shut'
  BY DEF FollowInv
<1>5. QED
  BY <1>1, <1>2, <1>3, <1>4 DEF FollowInv

LEMMA StepFollow == FollowInv /\ [Next]_vars => FollowInv'
<1> SUFFICES ASSUME FollowInv, [Next]_vars
             PROVE  FollowInv'
  OBVIOUS
<1>1. ASSUME NEW d \in Devices, Key(d) \/ Handler(d)
      PROVE  FollowInv'
  BY <1>1, MainFollows, OthersFollow
<1>2. ASSUME NEW n \in Presses, HoldTimer(n)
      PROVE  FollowInv'
  <2>1. /\ UNCHANGED <<keyDown, held, at>>
    BY <1>2 DEF HoldTimer, HoldElapses, Callback, DispatchStart, keyVars
  <2>2. Shut' = Shut
    BY <1>2 DEF HoldTimer, HoldElapses, Callback, DispatchStart, Shut, gateVars
  <2>3. QED
    BY <2>1, <2>2, TimersFollow
<1>3. CASE CycleReports \/ UNCHANGED vars
  <2>1. UNCHANGED <<keyDown, held, at, pending, started>>
    BY <1>3 DEF CycleReports, vars, keyVars, gateVars
  <2>2. QED
    BY <2>1, TimersFollow DEF Shut
<1>4. QED
  BY <1>1, <1>2, <1>3 DEF Next

(* With one keyboard that has the main key, whatever the other keyboards,   *)
(* the timers and the late callbacks do: with nothing in flight the gate is *)
(* shut exactly while the chord is held.  With two such keyboards it is     *)
(* not: a second reader can release between the first one's edge and its    *)
(* handler.                                                                 *)
THEOREM GateShutsWithTheKey == OneMainDevice /\ Spec => []GateFollowsKey
<1>1. FollowInv => GateFollowsKey
  <2>1. SUFFICES ASSUME FollowInv, \A d \in Devices : at[d] \in {"read", "off"}
                 PROVE  keyDown <=> Shut
    BY DEF GateFollowsKey, Settled, Shut
  <2>2. CASE MainDevices = {}
    BY <2>1, <2>2 DEF FollowInv
  <2>3. ASSUME NEW d \in MainDevices
        PROVE  keyDown <=> Shut
    BY <2>1, <2>3, PressesAssumption DEF FollowInv, ReaderAgrees
  <2>4. QED
    BY <2>2, <2>3
<1>2. QED
  BY InitFollow, StepFollow, <1>1, PTL DEF Spec

-----------------------------------------------------------------------------
(* The whole of the types.                                                  *)
LEMMA MachineStaysTyped ==
  ASSUME NEW s \in States, NEW e \in Events
  PROVE  Transition(s, e).state \in States
<1> USE DEF States, Events, Accept, Busy, Transition
<1>1. CASE s \in {"idle", "error"}
  <2>1. Table[s] = FromRest
    BY <1>1 DEF Table
  <2>2. QED
    BY <1>1, <2>1 DEF FromRest
<1>2. CASE s = "recording"
  <2>1. Table[s] = FromRecording
    BY <1>2 DEF Table
  <2>2. QED
    BY <1>2, <2>1 DEF FromRecording
<1>3. CASE s = "transcribing"
  <2>1. Table[s] = FromTranscribing
    BY <1>3 DEF Table
  <2>2. QED
    BY <1>3, <2>1 DEF FromTranscribing
<1>4. CASE s = "delivering"
  <2>1. Table[s] = FromDelivering
    BY <1>4 DEF Table
  <2>2. QED
    BY <1>4, <2>1 DEF FromDelivering
<1>5. CASE s = "shutting_down"
  <2>1. Table[s] = FromShuttingDown
    BY <1>5 DEF Table
  <2>2. QED
    BY <1>5, <2>1 DEF FromShuttingDown
<1>6. QED
  BY <1>1, <1>2, <1>3, <1>4, <1>5

(* What neither the balance nor the keys speak of.                          *)
RestType ==
  /\ presses \in 0..MaxPresses
  /\ press \in [Devices -> 0..MaxPresses]
  /\ handle \in 0..MaxPresses
  /\ timer \in [Presses -> TimerSteps]
  /\ waiting \in 0..MaxPresses
  /\ state \in States

LEMMA TypeParts == TypeOK <=> GateType /\ HeldType /\ KeyType /\ RestType
  BY DEF TypeOK, GateType, HeldType, KeyType, RestType

LEMMA InitRest == Init => RestType /\ KeyType
<1> SUFFICES ASSUME Init
             PROVE  RestType /\ KeyType
  OBVIOUS
<1>1. 0 \in 0..MaxPresses
  BY PressesAssumption
<1>2. RestType
  BY <1>1 DEF Init, RestType, TimerSteps, States
<1>3. KeyType
  BY DEF Init, KeyType, ReaderSteps
<1>4. QED
  BY <1>2, <1>3

LEMMA StepRest == RestType /\ [Next]_vars => RestType'
<1> SUFFICES ASSUME RestType, [Next]_vars
             PROVE  RestType'
  OBVIOUS
<1>0. \A n \in 0..MaxPresses : n < MaxPresses => n + 1 \in 0..MaxPresses
  BY PressesAssumption
<1> USE PressesAssumption DEF RestType, TimerSteps, Goto, SetTimer, keyVars, gateVars
<1>1. ASSUME NEW d \in Devices, Key(d)
      PROVE  RestType'
  <2>1. CASE PressMain(d)
    BY <1>0, <2>1 DEF PressMain
  <2>2. CASE ReleaseMain(d)
    BY <2>2 DEF ReleaseMain
  <2>3. ASSUME NEW code \in Modifiers, PressModifier(d, code) \/ ReleaseModifier(d, code)
        PROVE  RestType'
    BY <2>3 DEF PressModifier, ReleaseModifier
  <2>4. CASE Unplug(d)
    BY <2>4 DEF Unplug
  <2>5. QED
    BY <1>1, <2>1, <2>2, <2>3, <2>4 DEF Key
<1>2. ASSUME NEW d \in Devices, Handler(d)
      PROVE  RestType'
  <2>1. CASE OnPress(d)
    BY <2>1 DEF OnPress
  <2>2. CASE Arm(d)
    <3>1. press[d] \in 0..MaxPresses /\ 0 \in 0..MaxPresses
      OBVIOUS
    <3>2. timer' \in [Presses -> TimerSteps]
      BY <2>2 DEF Arm
    <3>3. press' \in [Devices -> 0..MaxPresses] /\ handle' \in 0..MaxPresses
      BY <2>2, <3>1 DEF Arm
    <3>4. QED
      BY <2>2, <3>2, <3>3 DEF Arm
  <2>3. CASE OnRelease(d)
    BY <2>3 DEF OnRelease, StopTimer
  <2>4. CASE ApplyStop(d)
    BY <2>4, MachineStaysTyped DEF ApplyStop, Apply, Events
  <2>5. QED
    BY <1>2, <2>1, <2>2, <2>3, <2>4 DEF Handler
<1>3. ASSUME NEW n \in Presses, HoldTimer(n)
      PROVE  RestType'
  <2>1. CASE HoldElapses(n)
    BY <2>1 DEF HoldElapses
  <2>2. CASE Callback(n)
    BY <2>2 DEF Callback
  <2>3. CASE DispatchStart(n)
    BY <2>3, MachineStaysTyped DEF DispatchStart, Apply, Events
  <2>4. QED
    BY <1>3, <2>1, <2>2, <2>3 DEF HoldTimer
<1>4. CASE CycleReports
  BY <1>4, MachineStaysTyped DEF CycleReports, Apply, Events
<1>5. CASE UNCHANGED vars
  BY <1>5 DEF vars
<1>6. QED
  BY <1>1, <1>2, <1>3, <1>4, <1>5 DEF Next

(* Every flag, number, timer and state keeps its type, for any keyboards    *)
(* and any number of presses (hold_gate.go:28-33, evdev_linux.go:156-170).  *)
THEOREM TypeCorrect == Spec => []TypeOK
<1>1. GateInv /\ BelievedInv /\ KeyType /\ RestType => TypeOK
  BY TypeParts DEF GateInv, BelievedInv
<1>2. QED
  BY InitGate, InitBelieved, InitRest, StepGate, StepBelieved, StepKeyType, StepRest,
     <1>1, PTL DEF Spec
=============================================================================
