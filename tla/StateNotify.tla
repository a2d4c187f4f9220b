----------------------------- MODULE StateNotify -----------------------------
(***************************************************************************)
(* How a state of the dictation machine becomes visible.  Machine.Apply     *)
(* calls its listener after it has unlocked; the listener tells systemd and *)
(* drops the state into a channel, the tray relays it into its own channel  *)
(* and its loop draws the icon.  A full channel drops the state.  A desk is *)
(* the whole of it for one daemon.                                          *)
(***************************************************************************)
EXTENDS VoiceMachine, Naturals, Sequences

CONSTANT Buffer   \* capacity of notifyCh and of stateIn

ASSUME BufferAssumption == Buffer \in Nat \ {0}

(* "shutdown" is the goroutine that calls Shutdown.                         *)
Notifiers == {"caller", "cycle", "shutdown"}
Calls == [by : Notifiers, st : States, step : {"status", "send"}]

(* burst is an observer: the states entered since the last moment at which  *)
(* nothing was on its way.                                                  *)
DeskType(d) ==
  /\ d.machine \in States /\ d.status \in States /\ d.icon \in States
  /\ d.calls \subseteq Calls
  /\ d.notifyCh \in Seq(States) /\ Len(d.notifyCh) <= Buffer
  /\ d.stateIn \in Seq(States) /\ Len(d.stateIn) <= Buffer
  /\ d.burst \subseteq States

NewDesk ==
  [machine |-> "idle", status |-> "idle", icon |-> "idle", calls |-> {},
   notifyCh |-> <<>>, stateIn |-> <<>>, burst |-> {"idle"}]

Quiet(d) == d.calls = {} /\ d.notifyCh = <<>> /\ d.stateIn = <<>>

(* Apply: the state is set, the listener is about to run.                   *)
Applied(d, n, s) ==
  [d EXCEPT !.machine = s,
            !.calls = @ \cup {[by |-> n, st |-> s, step |-> "status"]},
            !.burst = IF Quiet(d) THEN {s} ELSE @ \cup {s}]

TellSystemd(d, c) ==
  [d EXCEPT !.status = c.st,
            !.calls = (@ \ {c}) \cup {[c EXCEPT !.step = "send"]}]

Offer(ch, s) == IF Len(ch) < Buffer THEN Append(ch, s) ELSE ch

SendToTray(d, c) ==
  [d EXCEPT !.calls = @ \ {c}, !.notifyCh = Offer(@, c.st)]

RelayState(d) ==
  [d EXCEPT !.notifyCh = Tail(@), !.stateIn = Offer(@, Head(d.notifyCh))]

(* Seeded fault: the tray goes through SetState's three names.              *)
ApplyStateByName(d) ==
  LET s == Head(d.stateIn)
  IN [d EXCEPT !.stateIn = Tail(@),
               !.icon = IF s \in {"recording", "transcribing"} THEN s ELSE "idle"]

ApplyState(d) == [d EXCEPT !.stateIn = Tail(@), !.icon = Head(d.stateIn)]

(* Stopping: its own status line, before the machine is told.               *)
TellStopping(d) == [d EXCEPT !.status = "shutting_down"]

=============================================================================
