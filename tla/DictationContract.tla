------------------------- MODULE DictationContract -------------------------
(***************************************************************************)
(* What dictation promises whoever presses the key, with nothing said of   *)
(* goroutines, contexts or timers.  Dictations are numbered in the order   *)
(* the user asked for them.  One dictation at a time holds the microphone  *)
(* and the pipeline behind it; it captures, then it turns what it captured *)
(* into text, and it delivers that text at most once.                      *)
(***************************************************************************)
EXTENDS Naturals, Sequences

CONSTANT MaxSessions        \* how many dictations the user asks for

Sessions == 1..MaxSessions

VARIABLES
  holder,      \* the dictation that holds the pipeline, 0 for none
  stage,       \* how far it is: "idle", "capture", "process" or "finish"
  delivered    \* the dictations whose text reached the user, in order

contractVars == <<holder, stage, delivered>>

Init ==
  /\ holder = 0
  /\ stage = "idle"
  /\ delivered = <<>>

(* A dictation may take the pipeline only when nobody has it, and never    *)
(* ahead of one that already delivered.                                    *)
Begin(s) ==
  /\ stage = "idle"
  /\ \A i \in DOMAIN delivered : delivered[i] < s
  /\ holder' = s
  /\ stage' = "capture"
  /\ UNCHANGED delivered

EndCapture ==
  /\ stage = "capture"
  /\ stage' \in {"process", "finish"}
  /\ UNCHANGED <<holder, delivered>>

Deliver ==
  /\ stage = "process"
  /\ stage' = "finish"
  /\ delivered' = Append(delivered, holder)
  /\ UNCHANGED holder

GiveUp ==
  /\ stage = "process"
  /\ stage' = "finish"
  /\ UNCHANGED <<holder, delivered>>

Release ==
  /\ stage = "finish"
  /\ holder' = 0
  /\ stage' = "idle"
  /\ UNCHANGED delivered

Next ==
  \/ \E s \in Sessions : Begin(s)
  \/ EndCapture
  \/ Deliver
  \/ GiveUp
  \/ Release

Spec == Init /\ [][Next]_contractVars
=============================================================================
