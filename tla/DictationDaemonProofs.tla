----------------------- MODULE DictationDaemonProofs -----------------------
(***************************************************************************)
(* Proofs about DictationDaemon for any set of callers and any number of   *)
(* dictations.                                                             *)
(***************************************************************************)
EXTENDS DictationDaemon, SequenceTheorems, TLAPS

(* What the rest of the proofs needs of the table: it answers every event   *)
(* in every state, a rejection changes nothing, a recording is started      *)
(* exactly by leaving rest for "recording", and only the last report of a   *)
(* cycle brings a busy machine to rest.                                     *)
Resting(s) == s \in {"idle", "error"}
LastReports == {"empty_result", "deliver_done", "transcribe_failed",
                "record_failed"}

(* The table, event by event and state by state.                            *)
LEMMA TransitionFacts ==
  ASSUME NEW s \in States, NEW e \in Events
  PROVE  /\ Transition(s, e).err \in {"nil", "busy"}
         /\ Transition(s, e).state \in States
         /\ Transition(s, e).err = "busy" => Transition(s, e).state = s
         /\ Transition(s, e).action = "start_recording"
              <=> Resting(s) /\ Transition(s, e).state = "recording"
         /\ Resting(s) =>
              Transition(s, e).state \in {s, "recording", "shutting_down"}
         /\ Resting(Transition(s, e).state) => Resting(s) \/ e \in LastReports
<1> USE DEF States, Events, Accept, Busy, Resting, LastReports, Transition
<1>1. CASE s \in {"idle", "error"}
  <2>1. Table[s] = FromRest
    BY <1>1 DEF Table
  <2>2. QED
    BY <1>1, <2>1 DEF FromRest
<1>2. CASE s = "recording"
  <2>1. Table[s] = FromRecording
    BY <1>2 DEF Table
  <2>2. QED
    BY <1>2, <2>1 DEF FromRecording
<1>3. CASE s = "transcribing"
  <2>1. Table[s] = FromTranscribing
    BY <1>3 DEF Table
  <2>2. QED
    BY <1>3, <2>1 DEF FromTranscribing
<1>4. CASE s = "delivering"
  <2>1. Table[s] = FromDelivering
    BY <1>4 DEF Table
  <2>2. QED
    BY <1>4, <2>1 DEF FromDelivering
<1>5. CASE s = "shutting_down"
  <2>1. Table[s] = FromShuttingDown
    BY <1>5 DEF Table
  <2>2. QED
    BY <1>5, <2>1 DEF FromShuttingDown
<1>6. QED
  BY <1>1, <1>2, <1>3, <1>4, <1>5

-----------------------------------------------------------------------------
(* Applying an event keeps the machine well typed.                          *)
LEMMA ApplyType ==
  ASSUME state \in States, lastErr \in {"", "record", "cycle"},
         NEW e \in Events, Apply(e)
  PROVE  state' \in States /\ lastErr' \in {"", "record", "cycle"}
  BY TransitionFacts DEF Apply, Answer, Accepted

(* The same of ApplyWithError.                                              *)
LEMMA ApplyWithErrorType ==
  ASSUME state \in States, lastErr \in {"", "record", "cycle"},
         NEW e \in Events, NEW msg \in {"record", "cycle"},
         ApplyWithError(e, msg)
  PROVE  state' \in States /\ lastErr' \in {"", "record", "cycle"}
  BY TransitionFacts DEF ApplyWithError, Answer, Accepted

(* Session numbers, 0 for none, stay within their bound.                    *)
LEMMA SessionNumbers ==
  /\ 0 \in 0..MaxSessions
  /\ \A n \in 0..MaxSessions : n < MaxSessions => n + 1 \in 0..MaxSessions
  /\ \A n \in 0..MaxSessions : n \in Sessions \/ n = 0
  /\ \A c \in Sessions : c \in 0..MaxSessions /\ c # 0
  BY SessionsAssumption DEF Sessions

(* How the next session number compares with the ones given out so far.     *)
LEMMA SessionOrdering ==
  ASSUME session \in 0..MaxSessions
  PROVE  /\ session + 1 > session
         /\ session < MaxSessions => session + 1 \in Sessions
         /\ \A c \in Sessions : c <= c
         /\ \A c \in Sessions : c <= session => c <= session + 1
         /\ \A c \in Sessions : c > session + 1 => c > session
         /\ \A c \in Sessions : c > session => c # session
  BY SessionsAssumption DEF Sessions

(* What a sequence over a set holds is in the set.                          *)
LEMMA SeqElements ==
  ASSUME NEW S, NEW q \in Seq(S)
  PROVE  \A i \in DOMAIN q : q[i] \in S
  OBVIOUS

(* Appending adds one element and keeps the others where they were.         *)
LEMMA AppendElements ==
  ASSUME NEW S, NEW q \in Seq(S), NEW e \in S
  PROVE  \A i \in DOMAIN Append(q, e) :
            \/ Append(q, e)[i] = e
            \/ i \in DOMAIN q /\ Append(q, e)[i] = q[i]
  BY AppendProperties

(* NewDaemon leaves every variable well typed.                              *)
LEMMA InitType == Init => TypeOK
<1> SUFFICES ASSUME Init
             PROVE  TypeOK
  OBVIOUS
<1>1. delivered \in Seq(Sessions)
  <2>1. delivered = <<>>
    BY DEF Init
  <2>2. QED
    BY <2>1
<1>2. QED
  BY <1>1, SessionNumbers DEF Init, TypeOK, States, CallerSteps, CycleSteps, TimerSteps,
                    ShutSteps, Outcomes

(* A cycle that goes on to a phase or is returned to keeps the types of its *)
(* place and of the result.                                                 *)
PhaseMove(c) == \/ \E phase \in PipelineSteps : Proceeds(c, phase)
                \/ \E what \in Outcomes \ {"nothing"} : Returns(c, what)

LEMMA PhaseType ==
  ASSUME TypeOK, NEW c \in Sessions, PhaseMove(c)
  PROVE  /\ step' \in [Sessions -> CycleSteps]
         /\ returned' \in [to : 0..MaxSessions, what : Outcomes]
<1>1. ASSUME NEW phase \in PipelineSteps, Proceeds(c, phase)
      PROVE  /\ step' \in [Sessions -> CycleSteps]
             /\ returned' \in [to : 0..MaxSessions, what : Outcomes]
  BY <1>1 DEF TypeOK, Proceeds, StepTo, CycleSteps, LiveSteps
<1>2. ASSUME NEW what \in Outcomes \ {"nothing"}, Returns(c, what)
      PROVE  /\ step' \in [Sessions -> CycleSteps]
             /\ returned' \in [to : 0..MaxSessions, what : Outcomes]
  <2>1. what \in CycleSteps
    BY DEF Outcomes, CycleSteps, LiveSteps, ReportSteps
  <2>2. step' \in [Sessions -> CycleSteps]
    BY <1>2, <2>1 DEF TypeOK, Returns, StepTo
  <2>3. returned' \in [to : 0..MaxSessions, what : Outcomes]
    BY <1>2, SessionNumbers DEF Returns
  <2>4. QED
    BY <2>2, <2>3
<1>3. QED
  BY <1>1, <1>2 DEF PhaseMove

(* Every step of every goroutine keeps the types.                           *)
LEMMA StepType == TypeOK /\ [Next]_vars => TypeOK'
<1> SUFFICES ASSUME TypeOK, [Next]_vars
             PROVE  TypeOK'
  OBVIOUS
<1> USE SessionNumbers DEF TypeOK
<1> USE DEF Goto, StepTo, CancelRegisteredRecording
<1>1. ASSUME NEW h \in Callers, ReadState(h)
      PROVE  TypeOK'
  BY <1>1 DEF ReadState, CallerSteps
<1>2. ASSUME NEW h \in Callers, Debounce(h)
      PROVE  TypeOK'
  BY <1>2 DEF Debounce, CallerSteps
<1>3. ASSUME NEW h \in Callers, ApplyEvent(h, "toggle")
      PROVE  TypeOK'
  <2>1. state' \in States /\ lastErr' \in {"", "record", "cycle"}
    BY <1>3, ApplyType DEF ApplyEvent, Events
  <2>2. /\ at' \in [Callers -> CallerSteps]
        /\ mine' \in [Callers -> 0..MaxSessions]
        /\ session' \in 0..MaxSessions
    <3>1. CASE UNCHANGED <<session, mine>>
      BY <1>3, <3>1 DEF ApplyEvent, CallerSteps
    <3>2. CASE session < MaxSessions /\ session' = session + 1
      <4>1. session + 1 \in 0..MaxSessions
        BY <3>2
      <4>2. mine' \in {mine, [mine EXCEPT ![h] = session + 1]}
        BY <1>3 DEF ApplyEvent
      <4>3. at' \in [Callers -> CallerSteps]
        BY <1>3 DEF ApplyEvent, CallerSteps
      <4>4. QED
        BY <3>2, <4>1, <4>2, <4>3
    <3>3. QED
      BY <1>3, <3>1, <3>2 DEF ApplyEvent
  <2>3. QED
    BY <1>3, <2>1, <2>2 DEF ApplyEvent
<1>4. ASSUME NEW h \in Callers, StartCycle(h)
      PROVE  TypeOK'
  BY <1>4 DEF StartCycle, CallerSteps, CycleSteps, LiveSteps, PipelineSteps, TimerSteps
<1>5. ASSUME NEW h \in Callers, RefuseCycle(h)
      PROVE  TypeOK'
  BY <1>5 DEF RefuseCycle, CallerSteps
<1>6. ASSUME NEW h \in Callers, CancelRecording(h)
      PROVE  TypeOK'
  BY <1>6 DEF CancelRecording, CallerSteps
<1>7. ASSUME NEW c \in Sessions, TimerFires(c)
      PROVE  TypeOK'
  BY <1>7 DEF TimerFires, TimerSteps
<1>8. ASSUME NEW c \in Sessions, TimerApplies(c)
      PROVE  TypeOK'
  <2>1. state' \in States /\ lastErr' \in {"", "record", "cycle"}
    BY <1>8, ApplyType DEF TimerApplies, Events
  <2>2. QED
    BY <1>8, <2>1 DEF TimerApplies, TimerSteps
<1>9. ASSUME NEW c \in Sessions, TimerCancels(c)
      PROVE  TypeOK'
  BY <1>9 DEF TimerCancels, TimerSteps
<1>10. ASSUME NEW c \in Sessions, RecordEnds(c)
       PROVE  TypeOK'
  <2>1. PhaseMove(c)
    BY <1>10 DEF RecordEnds, PhaseMove, PipelineSteps, Outcomes
  <2>2. QED
    BY <1>10, <2>1, PhaseType DEF RecordEnds
<1>11. ASSUME NEW c \in Sessions, TranscribeEnds(c)
       PROVE  TypeOK'
  <2>1. PhaseMove(c)
    BY <1>11 DEF TranscribeEnds, PhaseMove, PipelineSteps, Outcomes
  <2>2. QED
    BY <1>11, <2>1, PhaseType DEF TranscribeEnds
<1>12. ASSUME NEW c \in Sessions, DeliverEnds(c)
       PROVE  TypeOK'
  <2>1. delivered' \in Seq(Sessions)
    <3>1. Append(delivered, c) \in Seq(Sessions)
      BY AppendProperties
    <3>2. delivered' \in {delivered, Append(delivered, c)}
      BY <1>12 DEF DeliverEnds
    <3>3. QED
      BY <3>1, <3>2
  <2>2. PhaseMove(c)
    BY <1>12 DEF DeliverEnds, PhaseMove, Outcomes
  <2>3. QED
    BY <1>12, <2>1, <2>2, PhaseType DEF DeliverEnds
<1>13. ASSUME NEW c \in Sessions, Bridge(c)
       PROVE  TypeOK'
  <2>1. state' \in States /\ lastErr' \in {"", "record", "cycle"}
    BY <1>13, ApplyType DEF Bridge, Events
  <2>2. QED
    BY <1>13, <2>1 DEF Bridge, CycleSteps, LiveSteps, ReportSteps
<1>14. ASSUME NEW c \in Sessions, ReportTranscribeDone(c)
       PROVE  TypeOK'
  <2>1. state' \in States /\ lastErr' \in {"", "record", "cycle"}
    BY <1>14, ApplyType DEF ReportTranscribeDone, Events
  <2>2. QED
    BY <1>14, <2>1 DEF ReportTranscribeDone, CycleSteps, LiveSteps, ReportSteps
<1>15. ASSUME NEW c \in Sessions, ReportDeliverDone(c)
       PROVE  TypeOK'
  <2>1. state' \in States /\ lastErr' \in {"", "record", "cycle"}
    BY <1>15, ApplyType DEF ReportDeliverDone, Events
  <2>2. QED
    BY <1>15, <2>1 DEF ReportDeliverDone, CycleSteps, LiveSteps
<1>16. ASSUME NEW c \in Sessions, ReportEmpty(c)
       PROVE  TypeOK'
  <2>1. state' \in States /\ lastErr' \in {"", "record", "cycle"}
    BY <1>16, ApplyType DEF ReportEmpty, Events
  <2>2. QED
    BY <1>16, <2>1 DEF ReportEmpty, CycleSteps, LiveSteps
<1>17. ASSUME NEW c \in Sessions, ReportFailure(c)
       PROVE  TypeOK'
  <2>1. state' \in States /\ lastErr' \in {"", "record", "cycle"}
    BY <1>17, ApplyWithErrorType DEF ReportFailure, Events
  <2>2. QED
    BY <1>17, <2>1 DEF ReportFailure, CycleSteps, LiveSteps
<1>18. ASSUME NEW c \in Sessions, Cleanup(c)
       PROVE  TypeOK'
  <2>1. registered' \in 0..MaxSessions
    BY <1>18 DEF Cleanup
  <2>2. /\ step' \in [Sessions -> CycleSteps]
        /\ timer' \in [Sessions -> TimerSteps]
    BY <1>18 DEF Cleanup, CycleSteps, TimerSteps
  <2>3. QED
    BY <1>18, <2>1, <2>2 DEF Cleanup
<1>19. CASE IntervalPasses
  BY <1>19 DEF IntervalPasses
<1>20. CASE Signal
  BY <1>20 DEF Signal, ShutSteps
<1>21. CASE ShutdownApplies
  <2>1. state' \in States /\ lastErr' \in {"", "record", "cycle"}
    BY <1>21, ApplyType DEF ShutdownApplies, Events
  <2>2. QED
    BY <1>21, <2>1 DEF ShutdownApplies, ShutSteps
<1>22. CASE ShutdownCancels
  BY <1>22 DEF ShutdownCancels, ShutSteps
<1>23. CASE ShutdownCloses
  BY <1>23 DEF ShutdownCloses, ShutSteps
<1>24. CASE UNCHANGED vars
  BY <1>24 DEF vars
<1>25. QED
  BY <1>1, <1>2, <1>3, <1>4, <1>5, <1>6, <1>7, <1>8, <1>9, <1>10, <1>11,
     <1>12, <1>13, <1>14, <1>15, <1>16, <1>17, <1>18, <1>19, <1>20, <1>21,
     <1>22, <1>23, <1>24
  DEF Next, Caller, Timer, Cycle, Shutdown

(* Every variable keeps its type.                                           *)
THEOREM TypeCorrect == Spec => []TypeOK
<1>1. QED
  BY InitType, StepType, PTL DEF Spec

-----------------------------------------------------------------------------
(* The inductive invariant.  OneCycle and NoForeignCompletion follow from   *)
(* it but are not inductive: that no second cycle starts rests on the       *)
(* registration, and that the machine waits for the current cycle's last    *)
(* report rests on where every caller and every cycle may be.               *)
IInv == TypeOK /\ Registration /\ SessionOrder

(* At the start nothing is registered, pending or delivered.                *)
LEMMA InitIInv == Init => IInv
<1> SUFFICES ASSUME Init
             PROVE  IInv
  OBVIOUS
<1>1. TypeOK
  BY InitType
<1>2. Registration
  BY SessionNumbers DEF Init, Registration, Live, LiveSteps, PipelineSteps, ReportSteps
<1>3. PendingStartIsCurrent
  BY DEF Init, PendingStartIsCurrent
<1>4. EngagedIsCurrent
  BY DEF Init, EngagedIsCurrent, Engaged, PipelineSteps, ReportSteps
<1>5. DeliveredIsPast
  <2>1. delivered = <<>>
    BY DEF Init
  <2>2. DOMAIN delivered = {}
    BY <2>1
  <2>3. QED
    BY <2>2 DEF DeliveredIsPast
<1>6. QED
  BY <1>1, <1>2, <1>3, <1>4, <1>5 DEF IInv, SessionOrder

(* Until its cleanup a cycle moves among live steps, and touches neither    *)
(* the registration nor the callers nor the count of sessions.              *)
Reports(c) == Bridge(c) \/ ReportTranscribeDone(c) \/ ReportDeliverDone(c)
              \/ ReportEmpty(c) \/ ReportFailure(c)
Works(c) == RecordEnds(c) \/ TranscribeEnds(c) \/ DeliverEnds(c)

AfterWork   == {"transcribe", "deliver"} \cup ReportSteps
AfterReport == ReportSteps \cup {"cleanup"}

LEMMA WorkMoves ==
  ASSUME NEW c \in Sessions, Works(c)
  PROVE  /\ step[c] \in PipelineSteps
         /\ \E w \in AfterWork : StepTo(c, w)
         /\ UNCHANGED <<registered, at, mine, session, state>>
<1> USE DEF AfterWork, PipelineSteps, ReportSteps, Returns, Proceeds
<1>1. CASE RecordEnds(c)
  BY <1>1 DEF RecordEnds
<1>2. CASE TranscribeEnds(c)
  BY <1>2 DEF TranscribeEnds
<1>3. CASE DeliverEnds(c)
  BY <1>3 DEF DeliverEnds
<1>4. QED
  BY <1>1, <1>2, <1>3 DEF Works

(* A report takes a cycle to another report or to its cleanup.              *)
LEMMA ReportMoves ==
  ASSUME NEW c \in Sessions, Reports(c)
  PROVE  /\ step[c] \in ReportSteps
         /\ \E w \in AfterReport : StepTo(c, w)
         /\ UNCHANGED <<registered, at, mine, session, delivered>>
<1> USE DEF AfterReport, ReportSteps
<1>1. CASE Bridge(c)
  BY <1>1 DEF Bridge
<1>2. CASE ReportTranscribeDone(c)
  BY <1>2 DEF ReportTranscribeDone
<1>3. CASE ReportDeliverDone(c)
  BY <1>3 DEF ReportDeliverDone
<1>4. CASE ReportEmpty(c)
  BY <1>4 DEF ReportEmpty
<1>5. CASE ReportFailure(c)
  BY <1>5 DEF ReportFailure
<1>6. QED
  BY <1>1, <1>2, <1>3, <1>4, <1>5 DEF Reports

(* The registration follows the goroutine: only startCycle and the deferred *)
(* cleanup change either.                                                   *)
LEMMA StepRegistration == IInv /\ [Next]_vars => Registration'
<1> SUFFICES ASSUME IInv, [Next]_vars
             PROVE  Registration'
  OBVIOUS
<1> USE SessionNumbers DEF IInv, TypeOK, Registration, Live
<1> USE DEF LiveSteps, PipelineSteps, ReportSteps, StepTo
<1>1. ASSUME NEW h \in Callers, StartCycle(h)
      PROVE  Registration'
  BY <1>1 DEF StartCycle, SessionOrder, PendingStartIsCurrent
<1>2. ASSUME NEW c \in Sessions, Cleanup(c)
      PROVE  Registration'
  <2>1. \A d \in Sessions : step[d] \in LiveSteps => d = c
    BY <1>2 DEF Cleanup
  <2>2. registered' = 0 /\ step' = [step EXCEPT ![c] = "gone"]
    BY <1>2 DEF Cleanup
  <2>3. QED
    BY <2>1, <2>2
<1>3. ASSUME NEW c \in Sessions, Works(c) \/ Reports(c)
      PROVE  Registration'
  <2>1. step[c] \in LiveSteps /\ registered' = registered
    BY <1>3, WorkMoves, ReportMoves
  <2>2. \E w \in LiveSteps : step' = [step EXCEPT ![c] = w]
    BY <1>3, WorkMoves, ReportMoves DEF AfterWork, AfterReport
  <2>3. QED
    BY <2>1, <2>2
<1>4. CASE UNCHANGED <<step, registered>>
  BY <1>4
<1>5. QED
  BY <1>1, <1>2, <1>3, <1>4
  DEF Next, vars, Caller, Timer, Cycle, Works, Reports, Shutdown, ReadState, Debounce, ApplyEvent,
      RefuseCycle, CancelRecording, TimerFires, TimerApplies, TimerCancels,
      IntervalPasses, Signal, ShutdownApplies, ShutdownCancels, ShutdownCloses

(* A step that starts no session and moves no cycle keeps the order, unless *)
(* it brings a busy machine to rest.                                        *)
LEMMA OrderKept ==
  ASSUME IInv, UNCHANGED <<session, step, delivered>>,
         Resting(state') => Resting(state),
         \A h \in Callers : at'[h] = "startCycle" =>
                               at[h] = "startCycle" /\ mine'[h] = mine[h]
  PROVE  SessionOrder'
<1> USE DEF IInv, SessionOrder, Resting
<1>1. PendingStartIsCurrent'
  BY DEF PendingStartIsCurrent
<1>2. EngagedIsCurrent'
  BY DEF EngagedIsCurrent, Engaged
<1>3. DeliveredIsPast'
  BY DEF DeliveredIsPast
<1>4. QED
  BY <1>1, <1>2, <1>3

(* Only a cycle's last report brings a busy machine to rest.                *)
LEMMA ApplyKeepsBusy ==
  ASSUME TypeOK, NEW e \in Events \ LastReports, Apply(e)
  PROVE  Resting(state') => Resting(state)
  BY TransitionFacts DEF TypeOK, Apply, Answer

(* What a caller does keeps the order of sessions: it is the only one that  *)
(* starts one, and it does so while no cycle has anything left to report.   *)
LEMMA CallerOrder ==
  ASSUME IInv, NEW h \in Callers, Caller(h)
  PROVE  SessionOrder'
<1> USE DEF IInv, TypeOK, Goto
<1>1. CASE ReadState(h) \/ Debounce(h) \/ RefuseCycle(h) \/ CancelRecording(h)
  BY <1>1, OrderKept DEF ReadState, Debounce, RefuseCycle, CancelRecording
<1>2. CASE ApplyEvent(h, "toggle")
  <2>1. /\ Apply("toggle") /\ UNCHANGED <<step, delivered>>
    BY <1>2 DEF ApplyEvent
  <2>2. CASE Answer("toggle").action # "start_recording"
    <3>1. /\ UNCHANGED <<session, mine>>
          /\ at' = [at EXCEPT ![h] = "ready"] \/ at' = [at EXCEPT ![h] = "cancelRecording"]
      BY <1>2, <2>2 DEF ApplyEvent
    <3>2. Resting(state') => Resting(state)
      BY <2>1, ApplyKeepsBusy DEF Events, LastReports
    <3>3. QED
      BY <2>1, <3>1, <3>2, OrderKept
  <2>3. CASE Answer("toggle").action = "start_recording"
    <3>1. Resting(state) /\ state' = "recording"
      <4>1. state \in States /\ "toggle" \in Events
        BY DEF Events
      <4>2. Resting(state) /\ Answer("toggle").state = "recording"
        BY <4>1, <2>3, TransitionFacts DEF Answer
      <4>3. QED
        BY <2>1, <4>2 DEF Apply
    <3>2. /\ session < MaxSessions
          /\ session' = session + 1
          /\ mine' = [mine EXCEPT ![h] = session + 1]
          /\ at' = [at EXCEPT ![h] = "startCycle"]
      BY <1>2, <2>3 DEF ApplyEvent
    <3>3. session + 1 \in Sessions /\ session + 1 > session
      BY <3>2, SessionOrdering
    <3>4. /\ \A g \in Callers : at[g] # "startCycle"
          /\ \A c \in Sessions : ~Engaged(c) /\ (c > session => step[c] = "none")
      BY <3>1 DEF SessionOrder, PendingStartIsCurrent, EngagedIsCurrent, Resting
    <3>5. PendingStartIsCurrent'
      BY <2>1, <3>1, <3>2, <3>3, <3>4 DEF PendingStartIsCurrent
    <3>6. EngagedIsCurrent'
      <4>1. \A c \in Sessions : c > session + 1 => c > session
        BY SessionOrdering
      <4>2. QED
        BY <2>1, <3>2, <3>4, <4>1 DEF EngagedIsCurrent, Engaged
    <3>7. DeliveredIsPast'
      <4>1. \A i \in DOMAIN delivered : delivered[i] \in Sessions
        BY SeqElements
      <4>2. \A c \in Sessions : c <= session => c <= session + 1
        BY SessionOrdering
      <4>3. QED
        BY <2>1, <3>2, <4>1, <4>2 DEF SessionOrder, DeliveredIsPast
    <3>8. QED
      BY <3>5, <3>6, <3>7 DEF SessionOrder
  <2>4. QED
    BY <2>2, <2>3
<1>3. CASE StartCycle(h)
  <2>1. /\ mine[h] = session /\ session \in Sessions /\ step[session] = "none"
        /\ \A g \in Callers : at[g] = "startCycle" => g = h
        /\ ~Resting(state)
    BY <1>3 DEF StartCycle, SessionOrder, PendingStartIsCurrent, Resting
  <2>2. /\ step' = [step EXCEPT ![session] = "record"]
        /\ at' = [at EXCEPT ![h] = "ready"]
        /\ UNCHANGED <<state, session, delivered>>
    BY <1>3, <2>1 DEF StartCycle
  <2>3. PendingStartIsCurrent'
    BY <2>1, <2>2 DEF PendingStartIsCurrent
  <2>4. EngagedIsCurrent'
    <3>1. \A c \in Sessions : c > session => c # session
      BY SessionOrdering
    <3>2. QED
      BY <2>1, <2>2, <3>1
      DEF SessionOrder, EngagedIsCurrent, Engaged, Resting
  <2>5. DeliveredIsPast'
    <3>1. \A i \in DOMAIN delivered : delivered[i] # session
      BY <2>1 DEF SessionOrder, DeliveredIsPast
    <3>2. \A i \in DOMAIN delivered : delivered[i] \in Sessions
      BY SeqElements
    <3>3. QED
      BY <2>2, <3>1, <3>2 DEF SessionOrder, DeliveredIsPast
  <2>6. QED
    BY <2>3, <2>4, <2>5 DEF SessionOrder
<1>4. QED
  BY <1>1, <1>2, <1>3 DEF Caller

(* What a cycle does keeps the order of sessions: the machine rests again   *)
(* only when the current cycle has made its last report.                    *)
LEMMA CycleOrder ==
  ASSUME IInv, NEW c \in Sessions, Cycle(c)
  PROVE  SessionOrder'
<1> USE DEF IInv, TypeOK, StepTo
<1>1. CASE Works(c) \/ Reports(c)
  <2>1. /\ Engaged(c) /\ UNCHANGED <<at, mine, session>>
        /\ \E w \in {"transcribe", "deliver", "cleanup"} \cup ReportSteps :
              step' = [step EXCEPT ![c] = w]
    BY <1>1, WorkMoves, ReportMoves DEF AfterWork, AfterReport, Engaged
  <2>2. c = session /\ ~Resting(state) /\ \A h \in Callers : at[h] # "startCycle"
    BY <2>1 DEF SessionOrder, EngagedIsCurrent, PendingStartIsCurrent, Resting,
                Engaged, PipelineSteps, ReportSteps
  <2>3. PendingStartIsCurrent'
    BY <2>1, <2>2 DEF PendingStartIsCurrent
  <2>4. EngagedIsCurrent'
    <3>1. Engaged(c)' => ~Resting(state')
      <4>1. CASE Works(c)
        BY <4>1, <2>2, WorkMoves
      <4>2. CASE Bridge(c)
        BY <4>2, <2>2, ApplyKeepsBusy DEF Bridge, Events, LastReports
      <4>3. CASE ReportTranscribeDone(c)
        BY <4>3, <2>2, ApplyKeepsBusy DEF ReportTranscribeDone, Events, LastReports
      <4>4. CASE ReportDeliverDone(c) \/ ReportEmpty(c) \/ ReportFailure(c)
        BY <4>4 DEF ReportDeliverDone, ReportEmpty, ReportFailure, Engaged,
                    PipelineSteps, ReportSteps
      <4>5. QED
        BY <1>1, <4>1, <4>2, <4>3, <4>4 DEF Reports
    <3>2. \A d \in Sessions : d > session => d # c
      BY <2>2, SessionOrdering
    <3>3. \A d \in Sessions : d # c => ~Engaged(d)
      BY <2>2 DEF SessionOrder, EngagedIsCurrent
    <3>4. QED
      BY <2>1, <2>2, <3>1, <3>2, <3>3
      DEF SessionOrder, EngagedIsCurrent, Engaged, Resting
  <2>5. DeliveredIsPast'
    <3>1. CASE delivered' = delivered
      <4>1. \A i \in DOMAIN delivered : delivered[i] \in Sessions
        BY SeqElements
      <4>2. CASE step[c] = "record" \/ step[c] = "transcribe" \/ step[c] = "deliver"
        <5>1. \A i \in DOMAIN delivered : delivered[i] # c
          BY <4>2 DEF SessionOrder, DeliveredIsPast, PipelineSteps
        <5>2. QED
          BY <2>1, <3>1, <4>1, <5>1 DEF SessionOrder, DeliveredIsPast
      <4>3. CASE step[c] \in ReportSteps
        <5>1. step'[c] \notin {"none"} \cup PipelineSteps
          BY <1>1, <4>3, WorkMoves, ReportMoves DEF AfterReport, PipelineSteps, ReportSteps
        <5>2. QED
          BY <2>1, <3>1, <4>1, <5>1 DEF SessionOrder, DeliveredIsPast
      <4>4. QED
        BY <2>1, <4>2, <4>3 DEF Engaged, PipelineSteps
    <3>2. CASE delivered' # delivered
      <4>1. /\ step' = [step EXCEPT ![c] = "ok"] \/ step' = [step EXCEPT ![c] = "failed"]
            /\ delivered' = Append(delivered, c)
        BY <1>1, <3>2, ReportMoves
        DEF Works, RecordEnds, TranscribeEnds, DeliverEnds, Returns, Proceeds
      <4>2. \A i \in DOMAIN delivered' : delivered'[i] = c \/
              (i \in DOMAIN delivered /\ delivered'[i] = delivered[i])
        <5>1. \A i \in DOMAIN Append(delivered, c) :
                \/ Append(delivered, c)[i] = c
                \/ i \in DOMAIN delivered /\ Append(delivered, c)[i] = delivered[i]
          <6>1. delivered \in Seq(Sessions)
            OBVIOUS
          <6>2. QED
            BY ONLY <6>1, c \in Sessions, AppendElements
        <5>2. QED
          BY <4>1, <5>1
      <4>3. c <= session
        BY <2>2, SessionOrdering
      <4>4. \A i \in DOMAIN delivered : delivered[i] \in Sessions
        BY SeqElements
      <4>5. SUFFICES ASSUME NEW i \in DOMAIN delivered'
                     PROVE  /\ delivered'[i] <= session
                            /\ step'[delivered'[i]] \notin {"none"} \cup PipelineSteps
        BY <2>1 DEF DeliveredIsPast
      <4>6. CASE delivered'[i] = c
        BY <4>1, <4>3, <4>6 DEF PipelineSteps
      <4>7. CASE delivered'[i] # c
        <5>1. i \in DOMAIN delivered /\ delivered'[i] = delivered[i]
          BY <4>2, <4>7
        <5>2. QED
          BY <4>1, <4>4, <4>7, <5>1 DEF SessionOrder, DeliveredIsPast
      <4>8. QED
        BY <4>6, <4>7
    <3>3. QED
      BY <3>1, <3>2
  <2>6. QED
    BY <2>3, <2>4, <2>5 DEF SessionOrder
<1>2. CASE Cleanup(c)
  <2>1. /\ step[c] = "cleanup" /\ step' = [step EXCEPT ![c] = "gone"]
        /\ UNCHANGED <<state, at, mine, session, delivered>>
    BY <1>2 DEF Cleanup
  <2>2. PendingStartIsCurrent'
    BY <2>1 DEF SessionOrder, PendingStartIsCurrent
  <2>3. EngagedIsCurrent'
    BY <2>1 DEF SessionOrder, EngagedIsCurrent, Engaged, PipelineSteps, ReportSteps
  <2>4. DeliveredIsPast'
    <3>1. \A i \in DOMAIN delivered : delivered[i] \in Sessions
      BY SeqElements
    <3>2. QED
      BY <2>1, <3>1 DEF SessionOrder, DeliveredIsPast, PipelineSteps
  <2>5. QED
    BY <2>2, <2>3, <2>4 DEF SessionOrder
<1>3. QED
  BY <1>1, <1>2 DEF Cycle, Works, Reports

(* The invariant is inductive.                                              *)
LEMMA StepIInv == IInv /\ [Next]_vars => IInv'
<1> SUFFICES ASSUME IInv, [Next]_vars
             PROVE  IInv'
  OBVIOUS
<1>1. TypeOK' /\ Registration'
  BY StepType, StepRegistration DEF IInv
<1>2. SessionOrder'
  <2>1. ASSUME NEW h \in Callers, Caller(h)
        PROVE  SessionOrder'
    BY <2>1, CallerOrder
  <2>2. ASSUME NEW c \in Sessions, Cycle(c)
        PROVE  SessionOrder'
    BY <2>2, CycleOrder
  <2>3. ASSUME NEW c \in Sessions, Timer(c)
        PROVE  SessionOrder'
    <3>1. CASE TimerApplies(c)
      BY <3>1, ApplyKeepsBusy, OrderKept DEF TimerApplies, Events, LastReports, IInv
    <3>2. CASE TimerFires(c) \/ TimerCancels(c)
      BY <3>2, OrderKept DEF TimerFires, TimerCancels
    <3>3. QED
      BY <2>3, <3>1, <3>2 DEF Timer
  <2>4. CASE ShutdownApplies
    BY <2>4, ApplyKeepsBusy, OrderKept DEF ShutdownApplies, Events, LastReports, IInv
  <2>5. CASE IntervalPasses \/ Signal \/ ShutdownCancels \/ ShutdownCloses
             \/ UNCHANGED vars
    BY <2>5, OrderKept DEF IntervalPasses, Signal, ShutdownCancels, ShutdownCloses, vars
  <2>6. QED
    BY <2>1, <2>2, <2>3, <2>4, <2>5 DEF Next, Shutdown
<1>3. QED
  BY <1>1, <1>2 DEF IInv

(* The inductive invariant holds in every reachable state.                  *)
THEOREM Invariance == Spec => []IInv
  BY InitIInv, StepIInv, PTL DEF Spec

(* Never two cycles at once, for any callers and any number of sessions.    *)
THEOREM CyclesExclude == Spec => []OneCycle
<1>1. IInv => OneCycle
  BY DEF IInv, Registration, OneCycle
<1>2. QED
  BY <1>1, Invariance, PTL

(* The cancel functions startCycle registered are those of the one cycle    *)
(* that is alive, and nobody's when none is.                                *)
THEOREM RegistrationFollows == Spec => []Registration
  BY Invariance, PTL DEF IInv

(* A start that is pending and every event still to be reported belong to   *)
(* the current dictation.                                                   *)
THEOREM SessionsInOrder == Spec => []SessionOrder
  BY Invariance, PTL DEF IInv

(* A cycle's reports never move the machine in a later dictation.           *)
THEOREM ReportsStayHome == Spec => NoForeignCompletion
<1>1. IInv => [\A c \in Sessions :
                 step[c] \in ReportSteps /\ step'[c] # step[c] /\ state' # state
                   => c = session]_vars
  BY DEF IInv, SessionOrder, EngagedIsCurrent, Engaged
<1>2. QED
  BY <1>1, Invariance, PTL DEF NoForeignCompletion

-----------------------------------------------------------------------------
(* ErrorIsHonest.  The machine comes to rest only by a report of the        *)
(* current cycle, and what a cycle has left to report is what useCase.Cycle *)
(* returned to it: the strengthening says which report stands for what.     *)
Failures  == {"record_failed", "transcribe_failed"}

StandsFor(report) ==
  CASE report \in {"ok", "transcribe_done", "deliver_done"} -> "ok"
    [] report \in {"empty", "empty_result"}                 -> "empty"
    [] report \in {"failed", "transcribe_failed"}           -> "failed"
    [] OTHER                                                -> "record_failed"

Reached(c) == \E i \in DOMAIN delivered : delivered[i] = c

ReportsReturned ==
  \A c \in Sessions : step[c] \in ReportSteps =>
    /\ returned.to = c
    /\ returned.what = StandsFor(step[c])
    /\ returned.what = "ok" => Reached(c)

HonestInv == IInv /\ ReportsReturned /\ ErrorIsHonest

(* A failure that the machine was waiting for leads to "error", and nothing *)
(* else does.                                                               *)
LEMMA OnlyFailuresErr ==
  ASSUME NEW s \in States, NEW e \in Events, Transition(s, e).err = "nil"
  PROVE  /\ Transition(s, e).state = "error" => e \in Failures /\ s # "error"
         /\ e \in Failures => Transition(s, e).state = "error"
<1> USE DEF States, Events, Accept, Busy, Failures, Transition
<1>1. CASE s \in {"idle", "error"}
  <2>1. Table[s] = FromRest
    BY <1>1 DEF Table
  <2>2. QED
    BY <1>1, <2>1 DEF FromRest
<1>2. CASE s = "recording"
  <2>1. Table[s] = FromRecording
    BY <1>2 DEF Table
  <2>2. QED
    BY <1>2, <2>1 DEF FromRecording
<1>3. CASE s = "transcribing"
  <2>1. Table[s] = FromTranscribing
    BY <1>3 DEF Table
  <2>2. QED
    BY <1>3, <2>1 DEF FromTranscribing
<1>4. CASE s = "delivering"
  <2>1. Table[s] = FromDelivering
    BY <1>4 DEF Table
  <2>2. QED
    BY <1>4, <2>1 DEF FromDelivering
<1>5. CASE s = "shutting_down"
  <2>1. Table[s] = FromShuttingDown
    BY <1>5 DEF Table
  <2>2. QED
    BY <1>5, <2>1 DEF FromShuttingDown
<1>6. QED
  BY <1>1, <1>2, <1>3, <1>4, <1>5

MessageIffError == state = "error" <=> lastErr # ""

(* Apply never enters "error" by anything but a failure, and clears the     *)
(* message when it leaves.                                                  *)
LEMMA ApplyKeepsMessageHonest ==
  ASSUME TypeOK, MessageIffError, NEW e \in Events \ Failures, Apply(e)
  PROVE  MessageIffError' /\ (state' = "error" => state = "error")
<1>1. state \in States /\ e \in Events
  BY DEF TypeOK
<1>2. Answer(e).err = "nil" \/ (Answer(e).err = "busy" /\ Answer(e).state = state)
  BY <1>1, TransitionFacts DEF Answer
<1>3. CASE Answer(e).err = "nil"
  <2>1. Answer(e).state # "error"
    BY <1>1, <1>3, OnlyFailuresErr DEF Answer
  <2>2. QED
    BY <1>3, <2>1 DEF Apply, Accepted, MessageIffError
<1>4. CASE Answer(e).err = "busy" /\ Answer(e).state = state
  BY <1>4 DEF Apply, Accepted, MessageIffError
<1>5. QED
  BY <1>2, <1>3, <1>4

(* An event that is no cycle's last report leaves a machine at rest as it   *)
(* is, message included, or takes it out of rest.                           *)
LEMMA ApplyKeepsRest ==
  ASSUME TypeOK, MessageIffError, NEW e \in Events \ LastReports, Apply(e)
  PROVE  /\ MessageIffError'
         /\ Resting(state') => state' = state
         /\ state' = "error" => lastErr' = lastErr
<1>1. /\ state \in States /\ e \in Events
      /\ e \in Events \ Failures
  BY DEF TypeOK, LastReports, Failures
<1>2. MessageIffError'
  BY <1>1, ApplyKeepsMessageHonest
<1>3. Resting(state') => state' = state
  <2>1. Resting(state') => Resting(state)
    BY <1>1, ApplyKeepsBusy
  <2>2. Resting(state) => state' \in {state, "recording", "shutting_down"}
    BY <1>1, TransitionFacts DEF Apply, Answer
  <2>3. QED
    BY <2>1, <2>2 DEF Resting
<1>4. state' = "error" => lastErr' = lastErr
  <2>1. Accepted(e) => Answer(e).state # "error"
    BY <1>1, OnlyFailuresErr DEF Answer, Accepted
  <2>2. QED
    BY <2>1 DEF Apply
<1>5. QED
  BY <1>2, <1>3, <1>4

(* A failure leaves a busy machine busy, or leads to "error" with the       *)
(* message it brings.                                                       *)
LEMMA ApplyWithErrorHonest ==
  ASSUME TypeOK, MessageIffError, ~Resting(state), NEW e \in Failures,
         NEW msg \in {"record", "cycle"}, ApplyWithError(e, msg)
  PROVE  /\ MessageIffError'
         /\ state' # "idle"
         /\ state' = "error" => lastErr' = msg
<1>1. state \in States /\ e \in Events
  BY DEF TypeOK, Failures, Events
<1>2. Answer(e).err = "nil" \/ (Answer(e).err = "busy" /\ Answer(e).state = state)
  BY <1>1, TransitionFacts DEF Answer
<1>3. Answer(e).err = "nil" => Answer(e).state = "error"
  BY <1>1, OnlyFailuresErr DEF Answer
<1>4. QED
  BY <1>2, <1>3 DEF ApplyWithError, Accepted, MessageIffError, Resting

(* The steps of the goroutines that are no cycle's, startCycle apart.       *)
Around ==
  \/ \E h \in Callers : Caller(h) /\ ~StartCycle(h)
  \/ \E c \in Sessions : Timer(c)
  \/ IntervalPasses \/ Signal \/ Shutdown \/ UNCHANGED vars

(* They touch neither a cycle nor its result.                               *)
LEMMA AroundKeeps == Around => UNCHANGED <<step, delivered, returned>>
  BY DEF Around, vars, Caller, Timer, Shutdown, ReadState, Debounce, ApplyEvent,
      RefuseCycle, CancelRecording, TimerFires, TimerApplies, TimerCancels,
      IntervalPasses, Signal, ShutdownApplies, ShutdownCancels, ShutdownCloses

LEMMA NextSplit ==
  [Next]_vars => \/ Around
                 \/ \E h \in Callers : StartCycle(h)
                 \/ \E c \in Sessions : Works(c) \/ Reports(c) \/ Cleanup(c)
  BY DEF Next, Around, Cycle, Works, Reports

(* While a cycle works or reports, it is the current one, it alone does so, *)
(* and the machine is not at rest.                                          *)
LEMMA EngagedAlone ==
  ASSUME IInv, NEW c \in Sessions, Engaged(c)
  PROVE  /\ c = session /\ ~Resting(state)
         /\ \A d \in Sessions : d # c => ~Engaged(d)
  BY DEF IInv, SessionOrder, EngagedIsCurrent, Resting

(* What a phase leads to: the next phase, or a return whose result names    *)
(* the cycle, and a text that went out when the result says so.             *)
LEMMA WorkReturns ==
  ASSUME IInv, NEW c \in Sessions, Works(c)
  PROVE  /\ step'[c] \in ReportSteps =>
              /\ returned'.to = c
              /\ returned'.what = StandsFor(step'[c])
              /\ returned'.what = "ok" => Reached(c)'
         /\ \A d \in Sessions : d # c => step'[d] = step[d]
<1> USE DEF StepTo, Returns, Proceeds, ReportSteps, StandsFor
<1>1. step \in [Sessions -> CycleSteps] /\ delivered \in Seq(Sessions)
  BY DEF IInv, TypeOK
<1>2. CASE RecordEnds(c) \/ TranscribeEnds(c)
  BY <1>1, <1>2 DEF RecordEnds, TranscribeEnds
<1>3. CASE DeliverEnds(c)
  <2>1. CASE Returns(c, "ok") /\ delivered' = Append(delivered, c)
    <3>1. /\ Len(delivered) + 1 \in DOMAIN delivered'
          /\ delivered'[Len(delivered) + 1] = c
      BY <1>1, <2>1, AppendProperties
    <3>2. Reached(c)'
      BY <3>1 DEF Reached
    <3>3. QED
      BY <1>1, <2>1, <3>2
  <2>2. CASE Returns(c, "failed")
    BY <1>1, <2>2
  <2>3. QED
    BY <1>3, <2>1, <2>2 DEF DeliverEnds
<1>4. QED
  BY <1>2, <1>3 DEF Works

(* A report leads to one that stands for the same result, or to the end.    *)
LEMMA ReportStandsFor ==
  ASSUME IInv, NEW c \in Sessions, Reports(c)
  PROVE  /\ step'[c] \in ReportSteps => StandsFor(step'[c]) = StandsFor(step[c])
         /\ \A d \in Sessions : d # c => step'[d] = step[d]
         /\ UNCHANGED <<session, delivered, returned>>
<1> USE DEF StepTo, ReportSteps, StandsFor
<1>1. step \in [Sessions -> CycleSteps]
  BY DEF IInv, TypeOK
<1>2. CASE Bridge(c)
  BY <1>1, <1>2 DEF Bridge
<1>3. CASE ReportTranscribeDone(c)
  BY <1>1, <1>3 DEF ReportTranscribeDone
<1>4. CASE ReportDeliverDone(c) \/ ReportEmpty(c) \/ ReportFailure(c)
  BY <1>1, <1>4 DEF ReportDeliverDone, ReportEmpty, ReportFailure
<1>5. QED
  BY <1>2, <1>3, <1>4 DEF Reports

(* A cycle's reports keep standing for what was returned to it.             *)
LEMMA StepReturned == IInv /\ ReportsReturned /\ [Next]_vars => ReportsReturned'
<1> SUFFICES ASSUME IInv, ReportsReturned, [Next]_vars
             PROVE  ReportsReturned'
  OBVIOUS
<1>1. step \in [Sessions -> CycleSteps]
  BY DEF IInv, TypeOK
<1>2. CASE Around
  BY <1>2, AroundKeeps DEF ReportsReturned, Reached
<1>3. ASSUME NEW h \in Callers, StartCycle(h)
      PROVE  ReportsReturned'
  <2>1. /\ step' = [step EXCEPT ![mine[h]] = "record"]
        /\ UNCHANGED <<delivered, returned>>
    BY <1>3 DEF StartCycle
  <2>2. \A c \in Sessions : step'[c] \in ReportSteps => step'[c] = step[c]
    BY <1>1, <2>1 DEF ReportSteps
  <2>3. QED
    BY <2>1, <2>2 DEF ReportsReturned, Reached
<1>4. ASSUME NEW c \in Sessions, Works(c)
      PROVE  ReportsReturned'
  <2>1. \A d \in Sessions : d # c => step[d] \notin ReportSteps
    BY <1>4, WorkMoves, EngagedAlone DEF Engaged
  <2>2. QED
    BY <1>4, <2>1, WorkReturns DEF ReportsReturned
<1>5. ASSUME NEW c \in Sessions, Reports(c)
      PROVE  ReportsReturned'
  <2>1. step[c] \in ReportSteps
    BY <1>5, ReportMoves
  <2>2. QED
    BY <1>5, <2>1, ReportStandsFor DEF ReportsReturned, Reached
<1>6. ASSUME NEW c \in Sessions, Cleanup(c)
      PROVE  ReportsReturned'
  <2>1. step' = [step EXCEPT ![c] = "gone"] /\ UNCHANGED <<delivered, returned>>
    BY <1>6 DEF Cleanup, StepTo
  <2>2. \A d \in Sessions : step'[d] \in ReportSteps => step'[d] = step[d]
    BY <1>1, <2>1 DEF ReportSteps
  <2>3. QED
    BY <2>1, <2>2 DEF ReportsReturned, Reached
<1>7. QED
  BY NextSplit, <1>2, <1>3, <1>4, <1>5, <1>6

(* What ErrorIsHonest says of a machine at rest.                            *)
RestIsHonest ==
  /\ state \in {"idle", "error"} => returned.to = session
  /\ state = "error" =>
       returned.what = IF lastErr = "record" THEN "record_failed" ELSE "failed"
  /\ state = "idle" /\ session # 0 =>
       returned.what = "empty" \/ (returned.what = "ok" /\ Reached(session))

LEMMA HonestParts == ErrorIsHonest <=> MessageIffError /\ RestIsHonest
  BY DEF ErrorIsHonest, MessageIffError, RestIsHonest, Reached

(* The steps around the cycles keep ErrorIsHonest: they leave rest, or      *)
(* leave it alone.                                                          *)
LEMMA AroundHonest == HonestInv /\ Around => ErrorIsHonest'
<1> SUFFICES ASSUME HonestInv, Around
             PROVE  MessageIffError' /\ RestIsHonest'
  BY DEF ErrorIsHonest, MessageIffError, RestIsHonest, Reached
<1>1. TypeOK /\ MessageIffError /\ RestIsHonest
  BY HonestParts DEF HonestInv, IInv
<1>2. UNCHANGED <<delivered, returned>>
  BY AroundKeeps
<1>3. ASSUME NEW e \in Events \ LastReports, Apply(e), UNCHANGED session
      PROVE  MessageIffError' /\ RestIsHonest'
  BY <1>1, <1>2, <1>3, ApplyKeepsRest DEF RestIsHonest, Reached, Resting
<1>4. ASSUME NEW h \in Callers, ApplyEvent(h, "toggle")
      PROVE  MessageIffError' /\ RestIsHonest'
  <2>1. "toggle" \in Events \ LastReports /\ Apply("toggle")
    BY <1>4 DEF ApplyEvent, Events, LastReports
  <2>2. CASE Answer("toggle").action = "start_recording"
    <3>1. state \in States /\ "toggle" \in Events
      BY <1>1 DEF TypeOK, Events
    <3>2. Answer("toggle").state = "recording"
      BY <2>2, <3>1, TransitionFacts DEF Answer
    <3>3. state' = "recording"
      BY <2>1, <3>2 DEF Apply
    <3>4. QED
      BY <1>1, <2>1, <3>3, ApplyKeepsRest DEF RestIsHonest
  <2>3. CASE session' = session
    BY <1>3, <2>1, <2>3
  <2>4. QED
    BY <1>4, <2>2, <2>3 DEF ApplyEvent
<1>5. ASSUME NEW c \in Sessions, TimerApplies(c)
      PROVE  MessageIffError' /\ RestIsHonest'
  BY <1>3, <1>5 DEF TimerApplies, Events, LastReports
<1>6. CASE ShutdownApplies
  BY <1>3, <1>6 DEF ShutdownApplies, Events, LastReports
<1>7. CASE UNCHANGED <<state, lastErr, session>>
  BY <1>1, <1>2, <1>7 DEF MessageIffError, RestIsHonest, Reached
<1>8. QED
  BY <1>4, <1>5, <1>6, <1>7
  DEF Around, vars, Caller, Timer, Shutdown, ReadState, Debounce,
      RefuseCycle, CancelRecording, TimerFires, TimerCancels,
      IntervalPasses, Signal, ShutdownCancels, ShutdownCloses

(* A report keeps it: the last report of the current cycle is what brings   *)
(* the machine to rest, and it stands for what was returned.                *)
LEMMA ReportHonest ==
  ASSUME HonestInv, NEW c \in Sessions, Reports(c)
  PROVE  ErrorIsHonest'
<1> SUFFICES MessageIffError' /\ RestIsHonest'
  BY DEF ErrorIsHonest, MessageIffError, RestIsHonest, Reached
<1>1. /\ IInv /\ TypeOK /\ MessageIffError /\ ReportsReturned
  BY HonestParts DEF HonestInv, IInv
<1>2. /\ step[c] \in ReportSteps /\ Engaged(c)
      /\ UNCHANGED <<session, delivered, returned>>
  BY <1>1, ReportMoves, ReportStandsFor DEF Engaged
<1>3. c = session /\ c # 0 /\ ~Resting(state)
  BY <1>1, <1>2, EngagedAlone, SessionNumbers
<1>4. /\ returned.to = session /\ returned.what = StandsFor(step[c])
      /\ returned.what = "ok" => Reached(session)
  BY <1>1, <1>2, <1>3 DEF ReportsReturned
<1>5. CASE Bridge(c) \/ ReportTranscribeDone(c)
  <2>1. \E e \in Events \ LastReports : Apply(e)
    BY <1>5 DEF Bridge, ReportTranscribeDone, Events, LastReports
  <2>2. MessageIffError' /\ ~Resting(state')
    BY <1>1, <1>3, <2>1, ApplyKeepsRest
  <2>3. QED
    BY <2>2 DEF RestIsHonest, Resting
<1>6. CASE ReportDeliverDone(c) \/ ReportEmpty(c)
  <2>1. \E e \in Events \ Failures : Apply(e)
    BY <1>6 DEF ReportDeliverDone, ReportEmpty, Events, Failures
  <2>2. MessageIffError' /\ state' # "error"
    BY <1>1, <1>3, <2>1, ApplyKeepsMessageHonest DEF Resting
  <2>3. returned.what \in {"ok", "empty"}
    BY <1>4, <1>6 DEF ReportDeliverDone, ReportEmpty, StandsFor
  <2>4. returned'.to = session' /\ (returned'.what = "empty" \/
           (returned'.what = "ok" /\ Reached(session)'))
    BY <1>2, <1>4, <2>3 DEF Reached
  <2>5. QED
    BY <2>2, <2>4 DEF RestIsHonest
<1>7. CASE ReportFailure(c)
  <2>1. PICK e \in Failures, msg \in {"record", "cycle"} :
           /\ ApplyWithError(e, msg)
           /\ returned.what = IF msg = "record" THEN "record_failed" ELSE "failed"
    <3>1. CASE step[c] = "transcribe_failed"
      BY <1>4, <1>7, <3>1 DEF ReportFailure, Failures, StandsFor
    <3>2. CASE step[c] = "record_failed"
      BY <1>4, <1>7, <3>2 DEF ReportFailure, Failures, StandsFor
    <3>3. QED
      BY <1>7, <3>1, <3>2 DEF ReportFailure
  <2>2. /\ MessageIffError' /\ state' # "idle"
        /\ state' = "error" => lastErr' = msg
    BY <1>1, <1>3, <2>1, ApplyWithErrorHonest
  <2>3. QED
    BY <1>2, <1>4, <2>1, <2>2 DEF RestIsHonest
<1>8. QED
  BY <1>5, <1>6, <1>7 DEF Reports

(* ErrorIsHonest is kept: a cycle that works does so while the machine is   *)
(* not at rest, and its goroutine's cleanup changes nothing that is shown.  *)
LEMMA StepHonest == HonestInv /\ [Next]_vars => ErrorIsHonest'
<1> SUFFICES ASSUME HonestInv, [Next]_vars
             PROVE  ErrorIsHonest'
  OBVIOUS
<1>1. IInv /\ MessageIffError /\ RestIsHonest
  BY HonestParts DEF HonestInv
<1>2. ASSUME NEW c \in Sessions, Works(c)
      PROVE  ErrorIsHonest'
  <2>1. Engaged(c) /\ UNCHANGED <<state, lastErr>>
    BY <1>2, WorkMoves
    DEF Engaged, Works, RecordEnds, TranscribeEnds, DeliverEnds
  <2>2. ~Resting(state)
    BY <1>1, <2>1, EngagedAlone
  <2>3. MessageIffError' /\ RestIsHonest'
    BY <1>1, <2>1, <2>2 DEF MessageIffError, RestIsHonest, Resting
  <2>4. QED
    BY <2>3 DEF ErrorIsHonest, MessageIffError, RestIsHonest, Reached
<1>3. CASE UNCHANGED <<state, lastErr, session, delivered, returned>>
  <2>1. MessageIffError' /\ RestIsHonest'
    BY <1>1, <1>3 DEF MessageIffError, RestIsHonest, Reached
  <2>2. QED
    BY <2>1 DEF ErrorIsHonest, MessageIffError, RestIsHonest, Reached
<1>4. QED
  BY <1>2, <1>3, NextSplit, AroundHonest, ReportHonest DEF StartCycle, Cleanup

(* The machine is idle at the start, with no message and no dictation.      *)
LEMMA InitHonest == Init => HonestInv
<1> SUFFICES ASSUME Init
             PROVE  HonestInv
  OBVIOUS
<1>1. IInv
  BY InitIInv
<1>2. /\ state = "idle" /\ lastErr = "" /\ session = 0
      /\ returned.to = 0
      /\ \A c \in Sessions : step[c] = "none"
  BY DEF Init
<1>3. ReportsReturned
  BY <1>2 DEF ReportsReturned, ReportSteps
<1>4. ErrorIsHonest
  BY <1>2, Zenon DEF ErrorIsHonest
<1>5. QED
  BY <1>1, <1>3, <1>4 DEF HonestInv

(* What the machine shows at rest is what the last dictation's useCase.Cycle *)
(* returned: "error" with the message of the failed phase, or "idle" after a *)
(* delivered or an empty text.                                              *)
THEOREM ErrorTellsTheTruth == Spec => []ErrorIsHonest
<1>1. HonestInv /\ [Next]_vars => HonestInv'
  BY StepIInv, StepReturned, StepHonest DEF HonestInv
<1>2. HonestInv => ErrorIsHonest
  BY DEF HonestInv
<1>3. QED
  BY <1>1, <1>2, InitHonest, PTL DEF Spec

-----------------------------------------------------------------------------
(* The refinement.  The holder is the registered cycle and the stage is     *)
(* where that cycle is; a step of the daemon that moves neither, nor        *)
(* delivers, is a stutter of the contract.                                  *)
Mapped == <<registered, step, delivered>>

(* Unmoved goroutine, registration and output: the contract stutters.       *)
LEMMA Stutter == UNCHANGED Mapped => UNCHANGED Contract!contractVars
  BY DEF Mapped, Stage, Contract!contractVars

(* The stage of a registered cycle.                                         *)
LEMMA StageOf ==
  ASSUME NEW c \in Sessions, registered = c
  PROVE  /\ step[c] = "record" => Stage = "capture"
         /\ step[c] \in {"transcribe", "deliver"} => Stage = "process"
         /\ step[c] \notin {"record", "transcribe", "deliver"} => Stage = "finish"
<1>1. registered # 0
  BY SessionNumbers
<1>2. QED
  BY <1>1 DEF Stage

(* The same in the next state.                                              *)
LEMMA NextStageOf ==
  ASSUME NEW c \in Sessions, registered' = c
  PROVE  /\ step'[c] = "record" => Stage' = "capture"
         /\ step'[c] \in {"transcribe", "deliver"} => Stage' = "process"
         /\ step'[c] \notin {"record", "transcribe", "deliver"} => Stage' = "finish"
<1>1. registered' # 0
  BY SessionNumbers
<1>2. QED
  BY <1>1 DEF Stage

(* startCycle takes the free pipeline for the current session, which is     *)
(* later than everything delivered so far.                                  *)
LEMMA StartBegins ==
  ASSUME IInv, NEW h \in Callers, StartCycle(h)
  PROVE  \E s \in Sessions : Contract!Begin(s)
<1>1. /\ mine[h] = session /\ session \in Sessions /\ step[session] = "none"
  BY DEF StartCycle, IInv, SessionOrder, PendingStartIsCurrent
<1>2. /\ registered = 0 /\ registered' = session
      /\ step' = [step EXCEPT ![session] = "record"]
      /\ delivered' = delivered
  BY <1>1 DEF StartCycle
<1>3. Stage = "idle"
  BY <1>2 DEF Stage
<1>4. Stage' = "capture"
  <2>1. step'[session] = "record"
    BY <1>1, <1>2 DEF IInv, TypeOK
  <2>2. QED
    BY <1>1, <1>2, <2>1, NextStageOf
<1>5. \A i \in DOMAIN delivered : delivered[i] < session
  <2>1. delivered \in Seq(Sessions) /\ session \in 0..MaxSessions
    BY DEF IInv, TypeOK
  <2>2. \A i \in DOMAIN delivered : delivered[i] \in Sessions
    BY <2>1, SeqElements
  <2>3. SUFFICES ASSUME NEW i \in DOMAIN delivered
                 PROVE  delivered[i] < session
    OBVIOUS
  <2>4. delivered[i] <= session /\ delivered[i] # session
    BY <1>1 DEF IInv, SessionOrder, DeliveredIsPast
  <2>5. \A s, t \in Sessions : s <= t /\ s # t => s < t
    BY SessionsAssumption DEF Sessions
  <2>6. QED
    BY <1>1, <2>2, <2>4, <2>5
<1>6. QED
  BY <1>1, <1>2, <1>3, <1>4, <1>5 DEF Contract!Begin

(* The end of the recorder, of the transcriber and of the delivery are the  *)
(* contract's steps of the same name, or none when the text is on its way.  *)
LEMMA WorkImplements ==
  ASSUME IInv, NEW c \in Sessions, Works(c)
  PROVE  Contract!Next \/ UNCHANGED Contract!contractVars
<1>1. registered = c /\ registered' = c /\ step \in [Sessions -> CycleSteps]
  BY WorkMoves DEF IInv, TypeOK, Registration, Live, LiveSteps
<1> USE <1>1, StageOf, NextStageOf DEF ReportSteps, StepTo, Returns, Proceeds
<1>2. CASE RecordEnds(c)
  <2>1. /\ Stage = "capture" /\ delivered' = delivered
        /\ step'[c] \in {"record_failed", "failed", "transcribe"}
    BY <1>2 DEF RecordEnds
  <2>2. Stage' \in {"process", "finish"}
    BY <2>1
  <2>3. Contract!EndCapture
    BY <2>1, <2>2 DEF Contract!EndCapture
  <2>4. QED
    BY <2>3 DEF Contract!Next
<1>3. CASE TranscribeEnds(c)
  <2>1. /\ Stage = "process" /\ delivered' = delivered
        /\ step'[c] \in {"failed", "empty", "deliver"}
    BY <1>3 DEF TranscribeEnds
  <2>2. CASE step'[c] = "deliver"
    <3>1. Stage' = Stage
      BY <2>1, <2>2
    <3>2. QED
      BY <2>1, <3>1 DEF Contract!contractVars
  <2>3. CASE step'[c] \in {"failed", "empty"}
    <3>1. Stage' = "finish"
      BY <2>3
    <3>2. Contract!GiveUp
      BY <2>1, <3>1 DEF Contract!GiveUp
    <3>3. QED
      BY <3>2 DEF Contract!Next
  <2>4. QED
    BY <2>1, <2>2, <2>3
<1>4. CASE DeliverEnds(c)
  <2>1. /\ Stage = "process"
        /\ step'[c] \in {"ok", "failed"}
        /\ delivered' = Append(delivered, c) \/ delivered' = delivered
    BY <1>4 DEF DeliverEnds
  <2>2. Stage' = "finish"
    BY <2>1
  <2>3. Contract!Deliver \/ Contract!GiveUp
    BY <2>1, <2>2 DEF Contract!Deliver, Contract!GiveUp
  <2>4. QED
    BY <2>3 DEF Contract!Next
<1>5. QED
  BY <1>2, <1>3, <1>4 DEF Works

(* Reporting is part of the last stage; the deferred cleanup releases.      *)
LEMMA FinishImplements ==
  ASSUME IInv, NEW c \in Sessions, Reports(c) \/ Cleanup(c)
  PROVE  Contract!Next \/ UNCHANGED Contract!contractVars
<1>1. registered = c /\ step \in [Sessions -> CycleSteps]
  BY ReportMoves DEF IInv, TypeOK, Registration, Live, LiveSteps, Cleanup
<1>2. CASE Reports(c)
  <2>1. /\ step[c] \in ReportSteps /\ registered' = c /\ delivered' = delivered
        /\ step'[c] \in AfterReport
    BY <1>1, <1>2, ReportMoves DEF StepTo
  <2>2. Stage = "finish" /\ Stage' = "finish"
    BY <1>1, <2>1, StageOf, NextStageOf DEF AfterReport, ReportSteps
  <2>3. QED
    BY <1>1, <2>1, <2>2 DEF Contract!contractVars
<1>3. CASE Cleanup(c)
  <2>1. step[c] = "cleanup" /\ registered' = 0 /\ delivered' = delivered
    BY <1>3 DEF Cleanup
  <2>2. Stage = "finish"
    BY <1>1, <2>1, StageOf
  <2>3. Stage' = "idle"
    BY <2>1 DEF Stage
  <2>4. Contract!Release
    BY <2>1, <2>2, <2>3 DEF Contract!Release
  <2>5. QED
    BY <2>4 DEF Contract!Next
<1>4. QED
  BY <1>2, <1>3

(* Every step of the daemon is a step of the contract or a stutter.         *)
LEMMA StepImplements == IInv /\ [Next]_vars => [Contract!Next]_Contract!contractVars
<1> SUFFICES ASSUME IInv, [Next]_vars
             PROVE  Contract!Next \/ UNCHANGED Contract!contractVars
  OBVIOUS
<1>1. ASSUME NEW h \in Callers, StartCycle(h)
      PROVE  Contract!Next
  BY <1>1, StartBegins DEF Contract!Next, Contract!Sessions, Sessions
<1>2. ASSUME NEW c \in Sessions, Cycle(c)
      PROVE  Contract!Next \/ UNCHANGED Contract!contractVars
  BY <1>2, WorkImplements, FinishImplements DEF Cycle, Works, Reports
<1>3. CASE UNCHANGED <<registered, step, delivered>>
  BY <1>3, Stutter DEF Mapped
<1>4. QED
  BY <1>1, <1>2, <1>3
  DEF Next, vars, Caller, Timer, Shutdown, ReadState, Debounce, ApplyEvent,
      RefuseCycle, CancelRecording, TimerFires, TimerApplies, TimerCancels,
      IntervalPasses, Signal, ShutdownApplies, ShutdownCancels, ShutdownCloses

(* NewDaemon starts where the contract does.                                *)
LEMMA InitImplements == Init => Contract!Init
<1>1. Init => registered = 0 /\ delivered = <<>>
  BY DEF Init
<1>2. QED
  BY <1>1 DEF Contract!Init, Stage

(* The daemon, with its goroutines, locks and timers, does nothing that the *)
(* contract of dictation does not allow.                                    *)
THEOREM DaemonImplementsContract == Spec => ImplementsContract
<1>1. Spec => Contract!Init /\ [][Contract!Next]_Contract!contractVars
  BY InitImplements, StepImplements, Invariance, PTL DEF Spec
<1>2. QED
  BY <1>1 DEF ImplementsContract, Contract!Spec
=============================================================================
