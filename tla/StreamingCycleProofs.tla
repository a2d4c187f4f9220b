------------------------- MODULE StreamingCycleProofs -------------------------
(***************************************************************************)
(* Proofs about StreamingCycle for any number of words and any capacity of  *)
(* the handler's channel: the recorder keeps its contract, the side channel *)
(* outlives the recorder, a dictation that returned left nothing behind,    *)
(* every word is delivered at most once and in order, and the end of the    *)
(* drain window costs one final at most.                                    *)
(***************************************************************************)
EXTENDS StreamingCycle, SequenceTheorems, TLAPS

Ended == {"none", "exited"}
Recording == {"begin", "grace", "record"}

-----------------------------------------------------------------------------
(* The inductive invariant, of the control alone: what was said, sent and   *)
(* kept plays no part in it.                                                *)

ControlType ==
  /\ rec \in RecSteps /\ recChild \in ChildStates /\ file \in FileStates
  /\ reason \in {"natural", "graceful", "forced"}
  /\ cyc \in CycleSteps /\ pcm \in ChildStates /\ outcome \in Outcomes
  /\ streamer \in StreamerSteps

(* The child is alive only while RecordToFile waits for it, and the file    *)
(* is there until RecordToFile fails.                                       *)
RecorderFollows ==
  /\ recChild = "running" => rec = "waiting"
  /\ recChild = "finishing" => rec \in {"waiting", "signalled"}
  /\ rec \in {"waiting", "signalled", "killed", "checking"} => file # "none"
  /\ recChild = "exited" => file \in {"none", "whole"} \/ recErr
  /\ rec \in {"checking", "ok"} /\ recErr => reason = "graceful"
  /\ rec = "idle" => recChild = "none" /\ file = "none"
  /\ rec \in {"waiting", "signalled", "killed", "checking"} => recChild # "none"

(* The recorder has returned when Cycle goes on.                            *)
CycleFollows ==
  /\ cyc \in {"begin", "grace"} => rec = "idle"
  /\ cyc \notin Recording => rec \in {"ok", "failed"}
  /\ cyc = "tail" => rec = "ok"
  /\ outcome = "record" => rec = "failed"

(* The side channel and its streamer start together; neither is awaited     *)
(* where there is none.                                                     *)
StreamFollows ==
  /\ cyc = "begin" => ~streaming
  /\ cyc \in {"tail", "closing"} => streaming
  /\ streaming => streamer # "none"
  /\ ~streaming => pcm = "none"
  /\ ~streaming /\ cyc \in Recording => streamer = "none"
  /\ streamer = "none" => cyc \in Recording \cup {"cleanup", "done"} /\ pcm = "none"
  /\ pcmStopped => ctxDone \/ cyc \notin Recording \cup {"tail"}
  /\ cyc \in {"awaiting", "deliver", "cleanup"} => pcm \in Ended
  /\ cyc \in {"deliver", "cleanup"} => streamer \in {"none", "returned"}

ControlInv ==
  /\ ControlType /\ RecorderFollows /\ CycleFollows /\ StreamFollows
  /\ RecorderContract /\ CleanReturn

controlVars == <<rec, recChild, recErr, reason, file, streamer, cyc, streaming,
                 pcm, pcmStopped, ctxDone, outcome>>

-----------------------------------------------------------------------------

LEMMA InitControl == Init => ControlInv
BY DEF Init, RecorderInit, SessionInit, ControlInv, ControlType, RecorderFollows,
       CycleFollows, StreamFollows, RecorderContract, CleanReturn, RecSteps,
       ChildStates, FileStates, CycleSteps, Outcomes, StreamerSteps, Recording, Ended

LEMMA ControlUntouched ==
  ASSUME ControlInv, UNCHANGED controlVars
  PROVE  ControlInv'
BY DEF ControlInv, ControlType, RecorderFollows, CycleFollows, StreamFollows,
       RecorderContract, CleanReturn, controlVars

(* The recorder and its child: RecordToFile up to its end.                  *)
LEMMA RecorderKeeps ==
  ASSUME ControlInv, BeginRecording \/ StopRecorder \/ RecorderRuns \/ RecorderExits
  PROVE  ControlInv'
<1> USE DEF ControlInv, ControlType, RecorderFollows, CycleFollows, StreamFollows,
            RecorderContract, CleanReturn, RecSteps, ChildStates, FileStates,
            CycleSteps, Recording, Ended, ctxVars, pcmVars, dgVars
<1>1. CASE BeginRecording BY <1>1 DEF BeginRecording, StartRecording
<1>2. CASE StopRecorder BY <1>2 DEF StopRecorder, SendStop
<1>3. CASE RecorderExits BY <1>3 DEF RecorderExits, RecorderChildExits
<1>4. CASE RecorderRuns
  <2> USE DEF RecorderRuns
  <2>1. CASE NaturalExit BY <1>4, <2>1 DEF NaturalExit
  <2>2. CASE GracefulExit BY <1>4, <2>2 DEF GracefulExit
  <2>3. CASE GraceExpires BY <1>4, <2>3 DEF GraceExpires
  <2>4. CASE ForcedExit BY <1>4, <2>4 DEF ForcedExit
  <2>5. CASE CheckRecording BY <1>4, <2>5 DEF CheckRecording
  <2>6. QED BY <1>4, <2>1, <2>2, <2>3, <2>4, <2>5 DEF RecorderGoesOn
<1>5. QED BY <1>1, <1>2, <1>3, <1>4

(* The goroutine of Cycle.                                                  *)
LEMMA CycleKeeps ==
  ASSUME ControlInv, CycleRuns
  PROVE  ControlInv'
<1> USE DEF ControlInv, ControlType, RecorderFollows, CycleFollows, StreamFollows,
            RecorderContract, CleanReturn, RecSteps, ChildStates, FileStates,
            CycleSteps, Outcomes, StreamerSteps, Recording, Ended, ctxVars, pcmVars,
            dgVars, recVars
<1>1. CASE BeginCycle BY <1>1 DEF BeginCycle
<1>2. CASE BeginRecording \/ StopRecorder BY <1>2, RecorderKeeps
<1>3. CASE RecordFails BY <1>3 DEF RecordFails, CloseSideChannel, Interrupt
<1>4. CASE Transcribe BY <1>4 DEF Transcribe
<1>5. CASE RecordSucceeds BY <1>5 DEF RecordSucceeds
<1>6. CASE TailGraceEnds BY <1>6 DEF TailGraceEnds, CloseSideChannel, Interrupt
<1>7. CASE SideChannelClosed BY <1>7 DEF SideChannelClosed
<1>8. CASE StreamerAnswers BY <1>8 DEF StreamerAnswers
<1>9. CASE Deliver BY <1>9 DEF Deliver
<1>10. CASE CleanUp BY <1>10 DEF CleanUp
<1>11. QED BY <1>1, <1>2, <1>3, <1>4, <1>5, <1>6, <1>7, <1>8, <1>9, <1>10 DEF CycleRuns

(* The streamer's goroutine.                                                *)
LEMMA StreamerKeeps ==
  ASSUME ControlInv, StreamerRuns
  PROVE  ControlInv'
<1> USE DEF ControlInv, ControlType, RecorderFollows, CycleFollows, StreamFollows,
            RecorderContract, CleanReturn, StreamerSteps, Recording, Ended,
            ctxVars, pcmVars, recVars, OthersUnchanged, StreamerRuns
<1>1. CASE Connect BY <1>1 DEF Connect
<1>2. CASE SendAudio BY <1>2 DEF SendAudio
<1>3. CASE EndAudio BY <1>3 DEF EndAudio
<1>4. CASE EndDrain BY <1>4 DEF EndDrain
<1>5. CASE StopClient BY <1>5 DEF StopClient
<1>6. CASE TakeText BY <1>6 DEF TakeText
<1>7. QED BY <1>1, <1>2, <1>3, <1>4, <1>5, <1>6 DEF StreamGoesOn

(* What goes on around the program.                                         *)
LEMMA WorldKeeps ==
  ASSUME ControlInv, Speak \/ Stop \/ Discard \/ SideChannelExits \/ WatchCancel
  PROVE  ControlInv'
<1> USE DEF ControlInv, ControlType, RecorderFollows, CycleFollows, StreamFollows,
            RecorderContract, CleanReturn, ChildStates, FileStates, RecSteps,
            Recording, Ended, ctxVars, pcmVars, recVars, dgVars
<1>1. CASE Speak BY <1>1 DEF Speak, RecorderHears
<1>2. CASE Stop BY <1>2 DEF Stop
<1>3. CASE Discard BY <1>3 DEF Discard
<1>4. CASE SideChannelExits BY <1>4 DEF SideChannelExits
<1>5. CASE WatchCancel BY <1>5 DEF WatchCancel, Interrupt
<1>6. QED BY <1>1, <1>2, <1>3, <1>4, <1>5

LEMMA StepControl == ControlInv /\ [Next]_vars => ControlInv'
<1> SUFFICES ASSUME ControlInv, [Next]_vars PROVE ControlInv' OBVIOUS
<1>1. CASE ServerRuns \/ HandlerRuns
  <2>1. UNCHANGED controlVars
    BY <1>1 DEF ServerRuns, HandlerRuns, ServerAnswers, LinkIsLost, HandlerGoesOn,
                TakeMessage, KeepFinal, OthersUnchanged, recVars, pcmVars, ctxVars,
                controlVars
  <2>2. QED BY <2>1, ControlUntouched
<1>2. CASE UNCHANGED vars BY <1>2, ControlUntouched DEF vars, controlVars
<1>3. QED
  BY <1>1, <1>2, RecorderKeeps, CycleKeeps, StreamerKeeps, WorldKeeps DEF Next

-----------------------------------------------------------------------------
(* The control of a dictation is sound whatever its parts do and whatever   *)
(* is said.                                                                 *)
THEOREM ControlIsSound == Spec => []ControlInv
BY InitControl, StepControl, PTL DEF Spec

(* A recording is there after a success and gone after an error, and an     *)
(* error of the child is forgiven only to one that was asked to stop        *)
(* (interfaces.go:63-73, subprocess_linux.go:126-220).                      *)
THEOREM RecorderKeepsContract == Spec => []RecorderContract
<1>1. ControlInv => RecorderContract BY DEF ControlInv
<1>2. QED BY ControlIsSound, <1>1, PTL

(* The last word is in flight while the recorder listens, so the program    *)
(* does not stop the side channel before it (streaming.go:82).              *)
THEOREM SideChannelIsLast == Spec => []SideChannelOutlivesRecorder
<1>1. ControlInv => SideChannelOutlivesRecorder
  BY DEF ControlInv, ControlType, RecorderFollows, CycleFollows, StreamFollows,
         Recording, ChildStates, RecSteps, SideChannelOutlivesRecorder
<1>2. QED BY ControlIsSound, <1>1, PTL

(* A dictation that returned leaves no child, goroutine or recording        *)
(* (streaming.go:205, voice.go:138-170).                                    *)
THEOREM ReturnIsClean == Spec => []CleanReturn
<1>1. ControlInv => CleanReturn BY DEF ControlInv
<1>2. QED BY ControlIsSound, <1>1, PTL

-----------------------------------------------------------------------------
(* Types, words included.                                                   *)

Messages == [word : Words, final : BOOLEAN]
MaybeWord == Words \cup {0}

(* The sequences of words and what is counted in them.                      *)
WordType ==
  /\ take \in Seq(Words) /\ pipe \in Seq(Words) /\ sent \in Seq(Words)
  /\ finals \in Seq(Words) /\ text \in Seq(Words) /\ delivered \in Seq(Words)
  /\ inbox \in Seq(Messages)
  /\ spoken \in 0..MaxWords
  /\ answered \in 0..Len(sent)
  /\ hand \in {"select", "loaded"}
  /\ segment \in MaybeWord
  /\ hand = "loaded" => segment \in Words

wordVars == <<take, pipe, sent, finals, text, delivered, inbox, spoken, answered,
              hand, segment>>

LEMMA InitWords == Init => WordType
<1> SUFFICES ASSUME Init PROVE WordType OBVIOUS
<1>1. <<>> \in Seq(Words) /\ <<>> \in Seq(Messages) /\ Len(<<>>) = 0 OBVIOUS
<1>2. 0 \in 0..MaxWords BY WordsAssumption DEF WordsAssumption
<1>3. QED BY <1>1, <1>2 DEF Init, RecorderInit, SessionInit, WordType, MaybeWord

LEMMA WordsUntouched ==
  ASSUME WordType, UNCHANGED wordVars
  PROVE  WordType'
BY DEF WordType, wordVars

(* Where a step adds a word to a sequence or takes one from it.             *)
LEMMA SpeakTypes ==
  ASSUME WordType, Speak
  PROVE  WordType'
<1>1. spoken + 1 \in Words /\ spoken' \in 0..MaxWords
  BY WordsAssumption DEF WordType, Speak, Words
<1>2. Append(take, spoken + 1) \in Seq(Words) /\ Append(pipe, spoken + 1) \in Seq(Words)
  BY <1>1, AppendProperties DEF WordType
<1>3. take' \in Seq(Words) BY <1>2 DEF Speak, RecorderHears, WordType
<1>4. pipe' \in Seq(Words) BY <1>2 DEF Speak, WordType
<1>5. UNCHANGED <<sent, finals, text, delivered, inbox, answered, hand, segment>>
  BY DEF Speak, ServerVars, HandlerVars
<1>6. QED BY <1>1, <1>3, <1>4, <1>5 DEF WordType

LEMMA StreamTypes ==
  ASSUME WordType, StreamerRuns
  PROVE  WordType'
<1>1. UNCHANGED <<take, spoken, delivered>>
  BY DEF StreamerRuns, OthersUnchanged, recVars
<1>2. CASE SendAudio
  <2>1. Tail(pipe) \in Seq(Words) /\ Head(pipe) \in Words
    BY <1>2, HeadTailProperties DEF SendAudio, WordType
  <2>2. /\ Append(sent, Head(pipe)) \in Seq(Words)
        /\ Len(Append(sent, Head(pipe))) = Len(sent) + 1 /\ Len(sent) \in Nat
    BY <2>1, AppendProperties, LenProperties DEF WordType
  <2>3. sent' \in Seq(Words) /\ answered' \in 0..Len(sent')
    <3>1. answered' = answered /\ (sent' = sent \/ sent' = Append(sent, Head(pipe)))
      BY <1>2 DEF SendAudio
    <3>2. answered \in 0..Len(sent) /\ sent \in Seq(Words) BY DEF WordType
    <3>3. CASE sent' = sent BY <3>1, <3>2, <3>3
    <3>4. CASE sent' = Append(sent, Head(pipe)) BY <2>2, <3>1, <3>2, <3>4
    <3>5. QED BY <3>1, <3>3, <3>4
  <2>4. QED BY <1>1, <1>2, <2>1, <2>3 DEF SendAudio, HandlerVars, WordType
<1>3. CASE TakeText BY <1>1, <1>3 DEF TakeText, SourceVars, ServerVars, HandlerVars, WordType
<1>4. CASE Connect \/ EndAudio \/ EndDrain \/ StopClient
  BY <1>1, <1>4 DEF Connect, EndAudio, EndDrain, StopClient, SourceVars, ServerVars,
     HandlerVars, WordType
<1>5. QED BY <1>2, <1>3, <1>4 DEF StreamerRuns, StreamGoesOn

LEMMA AnswerTypes ==
  ASSUME WordType, NEW isFinal \in BOOLEAN, Answer(isFinal), answered < Len(sent)
  PROVE  inbox' \in Seq(Messages) /\ answered + 1 \in 1..Len(sent)
<1>1. answered + 1 \in 1..Len(sent) BY LenProperties DEF WordType
<1>2. sent[answered + 1] \in Words BY <1>1, ElementOfSeq DEF WordType
<1>3. [word |-> sent[answered + 1], final |-> isFinal] \in Messages BY <1>2 DEF Messages
<1>4. QED BY <1>1, <1>3, AppendProperties DEF Answer, WordType

LEMMA ServerTypes ==
  ASSUME WordType, ServerRuns
  PROVE  WordType'
<1>1. UNCHANGED <<take, spoken, delivered, pipe, sent, finals, text, hand, segment>>
  BY DEF ServerRuns, OthersUnchanged, recVars, ServerAnswers, LinkIsLost, SourceVars,
         HandlerVars, ServerVars
<1>2. CASE LinkIsLost BY <1>1, <1>2 DEF LinkIsLost, ServerVars, WordType
<1>3. CASE ServerAnswers
  <2>1. answered < Len(sent) /\ Len(sent) \in Nat
    BY <1>3, LenProperties DEF ServerAnswers, WordType
  <2>2. inbox' \in Seq(Messages)
    BY <1>3, <2>1, AnswerTypes DEF ServerAnswers, WordType
  <2>3. answered' \in 0..Len(sent)
    <3>1. answered' = answered \/ answered' = answered + 1
      BY <1>3 DEF ServerAnswers
    <3>2. QED BY <2>1, <3>1 DEF WordType
  <2>4. QED BY <1>1, <2>2, <2>3 DEF WordType
<1>4. QED BY <1>2, <1>3 DEF ServerRuns

LEMMA HandlerTypes ==
  ASSUME WordType, HandlerRuns
  PROVE  WordType'
<1>1. UNCHANGED <<take, spoken, delivered, pipe, sent, answered, text>>
  BY DEF HandlerRuns, OthersUnchanged, recVars, HandlerGoesOn, TakeMessage, KeepFinal,
         SourceVars, ServerVars
<1>2. CASE TakeMessage
  <2>1. Tail(inbox) \in Seq(Messages) /\ Head(inbox) \in Messages
    BY <1>2, HeadTailProperties DEF TakeMessage, WordType
  <2>2. Head(inbox).word \in Words BY <2>1 DEF Messages
  <2>3. QED BY <1>1, <1>2, <2>1, <2>2 DEF TakeMessage, WordType, MaybeWord
<1>3. CASE KeepFinal
  <2>1. Append(finals, segment) \in Seq(Words)
    BY <1>3, AppendProperties DEF KeepFinal, WordType
  <2>2. QED BY <1>1, <1>3, <2>1 DEF KeepFinal, WordType, MaybeWord
<1>4. QED BY <1>2, <1>3 DEF HandlerRuns, HandlerGoesOn

LEMMA StepWords == WordType /\ [Next]_vars => WordType'
<1> SUFFICES ASSUME WordType, [Next]_vars PROVE WordType' OBVIOUS
<1>1. CASE CycleRuns
  <2>1. CASE Transcribe
    BY <2>1 DEF Transcribe, ServerVars, HandlerVars, recVars, WordType
  <2>2. CASE Deliver
    BY <2>2 DEF Deliver, dgVars, recVars, WordType
  <2>3. CASE ~Transcribe /\ ~Deliver
    <3>1. UNCHANGED wordVars
      BY <1>1, <2>3 DEF CycleRuns, BeginCycle, BeginRecording, StartRecording,
         StopRecorder, SendStop, RecordFails, CloseSideChannel, RecordSucceeds,
         TailGraceEnds, SideChannelClosed, StreamerAnswers, CleanUp,
         ServerVars, HandlerVars, recVars, dgVars, wordVars
    <3>2. QED BY <3>1, WordsUntouched
  <2>4. QED BY <2>1, <2>2, <2>3
<1>2. CASE Stop \/ Discard \/ SideChannelExits \/ WatchCancel \/ RecorderRuns
           \/ RecorderExits \/ UNCHANGED vars
  <2>1. UNCHANGED wordVars
    BY <1>2 DEF Stop, Discard, SideChannelExits, WatchCancel, RecorderRuns,
       RecorderGoesOn, NaturalExit, GracefulExit, GraceExpires, ForcedExit,
       CheckRecording, RecorderExits, RecorderChildExits,
       ServerVars, HandlerVars, recVars, dgVars, wordVars, vars
  <2>2. QED BY <2>1, WordsUntouched
<1>3. QED
  BY <1>1, <1>2, SpeakTypes, StreamTypes, ServerTypes, HandlerTypes DEF Next

-----------------------------------------------------------------------------
(* The way of the words: the side channel's pipe, the server, the handler's *)
(* channel, its hands, the finals.  No word is behind a later one.          *)

Rising(s) == \A i, j \in 1..Len(s) : i < j => s[i] < s[j]

(* The words that are still in the pipe or to be said, and with them those  *)
(* the server is not done with, those in the channel, the one in the hands. *)
InPipe == {pipe[i] : i \in 1..Len(pipe)} \cup {spoken + 1}
AtServer == InPipe \cup {sent[i] : i \in (answered + 1)..Len(sent)}
InInbox == AtServer \cup {inbox[i].word : i \in {k \in 1..Len(inbox) : inbox[k].final}}
InHand == InInbox \cup (IF hand = "loaded" THEN {segment} ELSE {})

RecordingRises == Rising(take) /\ \A i \in 1..Len(take) : take[i] <= spoken
PipeRises == Rising(pipe) /\ \A i \in 1..Len(pipe) : pipe[i] <= spoken
SentRises == Rising(sent) /\ \A i \in 1..Len(sent) : \A x \in InPipe : sent[i] < x
InboxRises ==
  /\ \A i \in 1..Len(inbox) : inbox[i].final => \A x \in AtServer : inbox[i].word < x
  /\ \A i, j \in 1..Len(inbox) :
       i < j /\ inbox[i].final /\ inbox[j].final => inbox[i].word < inbox[j].word
HandIsAhead == hand = "loaded" => \A x \in InInbox : segment < x
FinalsRise == Rising(finals) /\ \A i \in 1..Len(finals) : \A x \in InHand : finals[i] < x

(* Nothing flows before the streamer runs, nor without a link.              *)
NothingSentYet ==
  streamer = "none" =>
    /\ link = "none" /\ sent = <<>> /\ inbox = <<>> /\ finals = <<>>
    /\ hand = "select" /\ answered = 0

flowVars == <<take, pipe, sent, answered, inbox, hand, segment, finals, text,
              delivered, spoken>>

FlowWords ==
  /\ RecordingRises /\ PipeRises /\ SentRises /\ InboxRises /\ HandIsAhead
  /\ FinalsRise /\ Rising(text) /\ SpokenOnce

LEMMA FlowUntouched ==
  ASSUME FlowWords, UNCHANGED flowVars
  PROVE  FlowWords'
<1>1. UNCHANGED <<InPipe, AtServer, InInbox, InHand>>
  BY DEF flowVars, InPipe, AtServer, InInbox, InHand
<1>2. QED
  BY <1>1 DEF FlowWords, flowVars, RecordingRises, PipeRises, SentRises, InboxRises,
     HandIsAhead, FinalsRise, SpokenOnce, Rising

(* A longer sequence rises when the new word comes after all the others.    *)
LEMMA AppendRises ==
  ASSUME NEW s \in Seq(Words), Rising(s), NEW w \in Words,
         \A i \in 1..Len(s) : s[i] < w
  PROVE  /\ Rising(Append(s, w)) /\ Len(s) \in Nat /\ Len(Append(s, w)) = Len(s) + 1
         /\ \A i \in 1..Len(s) : Append(s, w)[i] = s[i]
         /\ Append(s, w)[Len(s) + 1] = w
<1>1. /\ Len(s) \in Nat /\ Len(Append(s, w)) = Len(s) + 1
      /\ \A i \in 1..Len(s) : Append(s, w)[i] = s[i]
      /\ Append(s, w)[Len(s) + 1] = w
  BY AppendProperties, LenProperties
<1>2. QED BY <1>1 DEF Rising

LEMMA TailIsShift ==
  ASSUME NEW S, NEW s \in Seq(S), s # <<>>
  PROVE  /\ Len(s) \in Nat \ {0} /\ Len(Tail(s)) = Len(s) - 1
         /\ Head(s) = s[1] /\ Head(s) \in S
         /\ \A i \in 1..Len(Tail(s)) : i + 1 \in 1..Len(s) /\ Tail(s)[i] = s[i + 1]
<1>1. /\ Len(s) \in Nat /\ Len(s) # 0 BY EmptySeq, LenProperties
<1>2. /\ Head(s) \in S /\ Len(Tail(s)) = Len(s) - 1
      /\ \A i \in 1..Len(Tail(s)) : Tail(s)[i] = s[i + 1]
  BY HeadTailProperties
<1>3. QED BY <1>1, <1>2

(* What is in the sequences are words, hence numbers.                       *)
LEMMA WordsAreNumbers ==
  ASSUME WordType
  PROVE  /\ Words \subseteq Nat /\ spoken \in Nat /\ answered \in Nat
         /\ \A i \in 1..Len(take) : take[i] \in Words
         /\ \A i \in 1..Len(pipe) : pipe[i] \in Words
         /\ \A i \in 1..Len(sent) : sent[i] \in Words
         /\ \A i \in 1..Len(finals) : finals[i] \in Words
         /\ \A i \in 1..Len(inbox) : inbox[i] \in Messages /\ inbox[i].word \in Words
         /\ Len(take) \in Nat /\ Len(pipe) \in Nat /\ Len(sent) \in Nat
         /\ Len(finals) \in Nat /\ Len(inbox) \in Nat
<1>1. Words \subseteq Nat /\ spoken \in Nat /\ answered \in Nat
  BY WordsAssumption DEF Words, WordType, WordsAssumption
<1>2. \A i \in 1..Len(inbox) : inbox[i] \in Messages BY ElementOfSeq DEF WordType
<1>3. \A i \in 1..Len(inbox) : inbox[i].word \in Words BY <1>2 DEF Messages
<1>4. QED BY <1>1, <1>2, <1>3, ElementOfSeq, LenProperties DEF WordType

LEMMA SpeakFlows ==
  ASSUME WordType, FlowWords, Speak
  PROVE  FlowWords'
<1> USE WordsAreNumbers
<1>1. /\ UNCHANGED <<sent, answered, inbox, hand, segment, finals, text, delivered>>
      /\ spoken' = spoken + 1 /\ spoken + 1 \in Words
      /\ take' \in {take, Append(take, spoken + 1)}
      /\ pipe' \in {pipe, Append(pipe, spoken + 1)}
  BY WordsAssumption DEF Speak, RecorderHears, ServerVars, HandlerVars, Words, WordType
<1>a. /\ Rising(Append(take, spoken + 1)) /\ Len(Append(take, spoken + 1)) = Len(take) + 1
      /\ \A i \in 1..Len(take) : Append(take, spoken + 1)[i] = take[i]
      /\ Append(take, spoken + 1)[Len(take) + 1] = spoken + 1
  <2>1. take \in Seq(Words) /\ Rising(take) /\ \A i \in 1..Len(take) : take[i] < spoken + 1
    BY DEF FlowWords, RecordingRises, WordType
  <2>2. QED BY <1>1, <2>1, AppendRises
<1>b. /\ Rising(Append(pipe, spoken + 1)) /\ Len(Append(pipe, spoken + 1)) = Len(pipe) + 1
      /\ \A i \in 1..Len(pipe) : Append(pipe, spoken + 1)[i] = pipe[i]
      /\ Append(pipe, spoken + 1)[Len(pipe) + 1] = spoken + 1
  <2>1. pipe \in Seq(Words) /\ Rising(pipe) /\ \A i \in 1..Len(pipe) : pipe[i] < spoken + 1
    BY DEF FlowWords, PipeRises, WordType
  <2>2. QED BY <1>1, <2>1, AppendRises
<1>2. RecordingRises'
  <2>1. CASE take' = take BY <1>1, <2>1 DEF FlowWords, RecordingRises
  <2>2. CASE take' = Append(take, spoken + 1)
    BY <1>1, <1>a, <2>2 DEF FlowWords, RecordingRises
  <2>3. QED BY <1>1, <2>1, <2>2
<1>3. PipeRises'
  <2>1. CASE pipe' = pipe BY <1>1, <2>1 DEF FlowWords, PipeRises
  <2>2. CASE pipe' = Append(pipe, spoken + 1)
    BY <1>1, <1>b, <2>2 DEF FlowWords, PipeRises
  <2>3. QED BY <1>1, <2>1, <2>2
<1>4. \A x \in InPipe' : x \in InPipe \/ x = spoken + 2
  <2>1. CASE pipe' = pipe BY <1>1, <2>1 DEF InPipe
  <2>2. CASE pipe' = Append(pipe, spoken + 1) BY <1>1, <1>b, <2>2 DEF InPipe
  <2>3. QED BY <1>1, <2>1, <2>2
<1>5. \A x \in AtServer' : x \in AtServer \/ x = spoken + 2
  BY <1>1, <1>4 DEF AtServer
<1>6. \A x \in InInbox' : x \in InInbox \/ x = spoken + 2
  BY <1>1, <1>5 DEF InInbox
<1>7. \A x \in InHand' : x \in InHand \/ x = spoken + 2
  BY <1>1, <1>6 DEF InHand
<1>8. spoken + 1 \in InPipe /\ spoken + 1 \in AtServer /\ spoken + 1 \in InInbox
      /\ spoken + 1 \in InHand
  BY DEF InPipe, AtServer, InInbox, InHand
<1>9. SentRises' BY <1>1, <1>4, <1>8 DEF FlowWords, SentRises
<1>10. InboxRises' BY <1>1, <1>5, <1>8 DEF FlowWords, InboxRises
<1>11. HandIsAhead' BY <1>1, <1>6, <1>8 DEF FlowWords, HandIsAhead, WordType
<1>12. FinalsRise' BY <1>1, <1>7, <1>8, SMTT(30) DEF FlowWords, FinalsRise
<1>13. Rising(text') /\ SpokenOnce' BY <1>1 DEF FlowWords, SpokenOnce
<1>14. QED BY <1>2, <1>3, <1>9, <1>10, <1>11, <1>12, <1>13 DEF FlowWords

LEMMA SendFlows ==
  ASSUME WordType, FlowWords, SendAudio, StreamerRuns
  PROVE  FlowWords'
<1> USE WordsAreNumbers
<1>1. /\ UNCHANGED <<take, spoken, answered, inbox, hand, segment, finals, text, delivered>>
      /\ pipe # <<>> /\ pipe' = Tail(pipe)
      /\ sent' \in {sent, Append(sent, Head(pipe))}
  BY DEF SendAudio, StreamerRuns, OthersUnchanged, recVars, HandlerVars
<1>2. /\ Len(pipe) \in Nat \ {0} /\ Len(pipe') = Len(pipe) - 1
      /\ Head(pipe) = pipe[1] /\ pipe[1] \in Words
      /\ \A i \in 1..Len(pipe') : i + 1 \in 1..Len(pipe) /\ pipe'[i] = pipe[i + 1]
  BY <1>1, TailIsShift DEF WordType
<1>3. InPipe' \subseteq InPipe /\ pipe[1] \in InPipe
  BY <1>1, <1>2 DEF InPipe
<1>4. \A x \in InPipe' : pipe[1] < x
  BY <1>1, <1>2 DEF FlowWords, PipeRises, Rising, InPipe
<1>5. \A i \in 1..Len(sent) : sent[i] < pipe[1] BY <1>3 DEF FlowWords, SentRises
<1>6. \/ sent' = sent
      \/ /\ Rising(sent') /\ Len(sent') = Len(sent) + 1
         /\ \A i \in 1..Len(sent) : sent'[i] = sent[i]
         /\ sent'[Len(sent) + 1] = pipe[1]
  <2>1. sent \in Seq(Words) /\ Rising(sent) BY DEF FlowWords, SentRises, WordType
  <2>2. Rising(Append(sent, pipe[1])) /\ Len(Append(sent, pipe[1])) = Len(sent) + 1
        /\ (\A i \in 1..Len(sent) : Append(sent, pipe[1])[i] = sent[i])
        /\ Append(sent, pipe[1])[Len(sent) + 1] = pipe[1]
    BY <1>2, <1>5, <2>1, AppendRises
  <2>3. QED BY <1>1, <1>2, <2>2
<1>7. AtServer' \subseteq AtServer
  BY <1>1, <1>3, <1>6, SMTT(30) DEF AtServer
<1>8. InInbox' \subseteq InInbox BY <1>1, <1>7 DEF InInbox
<1>9. InHand' \subseteq InHand BY <1>1, <1>8 DEF InHand
<1>10. RecordingRises' /\ Rising(text') /\ SpokenOnce'
  BY <1>1 DEF FlowWords, RecordingRises, SpokenOnce
<1>11. PipeRises' BY <1>1, <1>2 DEF FlowWords, PipeRises, Rising
<1>12. SentRises'
  <2>1. CASE sent' = sent BY <1>3, <2>1 DEF FlowWords, SentRises
  <2>2. CASE /\ Rising(sent') /\ Len(sent') = Len(sent) + 1
             /\ \A i \in 1..Len(sent) : sent'[i] = sent[i]
             /\ sent'[Len(sent) + 1] = pipe[1]
    <3>1. \A i \in 1..Len(sent) : \A x \in InPipe' : sent'[i] < x
      BY <1>3, <2>2 DEF FlowWords, SentRises
    <3>2. \A x \in InPipe' : sent'[Len(sent) + 1] < x BY <1>4, <2>2
    <3>3. \A i \in 1..Len(sent') : i \in 1..Len(sent) \/ i = Len(sent) + 1 BY <2>2
    <3>4. \A i \in 1..Len(sent') : \A x \in InPipe' : sent'[i] < x
      BY <3>1, <3>2, <3>3
    <3>5. QED BY <2>2, <3>4 DEF SentRises
  <2>3. QED BY <1>6, <2>1, <2>2
<1>13. InboxRises' BY <1>1, <1>7 DEF FlowWords, InboxRises
<1>14. HandIsAhead' BY <1>1, <1>8 DEF FlowWords, HandIsAhead
<1>15. FinalsRise' BY <1>1, <1>9 DEF FlowWords, FinalsRise
<1>16. QED BY <1>10, <1>11, <1>12, <1>13, <1>14, <1>15 DEF FlowWords

LEMMA ServerFlows ==
  ASSUME WordType, FlowWords, ServerAnswers, ServerRuns
  PROVE  FlowWords'
<1> USE WordsAreNumbers
<1> DEFINE w == sent[answered + 1]
<1>1. /\ UNCHANGED <<take, pipe, sent, spoken, hand, segment, finals, text, delivered>>
      /\ answered + 1 \in 1..Len(sent) /\ w \in Words
  BY DEF ServerAnswers, ServerRuns, OthersUnchanged, recVars, SourceVars, HandlerVars
<1>2. UNCHANGED InPipe BY <1>1 DEF InPipe
<1>3. RecordingRises' /\ PipeRises' /\ SentRises' /\ Rising(text') /\ SpokenOnce'
  BY <1>1, <1>2 DEF FlowWords, RecordingRises, PipeRises, SentRises, SpokenOnce
<1>4. /\ \A x \in AtServer : answered' = answered + 1 => x \in AtServer' \/ x = w
      /\ w \in AtServer
  BY <1>1, <1>2 DEF AtServer
<1>5. CASE UNCHANGED answered /\ \E m \in Messages : ~m.final /\ inbox' = Append(inbox, m)
  <2>1. PICK m \in Messages : ~m.final /\ inbox' = Append(inbox, m) BY <1>5
  <2>2. /\ Len(inbox') = Len(inbox) + 1 /\ inbox'[Len(inbox) + 1] = m
        /\ \A i \in 1..Len(inbox) : inbox'[i] = inbox[i]
    BY <2>1, AppendProperties DEF WordType
  <2>3. \A i \in 1..Len(inbox') : inbox'[i].final => i \in 1..Len(inbox) BY <2>1, <2>2
  <2>4. UNCHANGED AtServer BY <1>1, <1>2, <1>5 DEF AtServer
  <2>5. UNCHANGED InInbox BY <2>2, <2>3, <2>4 DEF InInbox
  <2>6. UNCHANGED InHand BY <1>1, <2>5 DEF InHand
  <2>7. InboxRises' BY <2>2, <2>3, <2>4 DEF FlowWords, InboxRises
  <2>8. HandIsAhead' /\ FinalsRise'
    BY <1>1, <2>5, <2>6 DEF FlowWords, HandIsAhead, FinalsRise
  <2>9. QED BY <1>3, <2>7, <2>8 DEF FlowWords
<1>6. CASE answered' = answered + 1 /\ UNCHANGED inbox
  <2>1. AtServer' \subseteq AtServer BY <1>1, <1>2, <1>6 DEF AtServer
  <2>2. InInbox' \subseteq InInbox BY <1>6, <2>1 DEF InInbox
  <2>3. InHand' \subseteq InHand BY <1>1, <2>2 DEF InHand
  <2>4. InboxRises' /\ HandIsAhead' /\ FinalsRise'
    BY <1>1, <1>6, <2>1, <2>2, <2>3 DEF FlowWords, InboxRises, HandIsAhead, FinalsRise
  <2>5. QED BY <1>3, <2>4 DEF FlowWords
<1>7. CASE /\ answered' = answered + 1
           /\ inbox' = Append(inbox, [word |-> w, final |-> TRUE])
  <2>1. [word |-> w, final |-> TRUE] \in Messages BY <1>1 DEF Messages
  <2>2. /\ Len(inbox') = Len(inbox) + 1
        /\ inbox'[Len(inbox) + 1].word = w /\ inbox'[Len(inbox) + 1].final
        /\ \A i \in 1..Len(inbox) : inbox'[i] = inbox[i]
    BY <1>7, <2>1, AppendProperties DEF WordType
  <2>3. AtServer' \subseteq AtServer BY <1>1, <1>2, <1>7 DEF AtServer
  <2>4. InInbox' \subseteq InInbox
    <3>1. \A i \in 1..Len(inbox') : inbox'[i].final =>
            inbox'[i].word = w \/ (i \in 1..Len(inbox) /\ inbox'[i] = inbox[i])
      BY <2>2
    <3>2. QED BY <1>4, <2>3, <3>1 DEF InInbox
  <2>5. InHand' \subseteq InHand BY <1>1, <2>4 DEF InHand
  <2>6. \A x \in AtServer' : w < x
    BY <1>1, <1>2, <1>7 DEF FlowWords, SentRises, Rising, AtServer
  <2>7. \A i \in 1..Len(inbox) : inbox[i].final => inbox[i].word < w
    BY <1>4 DEF FlowWords, InboxRises
  <2>8. InboxRises'
    <3>1. \A i \in 1..Len(inbox') : i \in 1..Len(inbox) \/ i = Len(inbox) + 1 BY <2>2
    <3>2. \A i \in 1..Len(inbox') : inbox'[i].final =>
            \A x \in AtServer' : inbox'[i].word < x
      BY <2>2, <2>3, <2>6, <3>1 DEF FlowWords, InboxRises
    <3>3. \A i, j \in 1..Len(inbox') :
            i < j /\ inbox'[i].final /\ inbox'[j].final => inbox'[i].word < inbox'[j].word
      BY <2>2, <2>7, <3>1 DEF FlowWords, InboxRises
    <3>4. QED BY <3>2, <3>3 DEF InboxRises
  <2>9. HandIsAhead' /\ FinalsRise'
    BY <1>1, <2>4, <2>5 DEF FlowWords, HandIsAhead, FinalsRise
  <2>10. QED BY <1>3, <2>8, <2>9 DEF FlowWords
<1>8. [word |-> w, final |-> FALSE] \in Messages /\ ~[word |-> w, final |-> FALSE].final
  BY <1>1 DEF Messages
<1>9. QED BY <1>5, <1>6, <1>7, <1>8 DEF ServerAnswers, Answer

LEMMA TakeFlows ==
  ASSUME WordType, FlowWords, TakeMessage, HandlerRuns
  PROVE  FlowWords'
<1> USE WordsAreNumbers
<1>1. /\ UNCHANGED <<take, pipe, sent, spoken, answered, finals, text, delivered>>
      /\ hand = "select" /\ inbox # <<>> /\ inbox' = Tail(inbox)
  BY DEF TakeMessage, HandlerRuns, OthersUnchanged, recVars, SourceVars, ServerVars
<1>2. /\ Len(inbox) \in Nat \ {0} /\ Len(inbox') = Len(inbox) - 1
      /\ Head(inbox) = inbox[1]
      /\ \A i \in 1..Len(inbox') : i + 1 \in 1..Len(inbox) /\ inbox'[i] = inbox[i + 1]
  BY <1>1, TailIsShift DEF WordType
<1>3. UNCHANGED InPipe BY <1>1 DEF InPipe
<1>4. UNCHANGED AtServer BY <1>1, <1>3 DEF AtServer
<1>5. InInbox' \subseteq InInbox
  <2> SUFFICES ASSUME NEW x \in InInbox', x \notin AtServer PROVE x \in InInbox
    BY DEF InInbox
  <2>1. PICK i \in 1..Len(inbox') : inbox'[i].final /\ x = inbox'[i].word
    BY <1>4 DEF InInbox
  <2>2. i + 1 \in 1..Len(inbox) /\ inbox[i + 1].final /\ x = inbox[i + 1].word
    BY <1>2, <2>1
  <2>3. QED BY <2>2 DEF InInbox
<1>6. RecordingRises' /\ PipeRises' /\ SentRises' /\ Rising(text') /\ SpokenOnce'
  BY <1>1, <1>3 DEF FlowWords, RecordingRises, PipeRises, SentRises, SpokenOnce
<1>7. InboxRises'
  <2>1. InboxRises BY DEF FlowWords
  <2>2. ASSUME NEW i \in 1..Len(inbox'), inbox'[i].final
        PROVE  \A x \in AtServer' : inbox'[i].word < x
    BY <1>2, <1>4, <2>1, <2>2 DEF InboxRises
  <2>3. ASSUME NEW i \in 1..Len(inbox'), NEW j \in 1..Len(inbox'), i < j,
               inbox'[i].final, inbox'[j].final
        PROVE  inbox'[i].word < inbox'[j].word
    <3>1. /\ i + 1 \in 1..Len(inbox) /\ j + 1 \in 1..Len(inbox) /\ i + 1 < j + 1
          /\ inbox'[i] = inbox[i + 1] /\ inbox'[j] = inbox[j + 1]
      BY <1>2, <2>3
    <3>2. QED BY <2>1, <2>3, <3>1 DEF InboxRises
  <2>4. QED BY <2>2, <2>3 DEF InboxRises
<1>8. CASE inbox[1].final /\ hand' = "loaded" /\ segment' = inbox[1].word
  <2>1. \A x \in InInbox' : segment' < x
    <3>1. \A x \in AtServer : segment' < x BY <1>2, <1>8 DEF FlowWords, InboxRises
    <3>2. ASSUME NEW i \in 1..Len(inbox'), inbox'[i].final
          PROVE  segment' < inbox'[i].word
      <4>1. /\ 1 \in 1..Len(inbox) /\ i + 1 \in 1..Len(inbox) /\ 1 < i + 1
            /\ inbox'[i] = inbox[i + 1]
        BY <1>2
      <4>2. QED BY <1>8, <3>2, <4>1 DEF FlowWords, InboxRises
    <3>3. QED BY <1>4, <3>1, <3>2 DEF InInbox
  <2>2. segment' \in InInbox
    <3>1. 1 \in {k \in 1..Len(inbox) : inbox[k].final} BY <1>2, <1>8
    <3>2. inbox[1].word \in {inbox[i].word : i \in {k \in 1..Len(inbox) : inbox[k].final}}
      BY <3>1
    <3>3. QED BY <1>8, <3>2 DEF InInbox
  <2>3. InHand' \subseteq InHand BY <1>1, <1>5, <1>8, <2>2 DEF InHand
  <2>4. HandIsAhead' /\ FinalsRise'
    BY <1>1, <2>1, <2>3 DEF FlowWords, HandIsAhead, FinalsRise
  <2>5. QED BY <1>6, <1>7, <2>4 DEF FlowWords
<1>9. CASE UNCHANGED <<hand, segment>>
  <2>1. InHand' \subseteq InHand BY <1>5, <1>9 DEF InHand
  <2>2. HandIsAhead' /\ FinalsRise'
    BY <1>1, <1>9, <2>1 DEF FlowWords, HandIsAhead, FinalsRise
  <2>3. QED BY <1>6, <1>7, <2>2 DEF FlowWords
<1>10. QED BY <1>2, <1>8, <1>9 DEF TakeMessage

LEMMA KeepFlows ==
  ASSUME WordType, FlowWords, KeepFinal, HandlerRuns
  PROVE  FlowWords'
<1> USE WordsAreNumbers
<1>1. /\ UNCHANGED <<take, pipe, sent, spoken, answered, inbox, text, delivered>>
      /\ hand = "loaded" /\ hand' = "select" /\ segment \in Words
      /\ finals' \in {finals, Append(finals, segment)}
  BY DEF KeepFinal, HandlerRuns, OthersUnchanged, recVars, SourceVars, ServerVars, WordType
<1>2. UNCHANGED <<InPipe, AtServer, InInbox>> BY <1>1 DEF InPipe, AtServer, InInbox
<1>3. InHand' = InInbox /\ InInbox \subseteq InHand /\ segment \in InHand
  BY <1>1, <1>2 DEF InHand
<1>4. RecordingRises' /\ PipeRises' /\ SentRises' /\ InboxRises' /\ HandIsAhead'
      /\ Rising(text') /\ SpokenOnce'
  BY <1>1, <1>2 DEF FlowWords, RecordingRises, PipeRises, SentRises, InboxRises,
     HandIsAhead, SpokenOnce
<1>5. FinalsRise'
  <2>1. CASE finals' = finals BY <1>3, <2>1 DEF FlowWords, FinalsRise
  <2>2. CASE finals' = Append(finals, segment)
    <3>1. finals \in Seq(Words) /\ Rising(finals) /\ \A i \in 1..Len(finals) : finals[i] < segment
      BY <1>3 DEF FlowWords, FinalsRise, WordType
    <3>2. /\ Rising(finals') /\ Len(finals') = Len(finals) + 1
          /\ \A i \in 1..Len(finals) : finals'[i] = finals[i]
          /\ finals'[Len(finals) + 1] = segment
      BY <1>1, <2>2, <3>1, AppendRises
    <3>3. \A i \in 1..Len(finals) : \A x \in InHand' : finals'[i] < x
      BY <1>3, <3>2 DEF FlowWords, FinalsRise
    <3>4. \A x \in InHand' : finals'[Len(finals) + 1] < x
      BY <1>1, <1>3, <3>2 DEF FlowWords, HandIsAhead
    <3>5. \A i \in 1..Len(finals') : i \in 1..Len(finals) \/ i = Len(finals) + 1 BY <3>2
    <3>6. \A i \in 1..Len(finals') : \A x \in InHand' : finals'[i] < x
      BY <3>3, <3>4, <3>5
    <3>7. QED BY <3>2, <3>6 DEF FinalsRise
  <2>3. QED BY <1>1, <2>1, <2>2
<1>6. QED BY <1>4, <1>5 DEF FlowWords

(* The sequential path sends the recording as it is, once it is there.      *)
LEMMA TranscribeFlows ==
  ASSUME WordType, ControlInv, FlowWords, NothingSentYet, Transcribe
  PROVE  FlowWords'
<1>1. /\ UNCHANGED <<take, sent, spoken, answered, inbox, hand, segment, finals, text,
                     delivered>>
      /\ pipe' \in {pipe, take}
  BY DEF Transcribe, ServerVars, HandlerVars, recVars
<1>2. streamer = "none"
  BY DEF Transcribe, ControlInv, StreamFollows, Recording
<1>3. sent = <<>> /\ inbox = <<>> /\ finals = <<>> /\ hand = "select"
  BY <1>2 DEF NothingSentYet
<1>4. RecordingRises' /\ PipeRises' /\ Rising(text') /\ SpokenOnce'
  BY <1>1 DEF FlowWords, RecordingRises, PipeRises, SpokenOnce
<1>5. SentRises' /\ InboxRises' /\ HandIsAhead' /\ FinalsRise'
  BY <1>1, <1>3 DEF SentRises, InboxRises, HandIsAhead, FinalsRise, Rising
<1>6. QED BY <1>4, <1>5 DEF FlowWords

LEMMA StepFlow ==
  ControlInv /\ WordType /\ FlowWords /\ NothingSentYet /\ [Next]_vars => FlowWords'
<1> SUFFICES ASSUME ControlInv, WordType, FlowWords, NothingSentYet, [Next]_vars
             PROVE  FlowWords'
  OBVIOUS
<1>1. CASE StreamerRuns
  <2>1. CASE SendAudio BY <1>1, <2>1, SendFlows
  <2>2. CASE TakeText
    <3>1. UNCHANGED <<take, pipe, sent, answered, inbox, hand, segment, finals,
                      delivered, spoken>> /\ text' = finals
      BY <1>1, <2>2 DEF TakeText, StreamerRuns, OthersUnchanged, recVars, SourceVars,
         ServerVars, HandlerVars
    <3>2. UNCHANGED <<InPipe, AtServer, InInbox, InHand>>
      BY <3>1 DEF InPipe, AtServer, InInbox, InHand
    <3>3. QED
      BY <3>1, <3>2 DEF FlowWords, RecordingRises, PipeRises, SentRises, InboxRises,
         HandIsAhead, FinalsRise, SpokenOnce
  <2>3. CASE Connect \/ EndAudio \/ EndDrain \/ StopClient
    <3>1. UNCHANGED flowVars
      BY <1>1, <2>3 DEF Connect, EndAudio, EndDrain, StopClient, StreamerRuns,
         OthersUnchanged, recVars, SourceVars, ServerVars, HandlerVars, flowVars
    <3>2. QED BY <3>1, FlowUntouched
  <2>4. QED BY <1>1, <2>1, <2>2, <2>3 DEF StreamerRuns, StreamGoesOn
<1>2. CASE ServerRuns
  <2>1. CASE ServerAnswers BY <1>2, <2>1, ServerFlows
  <2>2. CASE LinkIsLost
    <3>1. UNCHANGED flowVars
      BY <1>2, <2>2 DEF LinkIsLost, ServerRuns, OthersUnchanged, recVars, SourceVars,
         ServerVars, HandlerVars, flowVars
    <3>2. QED BY <3>1, FlowUntouched
  <2>3. QED BY <1>2, <2>1, <2>2 DEF ServerRuns
<1>3. CASE HandlerRuns BY <1>3, TakeFlows, KeepFlows DEF HandlerRuns, HandlerGoesOn
<1>4. CASE Transcribe BY <1>4, TranscribeFlows
<1>5. CASE Deliver
  <2>1. UNCHANGED <<take, pipe, sent, answered, inbox, hand, segment, finals, text, spoken>>
        /\ delivered' \in {text, delivered}
    BY <1>5 DEF Deliver, dgVars, recVars
  <2>2. UNCHANGED <<InPipe, AtServer, InInbox, InHand>>
    BY <2>1 DEF InPipe, AtServer, InInbox, InHand
  <2>3. SpokenOnce'
    <3>1. CASE delivered' = text BY <3>1 DEF FlowWords, SpokenOnce, Rising
    <3>2. CASE delivered' = delivered BY <3>2 DEF FlowWords, SpokenOnce
    <3>3. QED BY <2>1, <3>1, <3>2
  <2>4. QED
    BY <2>1, <2>2, <2>3 DEF FlowWords, RecordingRises, PipeRises, SentRises, InboxRises,
       HandIsAhead, FinalsRise
<1>6. CASE CycleRuns /\ ~Transcribe /\ ~Deliver
  <2>1. UNCHANGED flowVars
    BY <1>6 DEF CycleRuns, BeginCycle, BeginRecording, StartRecording,
       StopRecorder, SendStop, RecordFails, CloseSideChannel, RecordSucceeds,
       TailGraceEnds, SideChannelClosed, StreamerAnswers, CleanUp,
       ServerVars, HandlerVars, recVars, dgVars, flowVars
  <2>2. QED BY <2>1, FlowUntouched
<1>7. CASE Stop \/ Discard \/ SideChannelExits \/ WatchCancel \/ RecorderRuns
           \/ RecorderExits \/ UNCHANGED vars
  <2>1. UNCHANGED flowVars
    BY <1>7 DEF Stop, Discard, SideChannelExits, WatchCancel, RecorderRuns,
       RecorderGoesOn, NaturalExit, GracefulExit, GraceExpires, ForcedExit,
       CheckRecording, RecorderExits, RecorderChildExits,
       ServerVars, HandlerVars, recVars, dgVars, flowVars, vars
  <2>2. QED BY <2>1, FlowUntouched
<1>8. QED
  BY <1>1, <1>2, <1>3, <1>4, <1>5, <1>6, <1>7, SpeakFlows DEF Next

(* Nothing reaches the server before the streamer runs.                     *)
LEMMA StepNothing ==
  ControlInv /\ NothingSentYet /\ [Next]_vars => NothingSentYet'
<1> SUFFICES ASSUME ControlInv, NothingSentYet, [Next]_vars, streamer' = "none"
             PROVE  /\ streamer = "none"
                    /\ UNCHANGED <<link, sent, inbox, finals, hand, answered>>
  BY DEF NothingSentYet
<1>1. CASE CycleRuns
  BY <1>1 DEF CycleRuns, BeginCycle, BeginRecording, StopRecorder, RecordFails,
     CloseSideChannel, Transcribe, RecordSucceeds, TailGraceEnds, SideChannelClosed,
     StreamerAnswers, Deliver, CleanUp, ServerVars, HandlerVars, dgVars
<1>2. CASE StreamerRuns
  BY <1>2 DEF StreamerRuns, StreamGoesOn, Connect, SendAudio, EndAudio, EndDrain,
     StopClient, TakeText
<1>3. CASE ServerRuns
  BY <1>3 DEF ServerRuns, ServerAnswers, LinkIsLost, NothingSentYet
<1>4. CASE HandlerRuns
  BY <1>4 DEF HandlerRuns, HandlerGoesOn, TakeMessage, KeepFinal, NothingSentYet
<1>5. CASE Speak \/ Stop \/ Discard \/ SideChannelExits \/ WatchCancel \/ RecorderRuns
           \/ RecorderExits \/ UNCHANGED vars
  BY <1>5 DEF Speak, Stop, Discard, SideChannelExits, WatchCancel, RecorderRuns,
     RecorderExits, OthersUnchanged, ServerVars, HandlerVars, dgVars, vars
<1>6. QED BY <1>1, <1>2, <1>3, <1>4, <1>5 DEF Next

FlowInv == ControlInv /\ WordType /\ FlowWords /\ NothingSentYet

LEMMA InitFlow == Init => FlowInv
<1> SUFFICES ASSUME Init PROVE FlowInv OBVIOUS
<1>1. ControlInv /\ WordType BY InitControl, InitWords
<1>2. FlowWords /\ NothingSentYet
  BY DEF Init, RecorderInit, SessionInit, FlowWords, NothingSentYet, RecordingRises,
     PipeRises, SentRises, InboxRises, HandIsAhead, FinalsRise, SpokenOnce, Rising
<1>3. QED BY <1>1, <1>2 DEF FlowInv

THEOREM FlowIsSound == Spec => []FlowInv
<1>1. FlowInv /\ [Next]_vars => FlowInv'
  BY StepControl, StepWords, StepFlow, StepNothing DEF FlowInv
<1>2. QED BY InitFlow, <1>1, PTL DEF Spec

(* What was said is delivered at most once and in the order it was said     *)
(* (streaming.go:194-232, deepgram_stream.go:376-411).                      *)
THEOREM DeliveredOnce == Spec => []SpokenOnce
<1>1. FlowInv => SpokenOnce BY DEF FlowInv, FlowWords
<1>2. QED BY FlowIsSound, <1>1, PTL

-----------------------------------------------------------------------------
(* The end of the drain window.                                             *)

(* The drain window ends before the text is taken, and then at most the     *)
(* final in the handler's hands is added to what was taken.                 *)
DrainFollows ==
  /\ streamErr => streamer = "returned"
  /\ streamer \in {"stopping", "reading"} => drainEnded
  /\ streamer = "returned" /\ ~streamErr =>
       /\ drainEnded
       /\ \/ finals = text
          \/ /\ Len(finals) = Len(text) + 1
             /\ text = SubSeq(finals, 1, Len(text))
             /\ hand = "loaded" => late

DrainInv == ControlInv /\ WordType /\ DrainFollows

drainVars == <<streamer, streamErr, drainEnded, finals, text, hand, late>>

LEMMA DrainUntouched ==
  ASSUME DrainFollows, UNCHANGED drainVars
  PROVE  DrainFollows'
BY DEF DrainFollows, drainVars

LEMMA PrefixOfAppend ==
  ASSUME NEW S, NEW s \in Seq(S), NEW e \in S
  PROVE  SubSeq(Append(s, e), 1, Len(s)) = s
<1> DEFINE t == SubSeq(Append(s, e), 1, Len(s))
<1>1. Len(s) \in Nat /\ (\A i \in 1..Len(s) : Append(s, e)[i] = s[i] /\ s[i] \in S)
  BY AppendProperties, LenProperties, ElementOfSeq
<1>2. t \in Seq(S) /\ Len(t) = Len(s) /\ \A i \in 1..Len(s) : t[i] = s[i]
  BY <1>1, SubSeqProperties
<1>3. QED BY <1>2, SeqEqual

(* Of the final in the handler's hands only what was loaded before the end  *)
(* of the window is kept.                                                   *)
LEMMA KeepDrains ==
  ASSUME WordType, DrainFollows, KeepFinal
  PROVE  DrainFollows'
<1>1. /\ UNCHANGED <<streamer, streamErr, drainEnded, text>> /\ hand = "loaded"
      /\ hand' = "select" /\ finals' = IF late THEN finals ELSE Append(finals, segment)
  BY DEF KeepFinal
<1>2. CASE late \/ ~(streamer = "returned" /\ ~streamErr)
  BY <1>1, <1>2, SMTT(30) DEF DrainFollows
<1>3. CASE ~late /\ streamer = "returned" /\ ~streamErr
  <2>1. drainEnded /\ finals = text BY <1>1, <1>3 DEF DrainFollows
  <2>2. finals \in Seq(Words) /\ segment \in Words BY <1>1 DEF WordType
  <2>3. /\ finals' = Append(finals, segment) /\ finals' \in Seq(Words)
        /\ Len(finals) \in Nat /\ Len(finals') = Len(finals) + 1
        /\ \A i \in 1..Len(finals) : finals'[i] = finals[i]
    BY <1>1, <1>3, <2>2, AppendProperties, LenProperties
  <2>4. SubSeq(finals', 1, Len(finals)) = finals
    BY <1>1, <1>3, <2>2, PrefixOfAppend
  <2>5. QED BY <1>1, <1>3, <2>1, <2>3, <2>4 DEF DrainFollows
<1>4. QED BY <1>2, <1>3

LEMMA StepDrain == DrainInv /\ [Next]_vars => DrainFollows'
<1> SUFFICES ASSUME ControlInv, WordType, DrainFollows, [Next]_vars PROVE DrainFollows'
  BY DEF DrainInv
<1>1. CASE StreamerRuns
  BY <1>1 DEF StreamerRuns, StreamGoesOn, Connect, SendAudio, EndAudio, EndDrain,
     StopClient, TakeText, HandlerVars, DrainFollows
<1>2. CASE HandlerRuns
  <2>1. CASE TakeMessage BY <2>1 DEF TakeMessage, DrainFollows
  <2>2. QED BY <1>2, <2>1, KeepDrains DEF HandlerRuns, HandlerGoesOn
<1>3. CASE BeginCycle \/ Transcribe
  <2>1. streamer = "none"
    BY <1>3 DEF BeginCycle, Transcribe, ControlInv, StreamFollows, Recording
  <2>2. ~streamErr /\ ~streamErr' /\ streamer' \in {"none", "connecting"}
    BY <1>3, <2>1 DEF BeginCycle, Transcribe, DrainFollows
  <2>3. QED BY <2>2 DEF DrainFollows
<1>4. CASE CycleRuns /\ ~BeginCycle /\ ~Transcribe
  <2>1. UNCHANGED drainVars
    BY <1>4 DEF CycleRuns, BeginRecording, StopRecorder, RecordFails, CloseSideChannel,
       RecordSucceeds, TailGraceEnds, SideChannelClosed, StreamerAnswers, Deliver,
       CleanUp, HandlerVars, dgVars, drainVars
  <2>2. QED BY <2>1, DrainUntouched
<1>5. CASE Speak \/ Stop \/ Discard \/ SideChannelExits \/ WatchCancel \/ RecorderRuns
           \/ RecorderExits \/ ServerRuns \/ UNCHANGED vars
  <2>1. UNCHANGED drainVars
    BY <1>5 DEF Speak, Stop, Discard, SideChannelExits, WatchCancel, RecorderRuns,
       RecorderExits, ServerRuns, ServerAnswers, LinkIsLost, HandlerVars, dgVars,
       vars, drainVars
  <2>2. QED BY <2>1, DrainUntouched
<1>6. QED BY <1>1, <1>2, <1>3, <1>4, <1>5 DEF Next

(* The text holds all finals but at most the last                           *)
(* (deepgram_stream.go:398-411, 439-449).                                   *)
THEOREM OneSlipsAtMost == Spec => []AtMostOneSlips
<1>1. Init => DrainInv
  BY InitControl, InitWords DEF Init, SessionInit, DrainInv, DrainFollows
<1>2. DrainInv /\ [Next]_vars => DrainInv'
  BY StepControl, StepWords, StepDrain DEF DrainInv
<1>3. DrainInv => AtMostOneSlips
  <2> SUFFICES ASSUME DrainInv, streamer = "returned", ~streamErr
               PROVE  /\ Len(finals) - Len(text) \in {0, 1}
                      /\ text = SubSeq(finals, 1, Len(text))
    BY DEF AtMostOneSlips
  <2>1. finals \in Seq(Words) /\ Len(finals) \in Nat /\ Len(text) \in Nat
    BY LenProperties DEF DrainInv, WordType
  <2>2. CASE finals = text BY <2>1, <2>2, SubSeqFull
  <2>3. CASE Len(finals) = Len(text) + 1 /\ text = SubSeq(finals, 1, Len(text))
    BY <2>1, <2>3
  <2>4. QED BY <2>2, <2>3 DEF DrainInv, DrainFollows
<1>4. QED BY <1>1, <1>2, <1>3, PTL DEF Spec

-----------------------------------------------------------------------------
(* The whole of the types: what neither the control nor the words speak of, *)
(* the handler's channel that never holds more than its capacity among it.  *)
FlagType ==
  /\ recErr \in BOOLEAN /\ streaming \in BOOLEAN /\ pcmStopped \in BOOLEAN
  /\ recordDone \in BOOLEAN /\ ctxDone \in BOOLEAN
  /\ pipeEnd \in {"open", "eof", "closed"}
  /\ link \in {"none", "up", "lost", "closed"}
  /\ interim \in BOOLEAN /\ late \in BOOLEAN
  /\ drainEnded \in BOOLEAN /\ streamErr \in BOOLEAN
  /\ Len(inbox) <= Buffer

flagVars == <<recErr, streaming, pcmStopped, recordDone, ctxDone, pipeEnd, link, interim,
              late, drainEnded, streamErr, inbox>>

LEMMA TypeParts == ControlType /\ WordType /\ FlagType => TypeOK
  BY DEF ControlType, WordType, FlagType, TypeOK, RecorderType, SessionType, Messages, MaybeWord

LEMMA InitFlags == Init => FlagType
<1>1. Len(<<>>) <= Buffer
  BY BufferAssumption DEF BufferAssumption
<1>2. QED
  BY <1>1 DEF Init, RecorderInit, SessionInit, FlagType

(* The goroutine of Cycle.                                                  *)
LEMMA CycleFlags == ASSUME FlagType, CycleRuns PROVE FlagType'
<1>1. CASE BeginCycle
  <2>1. UNCHANGED <<recErr, recordDone, ctxDone, interim, late>>
    BY <1>1 DEF BeginCycle, ServerVars, HandlerVars, recVars, ctxVars
  <2>2. UNCHANGED <<pcmStopped, pipeEnd, link, drainEnded, streamErr, inbox>>
    BY <1>1 DEF BeginCycle
  <2>3. streaming' \in BOOLEAN
    <3>1. streaming' = TRUE \/ streaming' = streaming
      BY <1>1 DEF BeginCycle
    <3>2. QED
      BY <3>1 DEF FlagType
  <2>4. QED
    BY <2>1, <2>2, <2>3 DEF FlagType
<1>2. CASE BeginRecording
  BY <1>2 DEF FlagType, BeginRecording, StartRecording, dgVars, ctxVars,
              pcmVars
<1>3. CASE StopRecorder
  BY <1>3 DEF FlagType, StopRecorder, SendStop, dgVars, ctxVars, pcmVars
<1>4. CASE RecordFails
  <2>1. CASE streaming
    BY <1>4, <2>1 DEF FlagType, RecordFails, CloseSideChannel, Interrupt, ServerVars,
       HandlerVars, recVars, ctxVars
  <2>2. CASE ~streaming
    BY <1>4, <2>2 DEF FlagType, RecordFails, recVars, dgVars, ctxVars, pcmVars
  <2>3. QED BY <2>1, <2>2
<1>5. CASE Transcribe
  BY <1>5 DEF FlagType, Transcribe, ServerVars, HandlerVars, recVars, ctxVars,
              pcmVars
<1>6. CASE RecordSucceeds
  BY <1>6 DEF FlagType, RecordSucceeds, recVars, dgVars, ctxVars, pcmVars
<1>7. CASE TailGraceEnds
  BY <1>7 DEF FlagType, TailGraceEnds, CloseSideChannel, Interrupt, ServerVars,
              HandlerVars, recVars, ctxVars
<1>8. CASE SideChannelClosed
  BY <1>8 DEF FlagType, SideChannelClosed, recVars, dgVars, ctxVars
<1>9. CASE StreamerAnswers
  BY <1>9 DEF FlagType, StreamerAnswers, recVars, dgVars, ctxVars, pcmVars
<1>10. CASE Deliver
  BY <1>10 DEF FlagType, Deliver, recVars, dgVars, ctxVars, pcmVars
<1>11. CASE CleanUp
  BY <1>11 DEF FlagType, CleanUp, dgVars, ctxVars, pcmVars
<1>12. QED
  BY <1>1, <1>2, <1>3, <1>4, <1>5, <1>6, <1>7, <1>8, <1>9, <1>10, <1>11 DEF CycleRuns

(* The recorder and its child.                                              *)
LEMMA RecorderFlags == ASSUME FlagType, RecorderRuns \/ RecorderExits PROVE FlagType'
<1>1. CASE RecorderRuns
  <2>1. UNCHANGED <<streaming, pcmStopped, recordDone, ctxDone, pipeEnd, link,
                    interim, late, drainEnded, streamErr, inbox>>
    BY <1>1 DEF RecorderRuns, dgVars, pcmVars, ctxVars
  <2>2. recErr' \in BOOLEAN
    BY <1>1 DEF FlagType, RecorderRuns, RecorderGoesOn, NaturalExit, GracefulExit,
       GraceExpires, ForcedExit, CheckRecording
  <2>3. QED BY <2>1, <2>2 DEF FlagType
<1>2. CASE RecorderExits
  BY <1>2 DEF FlagType, RecorderExits, RecorderChildExits, dgVars, pcmVars, ctxVars
<1>3. QED BY <1>1, <1>2

(* The user, the side channel's child and its watchdog.                     *)
LEMMA AroundFlags ==
  ASSUME FlagType, Speak \/ Stop \/ Discard \/ SideChannelExits \/ WatchCancel
  PROVE  FlagType'
<1>1. CASE Speak
  BY <1>1 DEF FlagType, Speak, RecorderHears, ServerVars, HandlerVars, ctxVars,
              pcmVars
<1>2. CASE Stop
  BY <1>2 DEF FlagType, Stop, recVars, dgVars, pcmVars
<1>3. CASE Discard
  BY <1>3 DEF FlagType, Discard, recVars, dgVars, pcmVars
<1>4. CASE SideChannelExits
  BY <1>4 DEF FlagType, SideChannelExits, ServerVars, HandlerVars, recVars,
              ctxVars
<1>5. CASE WatchCancel
  BY <1>5 DEF FlagType, WatchCancel, Interrupt, recVars, dgVars, ctxVars
<1>6. QED BY <1>1, <1>2, <1>3, <1>4, <1>5

(* The live session.                                                        *)
LEMMA SessionFlags ==
  ASSUME WordType, FlagType, StreamerRuns \/ ServerRuns \/ HandlerRuns
  PROVE  FlagType'
<1>1. UNCHANGED <<recErr, streaming, pcmStopped, recordDone, ctxDone>>
  BY DEF StreamerRuns, ServerRuns, HandlerRuns, OthersUnchanged, recVars, pcmVars, ctxVars
<1>2. CASE StreamerRuns
  <2>1. UNCHANGED <<interim, late, inbox, pipeEnd>>
    BY <1>2 DEF StreamerRuns, StreamGoesOn, Connect, SendAudio, EndAudio, EndDrain,
       StopClient, TakeText, SourceVars, ServerVars, HandlerVars
  <2>2. link' \in {"none", "up", "lost", "closed"}
    BY <1>2 DEF FlagType, StreamerRuns, StreamGoesOn, Connect, SendAudio, EndAudio, EndDrain,
       StopClient, TakeText
  <2>3. drainEnded' \in BOOLEAN
    BY <1>2 DEF FlagType, StreamerRuns, StreamGoesOn, Connect, SendAudio, EndAudio, EndDrain,
       StopClient, TakeText
  <2>4. streamErr' \in BOOLEAN
    BY <1>2 DEF FlagType, StreamerRuns, StreamGoesOn, Connect, SendAudio, EndAudio, EndDrain,
       StopClient, TakeText
  <2>5. QED
    BY <1>1, <2>1, <2>2, <2>3, <2>4 DEF FlagType
<1>3. CASE LinkIsLost
  BY <1>1, <1>3 DEF FlagType, LinkIsLost, SourceVars, ServerVars, HandlerVars
<1>4. CASE ServerAnswers
  <2>1. UNCHANGED <<pipeEnd, link, late, drainEnded, streamErr>> /\ interim' \in BOOLEAN
    BY <1>4 DEF ServerAnswers, SourceVars, HandlerVars
  <2>2. inbox \in Seq(Messages) /\ Len(inbox) \in Nat /\ Buffer \in Nat
    BY LenProperties, BufferAssumption DEF WordType, BufferAssumption
  <2>3. Len(inbox') <= Buffer
    <3>1. CASE UNCHANGED inbox
      BY <3>1 DEF FlagType
    <3>2. ASSUME NEW isFinal \in BOOLEAN, Answer(isFinal), Len(inbox) < Buffer
          PROVE  Len(inbox') <= Buffer
      <4>1. answered < Len(sent)
        BY <1>4 DEF ServerAnswers
      <4>2. Len(inbox') = Len(inbox) + 1
        <5>1. answered + 1 \in 1..Len(sent) /\ sent \in Seq(Words)
          BY <4>1, LenProperties DEF WordType
        <5>2. [word |-> sent[answered + 1], final |-> isFinal] \in Messages
          BY <5>1, ElementOfSeq DEF Messages
        <5>3. QED
          BY <2>2, <3>2, <5>2, AppendProperties DEF Answer
      <4>3. QED
        BY <2>2, <3>2, <4>2
    <3>3. QED
      BY <1>4, <3>1, <3>2 DEF ServerAnswers
  <2>4. QED
    BY <1>1, <2>1, <2>3 DEF FlagType
<1>5. CASE TakeMessage
  <2>1. Len(inbox') <= Buffer
    <3>1. inbox \in Seq(Messages) /\ inbox # <<>> /\ inbox' = Tail(inbox)
      BY <1>5 DEF TakeMessage, WordType
    <3>2. Len(inbox') = Len(inbox) - 1 /\ Len(inbox) \in Nat
      BY <3>1, HeadTailProperties, LenProperties
    <3>3. QED
      BY <3>2, BufferAssumption DEF FlagType, BufferAssumption
  <2>2. UNCHANGED <<pipeEnd, link, interim, drainEnded, streamErr>> /\ late' \in BOOLEAN
    BY <1>5 DEF FlagType, TakeMessage, SourceVars, ServerVars
  <2>3. QED
    BY <1>1, <2>1, <2>2 DEF FlagType
<1>6. CASE KeepFinal
  BY <1>1, <1>6 DEF FlagType, KeepFinal, SourceVars, ServerVars
<1>7. QED
  BY <1>2, <1>3, <1>4, <1>5, <1>6 DEF ServerRuns, HandlerRuns, HandlerGoesOn

LEMMA StepFlags == WordType /\ FlagType /\ [Next]_vars => FlagType'
<1> SUFFICES ASSUME WordType, FlagType, [Next]_vars PROVE FlagType' OBVIOUS
<1>1. CASE UNCHANGED vars
  BY <1>1 DEF vars, recVars, dgVars, pcmVars, ctxVars, FlagType
<1>2. QED
  BY <1>1, CycleFlags, RecorderFlags, AroundFlags, SessionFlags DEF Next

(* Every variable keeps its type, and the SDK never has more than messageChan *)
(* takes, for any number of words and any capacity (deepgram_stream.go).    *)
THEOREM TypeCorrect == Spec => []TypeOK
<1>1. ControlInv /\ WordType /\ FlagType => TypeOK
  BY TypeParts DEF ControlInv
<1>2. QED
  BY InitControl, StepControl, InitWords, StepWords, InitFlags, StepFlags, <1>1, PTL DEF Spec
=============================================================================
