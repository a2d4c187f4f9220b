---------------------------- MODULE SttStackProofs ----------------------------
(***************************************************************************)
(* Proofs about SttStack for any number of users, models and attempts, and  *)
(* for any recordings: the memory of the local model is sound, and no       *)
(* recording is uploaded again that the server has answered or that the     *)
(* user has given up.                                                       *)
(***************************************************************************)
EXTENDS SttStack, SequenceTheorems, FiniteSetTheorems, TLAPS

HttpProviders == Cloud \cup {"go-whisper"}

-----------------------------------------------------------------------------
(* The inductive invariant.                                                 *)

(* The local model: who computes has the mutex, and nobody else.            *)
MutexFollows ==
  /\ \A u \in Users : call[u] = "computing" <=> mu = u
  /\ ctx <= born

(* Every upload has an attempt of its own, and one more attempt is allowed  *)
(* where the next one is decided on.                                        *)
UploadsCounted ==
  /\ Len(uploads) <= attempt
  /\ caller = "gate" => attempt = 0
  /\ caller \in {"attempt", "sending"} => Len(uploads) < attempt
  /\ caller = "sent" => Len(uploads) > 0
  /\ caller = "sleep" => attempt < attempts
  /\ caller \in {"sending", "sent"} => provider \in HttpProviders

(* No answer lies behind the last upload, and none at all where another     *)
(* upload may follow.                                                       *)
MayRepeat ==
  \/ caller \in {"gate", "attempt", "sending", "sleep"}
  \/ caller = "failed" /\ Retryable(err)

AnswersEnd ==
  /\ \A i \in 1..Len(uploads) - 1 : uploads[i] # "answered"
  /\ MayRepeat => \A i \in 1..Len(uploads) : uploads[i] # "answered"

IInv == TypeOK /\ ModelMemory /\ MutexFollows /\ UploadsCounted /\ AnswersEnd

ModelInv == ModelType /\ ModelMemory /\ MutexFollows

-----------------------------------------------------------------------------
(* No call of any user breaks the memory of the C library.                  *)
LEMMA ModelCallKeeps ==
  ASSUME ModelInv, NEW u \in Users, ModelCalls(u)
  PROVE  ModelInv'
<1> USE WhisperAssumption DEF ModelInv, ModelType, ModelMemory, MutexFollows, CallSteps, NoCtx
<1>1. CASE LoadModel(u)
  BY <1>1 DEF LoadModel, Allocate
<1>2. CASE ReloadBegins(u)
  BY <1>2 DEF ReloadBegins, Step
<1>3. CASE ReloadModel(u)
  BY <1>3 DEF ReloadModel, Allocate, Step
<1>4. CASE Close(u)
  BY <1>4 DEF Close
<1>5. CASE AskModel(u)
  BY <1>5 DEF AskModel, Step
<1>6. CASE \E cancelled \in BOOLEAN : Compute(u, cancelled)
  BY <1>6 DEF Compute, Step
<1>7. CASE Computed(u)
  BY <1>7 DEF Computed, Step
<1>8. QED
  BY <1>1, <1>2, <1>3, <1>4, <1>5, <1>6, <1>7 DEF ModelCalls

LEMMA ModelUntouched ==
  ASSUME ModelInv, UNCHANGED modelVars
  PROVE  ModelInv'
BY DEF ModelInv, ModelType, ModelMemory, MutexFollows, modelVars

(* Every step leaves the local model alone or is a call of it.              *)
LEMMA StackMeetsModel ==
  ASSUME TypeOK, Next
  PROVE  UNCHANGED modelVars \/ \E u \in Users : ModelCalls(u)
<1> USE StackAssumption
<1>1. CASE Cancel BY <1>1 DEF Cancel
<1>2. CASE OtherCalls BY <1>2 DEF OtherCalls
<1>3. CASE TranscribeLocally
  BY <1>3 DEF TranscribeLocally, ModelCalls, StackAssumption
<1>4. CASE TakeModel
  <2>1. ctxDone \in BOOLEAN BY DEF TypeOK
  <2>2. Compute(Dictation, ctxDone) BY <1>4 DEF TakeModel
  <2>3. ModelCalls(Dictation) BY <2>1, <2>2 DEF ModelCalls
  <2>4. QED BY <2>3 DEF StackAssumption
<1>5. CASE ModelAnswers
  BY <1>5 DEF ModelAnswers, ModelCalls, StackAssumption
<1>6. CASE Gate BY <1>6 DEF Gate
<1>7. CASE BuildRequest BY <1>7 DEF BuildRequest
<1>8. CASE RequestFails BY <1>8 DEF RequestFails
<1>9. CASE LazyError BY <1>9 DEF LazyError
<1>10. CASE Decide BY <1>10 DEF Decide
<1>11. CASE Sleep BY <1>11 DEF Sleep
<1>12. CASE Send BY <1>12 DEF Send
<1>13. CASE Answer BY <1>13 DEF Answer
<1>14. QED
  BY <1>1, <1>2, <1>3, <1>4, <1>5, <1>6, <1>7, <1>8, <1>9, <1>10, <1>11,
     <1>12, <1>13 DEF Next, StackRuns

-----------------------------------------------------------------------------
(* The uploads and the audit.                                               *)

Ends == {"pending", "lost", "cut", "answered"}
Rows == [outcome : {"ok", "empty", "build_err", "network_err",
                    "decode_err", "4xx", "5xx", "non_2xx"},
         status : Statuses \cup {"0"}]

(* What Settle does to the uploads: the last one alone is changed.          *)
LEMMA SettleFacts ==
  ASSUME uploads \in Seq(Ends), Len(uploads) > 0, NEW end \in Ends, Settle(end)
  PROVE  /\ uploads' \in Seq(Ends) /\ Len(uploads') = Len(uploads)
         /\ \A i \in 1..Len(uploads) - 1 : uploads'[i] = uploads[i]
         /\ uploads'[Len(uploads)] = end
<1>1. Len(uploads) \in 1..Len(uploads) /\ Len(uploads) \in Nat
  BY LenProperties
<1>2. QED BY <1>1, ExceptSeq DEF Settle

(* What LogEvent does to the log of a cloud provider: the event is its next *)
(* line, or is one line more that is missing.                               *)
Logged(r) ==
  \/ rows' = Append(rows, r) /\ dropped' = dropped
  \/ rows' = rows /\ dropped' = dropped + 1

LEMMA LogFacts ==
  ASSUME rows \in Seq(Rows), dropped \in Nat, NEW outcome,
         NEW status \in Statuses \cup {"0"},
         provider \in Cloud => outcome \in {"ok", "empty", "build_err", "network_err",
                                            "decode_err", "4xx", "5xx", "non_2xx"},
         Log(outcome, status)
  PROVE  /\ rows' \in Seq(Rows) /\ dropped' \in Nat
         /\ provider \in Cloud => Logged([outcome |-> outcome, status |-> status])
<1>1. CASE provider \in Cloud
  <2>1. [outcome |-> outcome, status |-> status] \in Rows BY <1>1 DEF Rows
  <2>2. Logged([outcome |-> outcome, status |-> status]) BY <1>1 DEF Log, Logged
  <2>3. QED BY <2>1, <2>2, AppendProperties DEF Logged
<1>2. CASE provider \notin Cloud BY <1>2 DEF Log, audit
<1>3. QED BY <1>1, <1>2

(* What the providers make of an answer: an error that is worth a retry is  *)
(* that of a body which was cut off.                                        *)
LEMMA AnswerFacts ==
  ASSUME provider \in HttpProviders, NEW status \in Statuses, NEW body \in Bodies
  PROVE  LET answer == ProviderAnswer(status, body)
         IN /\ answer.error \in Errors \cup {"none"}
            /\ Retryable(answer.error) => body = "cut"
            /\ provider \in Cloud => answer.outcome \in
                 {"ok", "empty", "build_err", "network_err",
                  "decode_err", "4xx", "5xx", "non_2xx"}
<1> USE DEF Success, ErrorOf, Errors, Bodies, Statuses, Retryable, Bucket
<1>1. CASE provider = "openai"
  BY <1>1 DEF ProviderAnswer, OpenAIAnswer
<1>2. CASE provider = "deepgram"
  BY <1>2 DEF ProviderAnswer, DeepgramAnswer
<1>3. CASE provider = "go-whisper"
  BY <1>3 DEF ProviderAnswer, GoWhisperAnswer, Cloud
<1>4. QED BY <1>1, <1>2, <1>3 DEF HttpProviders, Cloud

(* TypeOK without the model, and all that the proofs say of the stack.      *)
StackType ==
  /\ recording \in Recordings /\ gated \in BOOLEAN
  /\ provider \in Providers
  /\ attempts \in 1..MaxAttempts
  /\ caller \in CallerSteps
  /\ attempt \in 0..attempts
  /\ err \in Errors \cup {"none"}
  /\ result \in {"none", "text", "empty", "error"}
  /\ ctxDone \in BOOLEAN
  /\ uploads \in Seq(Ends)
  /\ rows \in Seq(Rows)
  /\ dropped \in Nat

StackInv == StackType /\ UploadsCounted /\ AnswersEnd

LEMMA Split == IInv <=> ModelInv /\ StackInv
BY DEF IInv, TypeOK, ModelInv, StackInv, StackType, Ends, Rows

LEMMA InitStack == Init => StackInv
<1> SUFFICES ASSUME Init PROVE StackInv OBVIOUS
<1>1. /\ <<>> \in Seq(Ends) /\ <<>> \in Seq(Rows) /\ Len(<<>>) = 0
  OBVIOUS
<1>2. StackType
  <2>1. attempts \in 1..MaxAttempts /\ attempt \in 0..attempts
    BY StackAssumption DEF Init, StackAssumption
  <2>2. uploads \in Seq(Ends) /\ rows \in Seq(Rows)
    BY <1>1 DEF Init
  <2>3. QED BY <2>1, <2>2 DEF Init, StackType, CallerSteps
<1>3. UploadsCounted /\ AnswersEnd
  BY <1>1 DEF Init, UploadsCounted, AnswersEnd
<1>4. QED BY <1>2, <1>3 DEF StackInv

(* A step that leaves the stack alone.                                      *)
LEMMA StackUntouched ==
  ASSUME StackInv, UNCHANGED stackVars
  PROVE  StackInv'
BY DEF StackInv, StackType, UploadsCounted, AnswersEnd, MayRepeat, stackVars, input, audit

LEMMA LocalKeeps ==
  ASSUME StackInv, Cancel \/ Gate \/ LazyError \/ TranscribeLocally \/ TakeModel
                     \/ ModelAnswers \/ Decide \/ Sleep
  PROVE  StackInv'
<1> USE StackAssumption DEF StackInv, StackType, UploadsCounted, AnswersEnd, MayRepeat,
      CallerSteps, Errors, Return, Fail, Retryable, input, audit, Ends
<1>0. Len(uploads) \in Nat BY LenProperties
<1>1. CASE Cancel BY <1>0, <1>1 DEF Cancel
<1>2. CASE Gate BY <1>0, <1>2 DEF Gate
<1>3. CASE LazyError BY <1>0, <1>3 DEF LazyError
<1>4. CASE TranscribeLocally BY <1>0, <1>4 DEF TranscribeLocally
<1>5. CASE TakeModel BY <1>0, <1>5 DEF TakeModel
<1>6. CASE ModelAnswers BY <1>0, <1>6 DEF ModelAnswers
<1>7. CASE Decide BY <1>0, <1>7 DEF Decide
<1>8. CASE Sleep BY <1>0, <1>8 DEF Sleep
<1>9. QED BY <1>1, <1>2, <1>3, <1>4, <1>5, <1>6, <1>7, <1>8

LEMMA BuildKeeps ==
  ASSUME StackInv, BuildRequest
  PROVE  StackInv'
<1> USE DEF StackInv, StackType, input
<1>1. /\ caller = "attempt" /\ caller' \in {"sending", "failed"}
      /\ caller' = "sending" => provider \in HttpProviders
      /\ err' \in Errors \cup {"none"}
      /\ caller' = "failed" => err' \in {"permanent", "canceled"}
      /\ UNCHANGED <<input, attempt, result, ctxDone, uploads>>
  BY DEF BuildRequest, BuildOpenAI, BuildDeepgram, BuildGoWhisper, Fail, HttpProviders, Cloud,
         Errors
<1>2. rows' \in Seq(Rows) /\ dropped' \in Nat
  <2>1. CASE BuildOpenAI BY <2>1, LogFacts DEF BuildOpenAI, audit
  <2>2. CASE BuildDeepgram BY <2>2, LogFacts DEF BuildDeepgram, audit
  <2>3. CASE BuildGoWhisper BY <2>3 DEF BuildGoWhisper, audit
  <2>4. QED BY <2>1, <2>2, <2>3 DEF BuildRequest
<1>3. StackType' BY <1>1, <1>2 DEF CallerSteps
<1>4. UploadsCounted' BY <1>1 DEF UploadsCounted
<1>5. AnswersEnd' BY <1>1 DEF AnswersEnd, MayRepeat, Retryable
<1>6. QED BY <1>3, <1>4, <1>5

LEMMA SendKeeps ==
  ASSUME StackInv, Send
  PROVE  StackInv'
<1> USE DEF StackInv, StackType, input, audit, Send
<1>0. /\ Len(uploads) \in Nat /\ uploads' \in Seq(Ends)
      /\ Len(uploads') = Len(uploads) + 1
      /\ \A i \in 1..Len(uploads) : uploads'[i] = uploads[i]
      /\ uploads'[Len(uploads) + 1] = "pending"
  BY AppendProperties, LenProperties DEF Ends
<1>1. StackType' BY <1>0 DEF CallerSteps
<1>2. UploadsCounted' BY <1>0 DEF UploadsCounted
<1>3. AnswersEnd' BY <1>0 DEF AnswersEnd, MayRepeat
<1>4. QED BY <1>1, <1>2, <1>3

LEMMA FailKeeps ==
  ASSUME StackInv, RequestFails
  PROVE  StackInv'
<1> USE DEF StackInv, StackType, input
<1>1. /\ caller \in {"sending", "sent"} /\ caller' = "failed"
      /\ err' \in Errors /\ UNCHANGED <<input, attempt, result, ctxDone>>
  BY DEF RequestFails, Fail, Errors
<1>2. rows' \in Seq(Rows) /\ dropped' \in Nat
  BY LogFacts DEF RequestFails
<1>3. Len(uploads) \in Nat BY LenProperties
<1>4. /\ uploads' \in Seq(Ends) /\ Len(uploads') = Len(uploads)
      /\ \A i \in 1..Len(uploads) : uploads'[i] # "answered"
  <2>1. CASE caller = "sending"
    BY <2>1 DEF RequestFails, AnswersEnd, MayRepeat
  <2>2. CASE caller = "sent"
    <3>1. Len(uploads) > 0 BY <2>2 DEF UploadsCounted
    <3>2. Settle("lost") BY <2>2 DEF RequestFails
    <3>3. /\ uploads' \in Seq(Ends) /\ Len(uploads') = Len(uploads)
          /\ \A i \in 1..Len(uploads) - 1 : uploads'[i] = uploads[i]
          /\ uploads'[Len(uploads)] = "lost"
      BY <3>1, <3>2, SettleFacts DEF Ends
    <3>4. QED BY <1>3, <3>3 DEF AnswersEnd
  <2>3. QED BY <1>1, <2>1, <2>2
<1>5. StackType' BY <1>1, <1>2, <1>4 DEF CallerSteps
<1>6. UploadsCounted' BY <1>1, <1>3, <1>4 DEF UploadsCounted
<1>7. AnswersEnd' BY <1>3, <1>4 DEF AnswersEnd
<1>8. QED BY <1>5, <1>6, <1>7

LEMMA AnswerKeeps ==
  ASSUME StackInv, Answer
  PROVE  StackInv'
<1> USE DEF StackInv, StackType, input
<1>1. PICK status \in Statuses, body \in Bodies :
        /\ Settle(IF body \in Errors THEN "cut" ELSE "answered")
        /\ LET answer == ProviderAnswer(status, body)
           IN /\ IF answer.error = "none"
                 THEN Return(IF body = "text" THEN "text" ELSE "empty") /\ UNCHANGED err
                 ELSE Fail(answer.error)
              /\ Log(answer.outcome, status)
  BY DEF Answer
<1> DEFINE answer == ProviderAnswer(status, body)
           end == IF body \in Errors THEN "cut" ELSE "answered"
<1>2. /\ caller = "sent" /\ provider \in HttpProviders /\ Len(uploads) > 0
      /\ UNCHANGED <<input, attempt, ctxDone>> /\ Len(uploads) \in Nat
  BY LenProperties DEF Answer, UploadsCounted
<1>3. /\ answer.error \in Errors \cup {"none"}
      /\ Retryable(answer.error) => body = "cut"
      /\ provider \in Cloud => answer.outcome \in
           {"ok", "empty", "build_err", "network_err",
            "decode_err", "4xx", "5xx", "non_2xx"}
  BY <1>2, AnswerFacts
<1> HIDE DEF answer
<1>4. /\ uploads' \in Seq(Ends) /\ Len(uploads') = Len(uploads)
      /\ \A i \in 1..Len(uploads) - 1 : uploads'[i] = uploads[i]
      /\ uploads'[Len(uploads)] = end
  <2>1. end \in Ends BY DEF Ends
  <2>2. Settle(end) BY <1>1
  <2>3. QED BY <1>2, <2>1, <2>2, SettleFacts
<1>5. /\ caller' \in {"returned", "failed"} /\ err' \in Errors \cup {"none"}
      /\ result' \in {"none", "text", "empty", "error"}
      /\ caller' = "failed" /\ Retryable(err') => body = "cut"
  BY <1>1, <1>3 DEF Return, Fail, answer
<1>6. rows' \in Seq(Rows) /\ dropped' \in Nat
  <2>1. Log(answer.outcome, status) BY <1>1 DEF answer
  <2>2. QED BY <1>3, <2>1, LogFacts
<1>7. StackType' BY <1>2, <1>4, <1>5, <1>6 DEF CallerSteps
<1>8. UploadsCounted' BY <1>2, <1>4, <1>5 DEF UploadsCounted
<1>9. AnswersEnd'
  <2>1. \A i \in 1..Len(uploads') - 1 : uploads'[i] # "answered"
    BY <1>2, <1>4 DEF AnswersEnd
  <2>2. MayRepeat' => uploads'[Len(uploads)] = "cut"
    BY <1>4, <1>5 DEF MayRepeat, Errors
  <2>3. QED BY <1>2, <1>4, <2>1, <2>2 DEF AnswersEnd
<1>10. QED BY <1>7, <1>8, <1>9

-----------------------------------------------------------------------------
LEMMA InitIInv == Init => IInv
<1> SUFFICES ASSUME Init PROVE IInv OBVIOUS
<1>1. ModelInv
  BY WhisperAssumption
  DEF Init, ModelInit, ModelInv, ModelType, ModelMemory, MutexFollows, CallSteps, NoCtx
<1>2. QED BY <1>1, InitStack, Split

LEMMA StepIInv == IInv /\ [Next]_vars => IInv'
<1> SUFFICES ASSUME IInv, [Next]_vars PROVE IInv' OBVIOUS
<1>1. ModelInv /\ StackInv BY Split
<1>2. CASE UNCHANGED vars
  <2>1. ModelInv' BY <1>1, <1>2, ModelUntouched DEF vars
  <2>2. StackInv' BY <1>1, <1>2, StackUntouched DEF vars
  <2>3. QED BY <2>1, <2>2, Split, PTL
<1>3. CASE Next
  <2>1. ModelInv'
    <3>1. TypeOK BY DEF IInv
    <3>2. UNCHANGED modelVars \/ \E u \in Users : ModelCalls(u)
      BY <1>3, <3>1, StackMeetsModel
    <3>3. QED BY <1>1, <3>2, ModelUntouched, ModelCallKeeps
  <2>2. StackInv'
    <3>1. CASE OtherCalls BY <1>1, <3>1, StackUntouched DEF OtherCalls
    <3>2. CASE BuildRequest BY <1>1, <3>2, BuildKeeps
    <3>3. CASE Send BY <1>1, <3>3, SendKeeps
    <3>4. CASE RequestFails BY <1>1, <3>4, FailKeeps
    <3>5. CASE Answer BY <1>1, <3>5, AnswerKeeps
    <3>6. CASE Cancel \/ Gate \/ LazyError \/ TranscribeLocally \/ TakeModel
                 \/ ModelAnswers \/ Decide \/ Sleep
      BY <1>1, <3>6, LocalKeeps
    <3>7. QED BY <1>3, <3>1, <3>2, <3>3, <3>4, <3>5, <3>6 DEF Next, StackRuns
  <2>3. QED BY <2>1, <2>2, Split, PTL
<1>4. QED BY <1>2, <1>3

(* Every value stays what the declarations of the Go code make of it.       *)
THEOREM TypeCorrect == Spec => []TypeOK
<1>1. IInv => TypeOK BY DEF IInv
<1>2. QED BY InitIInv, StepIInv, <1>1, PTL DEF Spec

THEOREM Invariance == Spec => []IInv
BY InitIInv, StepIInv, PTL DEF Spec

(* The C library's memory is sound whatever the users of one transcriber do *)
(* (whisper.go:67-152, 279-291).                                            *)
THEOREM MemoryIsSound == Spec => []ModelMemory
<1>1. IInv => ModelMemory BY DEF IInv
<1>2. QED BY Invariance, <1>1, PTL

(* No recording that was answered is uploaded again, and none more often    *)
(* than the configuration allows (retry.go:86-140).                         *)
THEOREM AnsweredOnce == Spec => []NoAnswerAskedTwice
<1>1. IInv => NoAnswerAskedTwice
  <2> SUFFICES ASSUME IInv PROVE NoAnswerAskedTwice OBVIOUS
  <2>1. /\ attempt \in 0..attempts /\ attempts \in 1..MaxAttempts
        /\ uploads \in Seq(Ends)
    BY DEF IInv, TypeOK, Ends
  <2>2. Len(uploads) \in Nat BY <2>1, LenProperties
  <2>3. QED BY <2>1, <2>2, StackAssumption
        DEF IInv, UploadsCounted, AnswersEnd, NoAnswerAskedTwice, StackAssumption
<1>2. QED BY Invariance, <1>1, PTL

(* Only Send lets a recording leave, and it leaves none that the user has   *)
(* given up (openai.go:156-164).                                            *)
THEOREM NothingAfterCancel == Spec => NothingUploadedAfterCancel
<1>1. IInv /\ [Next]_vars => [ctxDone => Len(uploads') = Len(uploads)]_vars
  <2> SUFFICES ASSUME IInv, Next, ctxDone PROVE Len(uploads') = Len(uploads)
    BY DEF vars, stackVars
  <2>1. StackInv BY Split
  <2>2. uploads \in Seq(Ends) BY <2>1 DEF StackInv, StackType
  <2>3. CASE RequestFails
    <3>1. CASE caller = "sent"
      <4>1. Len(uploads) > 0 BY <2>1, <3>1 DEF StackInv, UploadsCounted
      <4>2. Settle("lost") BY <2>3, <3>1 DEF RequestFails
      <4>3. QED BY <2>2, <4>1, <4>2, SettleFacts DEF Ends
    <3>2. CASE caller # "sent" BY <2>3, <3>2 DEF RequestFails
    <3>3. QED BY <3>1, <3>2
  <2>4. CASE Answer
    <3>1. Len(uploads) > 0 BY <2>1, <2>4 DEF StackInv, UploadsCounted, Answer
    <3>2. PICK end \in Ends : Settle(end) BY <2>4 DEF Answer, Ends
    <3>3. QED BY <2>2, <3>1, <3>2, SettleFacts
  <2>5. CASE UNCHANGED uploads BY <2>5
  <2>6. CASE OtherCalls BY <2>6 DEF OtherCalls, stackVars
  <2>7. QED
    BY <2>3, <2>4, <2>5, <2>6
    DEF Next, StackRuns, Cancel, Gate, BuildRequest, Send, LazyError, TranscribeLocally,
        TakeModel, ModelAnswers, Decide, Sleep
<1>2. QED BY Invariance, <1>1, PTL DEF Spec, NothingUploadedAfterCancel

-----------------------------------------------------------------------------
(* The audit of a cloud provider: a line, written or lost, for each attempt *)
(* that is over, one with a status for each upload that was answered, and   *)
(* the only one that tells of a success is the last, when it was returned.  *)
Good == {"ok", "empty"}

AuditInv ==
  provider \in Cloud =>
    /\ call[Dictation] = "idle"
    /\ Len(rows) + dropped =
         IF caller \in {"attempt", "sending", "sent"} THEN attempt - 1 ELSE attempt
    /\ Len(uploads) <= Len(rows) + dropped + (IF caller = "sent" THEN 1 ELSE 0)
    /\ caller = "sent" => uploads[Len(uploads)] = "pending"
    /\ Cardinality(Statused) <= Cardinality(Heard)
    /\ Cardinality(Heard) <= Cardinality(Statused) + dropped
    /\ \A i \in 1..Len(rows) :
         rows[i].outcome \in Good =>
           i = Len(rows) /\ caller = "returned" /\ result # "error"
    /\ dropped = 0 /\ attempt > 0 /\ caller = "returned" /\ result # "error" =>
         rows[attempt].outcome \in Good

(* What one more event, one more upload and the end of the last one do to   *)
(* the counts.                                                              *)
LEMMA Counts ==
  ASSUME StackType
  PROVE  /\ Len(rows) \in Nat /\ Len(uploads) \in Nat /\ dropped \in Nat
         /\ DOMAIN rows = 1..Len(rows) /\ DOMAIN uploads = 1..Len(uploads)
         /\ IsFiniteSet(Statused) /\ IsFiniteSet(Heard)
         /\ Cardinality(Statused) \in Nat /\ Cardinality(Heard) \in Nat
<1>1. /\ Len(rows) \in Nat /\ Len(uploads) \in Nat
      /\ DOMAIN rows = 1..Len(rows) /\ DOMAIN uploads = 1..Len(uploads)
  BY LenProperties DEF StackType
<1>2. IsFiniteSet(1..Len(rows)) /\ IsFiniteSet(1..Len(uploads))
  BY <1>1, FS_Interval
<1>3. Statused \subseteq 1..Len(rows) /\ Heard \subseteq 1..Len(uploads)
  BY <1>1 DEF Statused, Heard
<1>4. IsFiniteSet(Statused) /\ IsFiniteSet(Heard)
  BY <1>2, <1>3, FS_Subset
<1>5. QED
  BY <1>1, <1>4, FS_CardinalityType DEF StackType

LEMMA LogCounts ==
  ASSUME StackType, NEW r \in Rows, rows' = Append(rows, r)
  PROVE  /\ Len(rows') = Len(rows) + 1
         /\ \A i \in 1..Len(rows) : rows'[i] = rows[i]
         /\ rows'[Len(rows) + 1] = r
         /\ Cardinality(Statused') =
              Cardinality(Statused) + (IF r.status = "0" THEN 0 ELSE 1)
<1>0. DOMAIN rows = 1..Len(rows) /\ IsFiniteSet(Statused) /\ Len(rows) \in Nat
      /\ Cardinality(Statused) \in Nat
  BY Counts
<1>1. /\ rows' \in Seq(Rows) /\ Len(rows') = Len(rows) + 1
      /\ \A i \in 1..Len(rows) : rows'[i] = rows[i]
      /\ rows'[Len(rows) + 1] = r
  BY AppendProperties DEF StackType
<1>2. DOMAIN rows' = 1..Len(rows) + 1
  BY <1>1, LenProperties
<1>3. CASE r.status = "0"
  <2>1. Statused' = Statused
    BY <1>0, <1>1, <1>2, <1>3 DEF Statused
  <2>2. QED
    BY <1>0, <1>1, <1>3, <2>1
<1>4. CASE r.status # "0"
  <2>1. Statused' = Statused \cup {Len(rows) + 1}
    BY <1>0, <1>1, <1>2, <1>4 DEF Statused
  <2>2. Len(rows) + 1 \notin Statused
    BY <1>0 DEF Statused
  <2>3. QED
    BY <1>0, <1>1, <1>4, <2>1, <2>2, FS_AddElement
<1>5. QED
  BY <1>3, <1>4

LEMMA SendCounts ==
  ASSUME StackType, uploads' = Append(uploads, "pending")
  PROVE  /\ Len(uploads') = Len(uploads) + 1
         /\ uploads'[Len(uploads) + 1] = "pending"
         /\ Heard' = Heard
<1>1. /\ uploads' \in Seq(Ends) /\ Len(uploads') = Len(uploads) + 1
      /\ \A i \in 1..Len(uploads) : uploads'[i] = uploads[i]
      /\ uploads'[Len(uploads) + 1] = "pending"
  BY AppendProperties DEF StackType, Ends
<1>2. DOMAIN uploads' = 1..Len(uploads) + 1 /\ DOMAIN uploads = 1..Len(uploads)
      /\ Len(uploads) \in Nat
  BY <1>1, LenProperties, Counts
<1>3. Heard' = Heard
  BY <1>1, <1>2 DEF Heard
<1>4. QED
  BY <1>1, <1>3

LEMMA SettleCounts ==
  ASSUME StackType, Len(uploads) > 0, uploads[Len(uploads)] = "pending",
         NEW end \in Ends, Settle(end)
  PROVE  /\ Len(uploads') = Len(uploads)
         /\ Cardinality(Heard') =
              Cardinality(Heard) + (IF end \in {"cut", "answered"} THEN 1 ELSE 0)
<1>0. /\ DOMAIN uploads = 1..Len(uploads) /\ IsFiniteSet(Heard) /\ Len(uploads) \in Nat
      /\ Cardinality(Heard) \in Nat
  BY Counts
<1>1. /\ uploads' \in Seq(Ends) /\ Len(uploads') = Len(uploads)
      /\ \A i \in 1..Len(uploads) - 1 : uploads'[i] = uploads[i]
      /\ uploads'[Len(uploads)] = end
  BY SettleFacts DEF StackType
<1>2. DOMAIN uploads' = 1..Len(uploads)
  BY <1>1, LenProperties
<1>3. Len(uploads) \notin Heard
  BY DEF Heard
<1>4. CASE end \in {"cut", "answered"}
  <2>1. Heard' = Heard \cup {Len(uploads)}
    BY <1>0, <1>1, <1>2, <1>4 DEF Heard
  <2>2. QED
    BY <1>0, <1>1, <1>3, <1>4, <2>1, FS_AddElement
<1>5. CASE end \notin {"cut", "answered"}
  <2>1. Heard' = Heard
    BY <1>0, <1>1, <1>2, <1>3, <1>5 DEF Heard
  <2>2. QED
    BY <1>0, <1>1, <1>5, <2>1
<1>6. QED
  BY <1>4, <1>5

LEMMA InitAudit == Init => AuditInv
<1> SUFFICES ASSUME Init PROVE AuditInv OBVIOUS
<1>1. Statused = {} /\ Heard = {} /\ Len(rows) = 0 /\ Len(uploads) = 0
  BY DEF Init, Statused, Heard
<1>2. call[Dictation] = "idle"
  BY StackAssumption DEF Init, ModelInit, StackAssumption
<1>3. QED
  BY <1>1, <1>2, FS_EmptySet DEF Init, AuditInv

(* An attempt that is over is a line more, written or lost.                 *)
LEMMA EventAudit ==
  ASSUME StackType, AuditInv, provider \in Cloud, UNCHANGED <<provider, attempt, call>>,
         caller \in {"attempt", "sending", "sent"}, caller' \in {"failed", "returned"},
         NEW r \in Rows, Logged(r),
         Len(uploads') = Len(uploads),
         Cardinality(Heard') = Cardinality(Heard) + (IF r.status = "0" THEN 0 ELSE 1),
         r.outcome \in Good <=> caller' = "returned" /\ result' # "error"
  PROVE  AuditInv'
<1>1. /\ Len(rows) \in Nat /\ Len(uploads) \in Nat /\ dropped \in Nat /\ attempt \in Nat
      /\ Cardinality(Heard) \in Nat /\ Cardinality(Statused) \in Nat
  BY Counts, StackAssumption DEF StackType, StackAssumption
<1>2. /\ \A i \in 1..Len(rows) : rows[i].outcome \notin Good
      /\ call'[Dictation] = "idle" /\ caller' # "sent"
      /\ Len(rows) + dropped = attempt - 1
      /\ Len(uploads) <= attempt
      /\ Cardinality(Statused) <= Cardinality(Heard)
      /\ Cardinality(Heard) <= Cardinality(Statused) + dropped
  BY <1>1 DEF AuditInv
<1>3. CASE rows' = Append(rows, r) /\ dropped' = dropped
  <2>1. /\ Len(rows') = Len(rows) + 1
        /\ \A i \in 1..Len(rows) : rows'[i] = rows[i]
        /\ rows'[Len(rows) + 1] = r
        /\ Cardinality(Statused') =
             Cardinality(Statused) + (IF r.status = "0" THEN 0 ELSE 1)
    BY <1>3, LogCounts
  <2>2. \A i \in 1..Len(rows') :
          rows'[i].outcome \in Good =>
            i = Len(rows') /\ caller' = "returned" /\ result' # "error"
    BY <1>1, <1>2, <2>1
  <2>3. dropped' = 0 /\ caller' = "returned" /\ result' # "error" =>
          rows'[attempt'].outcome \in Good
    BY <1>1, <1>2, <1>3, <2>1
  <2>4. /\ Len(rows') + dropped' = attempt' /\ Len(uploads') <= Len(rows') + dropped'
        /\ Cardinality(Statused') <= Cardinality(Heard')
        /\ Cardinality(Heard') <= Cardinality(Statused') + dropped'
        /\ Len(rows') \in Nat /\ dropped' \in Nat /\ Len(uploads') \in Nat
    BY <1>1, <1>2, <1>3, <2>1
  <2>5. QED
    BY <1>2, <2>2, <2>3, <2>4 DEF AuditInv
<1>4. CASE rows' = rows /\ dropped' = dropped + 1
  <2>1. Statused' = Statused
    BY <1>4 DEF Statused
  <2>2. /\ Len(rows') + dropped' = attempt' /\ Len(uploads') <= Len(rows') + dropped'
        /\ Len(rows') \in Nat /\ dropped' \in Nat /\ Len(uploads') \in Nat
        /\ dropped' # 0
    BY <1>1, <1>2, <1>4
  <2>3. /\ Cardinality(Statused') <= Cardinality(Heard')
        /\ Cardinality(Heard') <= Cardinality(Statused') + dropped'
    <3>1. Cardinality(Statused') = Cardinality(Statused)
      BY <2>1
    <3>2. QED
      BY <1>1, <1>2, <1>4, <3>1
  <2>4. QED
    BY <1>2, <1>4, <2>2, <2>3 DEF AuditInv
<1>5. QED
  BY <1>3, <1>4 DEF Logged

(* A step between two events.                                               *)
LEMMA QuietAudit ==
  ASSUME StackInv, AuditInv, provider \in Cloud,
         Cancel \/ Gate \/ Decide \/ Sleep
           \/ (BuildRequest /\ caller' = "sending") \/ UNCHANGED vars
  PROVE  AuditInv'
<1>1. /\ UNCHANGED <<provider, rows, dropped, uploads, call>>
      /\ Statused' = Statused /\ Heard' = Heard
  BY Zenon
  DEF Cancel, Gate, Decide, Sleep, BuildRequest, BuildOpenAI, BuildDeepgram, BuildGoWhisper,
      Cloud, Fail, Log, Statused, Heard, vars, stackVars, modelVars, input, audit
<1>2. /\ attempt \in Nat /\ Len(rows) \in Nat /\ Len(uploads) \in Nat /\ dropped \in Nat
      /\ Cardinality(Heard) \in Nat /\ Cardinality(Statused) \in Nat
  BY Counts, StackAssumption DEF StackInv, StackType, StackAssumption
<1>3. /\ caller = "gate" => attempt = 0 /\ Len(rows) = 0 /\ dropped = 0
      /\ caller \in {"attempt", "sending"} => Len(uploads) < attempt
  BY <1>2 DEF StackInv, UploadsCounted, AuditInv
<1> USE <1>1, <1>2, <1>3 DEF AuditInv
<1>4. CASE Cancel
  BY <1>4 DEF Cancel
<1>5. CASE Gate
  BY <1>5 DEF Gate, Return
<1>6. CASE Decide
  BY <1>6 DEF Decide, Return
<1>7. CASE Sleep
  BY <1>7 DEF Sleep, Return
<1>8. CASE BuildRequest /\ caller' = "sending"
  BY <1>8 DEF BuildRequest
<1>9. CASE UNCHANGED vars
  BY <1>9 DEF vars, stackVars
<1>10. QED
  BY <1>4, <1>5, <1>6, <1>7, <1>8, <1>9

(* What the providers of the cloud make of an answer: a success is told of  *)
(* exactly the answers without an error.                                    *)
LEMMA CloudAnswers ==
  ASSUME provider \in Cloud, NEW status \in Statuses, NEW body \in Bodies
  PROVE  LET answer == ProviderAnswer(status, body)
         IN answer.outcome \in Good <=> answer.error = "none"
<1> USE DEF Good, Success, ErrorOf, Errors, Bodies, Statuses, Bucket
<1>1. CASE provider = "openai"
  BY <1>1 DEF ProviderAnswer, OpenAIAnswer
<1>2. CASE provider = "deepgram"
  BY <1>2 DEF ProviderAnswer, DeepgramAnswer
<1>3. QED
  BY <1>1, <1>2 DEF Cloud

LEMMA BuildAudit ==
  ASSUME StackInv, AuditInv, provider \in Cloud, BuildRequest, caller' # "sending"
  PROVE  AuditInv'
<1>1. PICK outcome \in {"build_err", "network_err"} : Fail("permanent") /\ Log(outcome, "0")
  BY DEF BuildRequest, BuildOpenAI, BuildDeepgram, BuildGoWhisper, Cloud
<1> DEFINE r == [outcome |-> outcome, status |-> "0"]
<1>2. r \in Rows /\ r.outcome \notin Good /\ r.status = "0"
  BY DEF Rows, Good
<1>3. Logged(r) /\ caller' = "failed"
  BY <1>1 DEF Log, Logged, Fail
<1>4. /\ caller = "attempt" /\ UNCHANGED <<provider, attempt, call, uploads>>
      /\ Heard' = Heard
  BY DEF BuildRequest, input, modelVars, Heard
<1>5. Cardinality(Heard) \in Nat
  BY Counts DEF StackInv
<1> HIDE DEF r
<1>6. QED
  BY <1>2, <1>3, <1>4, <1>5, EventAudit DEF StackInv

LEMMA SendAudit ==
  ASSUME StackInv, AuditInv, provider \in Cloud, Send
  PROVE  AuditInv'
<1>1. /\ UNCHANGED <<provider, attempt, rows, dropped, result, call>>
      /\ caller = "sending" /\ caller' = "sent" /\ Statused' = Statused
  BY DEF Send, input, audit, modelVars, Statused
<1>2. /\ Len(uploads') = Len(uploads) + 1
      /\ uploads'[Len(uploads) + 1] = "pending" /\ Heard' = Heard
  BY SendCounts DEF Send, StackInv
<1>3. Len(rows) \in Nat /\ Len(uploads) \in Nat /\ dropped \in Nat
  BY Counts DEF StackInv
<1>4. QED
  BY <1>1, <1>2, <1>3 DEF AuditInv

LEMMA FailAudit ==
  ASSUME StackInv, AuditInv, provider \in Cloud, RequestFails
  PROVE  AuditInv'
<1> DEFINE r == [outcome |-> "network_err", status |-> "0"]
<1>1. r \in Rows /\ r.outcome \notin Good /\ r.status = "0"
  BY DEF Rows, Good
<1>2. /\ Logged(r) /\ caller' = "failed" /\ caller \in {"sending", "sent"}
      /\ UNCHANGED <<provider, attempt, call>>
  BY DEF RequestFails, Log, Logged, Fail, input, modelVars
<1>3. Cardinality(Heard) \in Nat
  BY Counts DEF StackInv
<1>4. Len(uploads') = Len(uploads) /\ Cardinality(Heard') = Cardinality(Heard)
  <2>1. CASE caller = "sending"
    <3>1. uploads' = uploads /\ Heard' = Heard
      BY <2>1 DEF RequestFails, Heard
    <3>2. QED
      BY <3>1
  <2>2. CASE caller = "sent"
    <3>1. Settle("lost") /\ Len(uploads) > 0 /\ uploads[Len(uploads)] = "pending"
      BY <2>2 DEF RequestFails, StackInv, UploadsCounted, AuditInv
    <3>2. QED
      BY <1>3, <3>1, SettleCounts DEF StackInv, Ends
  <2>3. QED
    BY <1>2, <2>1, <2>2
<1> HIDE DEF r
<1>5. QED
  BY <1>1, <1>2, <1>3, <1>4, EventAudit DEF StackInv

LEMMA AnswerAudit ==
  ASSUME StackInv, AuditInv, provider \in Cloud, Answer
  PROVE  AuditInv'
<1>1. PICK status \in Statuses, body \in Bodies :
        /\ Settle(IF body \in Errors THEN "cut" ELSE "answered")
        /\ LET answer == ProviderAnswer(status, body)
           IN /\ IF answer.error = "none"
                 THEN Return(IF body = "text" THEN "text" ELSE "empty") /\ UNCHANGED err
                 ELSE Fail(answer.error)
              /\ Log(answer.outcome, status)
  BY DEF Answer
<1> DEFINE answer == ProviderAnswer(status, body)
           r == [outcome |-> answer.outcome, status |-> status]
<1>2. answer.outcome \in {"ok", "empty", "build_err", "network_err",
                          "decode_err", "4xx", "5xx", "non_2xx"}
      /\ (answer.outcome \in Good <=> answer.error = "none")
  BY AnswerFacts, CloudAnswers DEF HttpProviders
<1> HIDE DEF answer
<1>3. r \in Rows /\ r.status # "0" /\ r.outcome = answer.outcome
  BY <1>2 DEF Rows, Statuses
<1>4. /\ Logged(r)
      /\ IF answer.error = "none" THEN caller' = "returned" /\ result' \in {"text", "empty"}
         ELSE caller' = "failed"
  BY <1>1 DEF Log, Logged, Return, Fail, answer
<1>5. caller = "sent" /\ UNCHANGED <<provider, attempt, call>>
  BY DEF Answer, input, modelVars
<1>6. /\ Len(uploads') = Len(uploads)
      /\ Cardinality(Heard') = Cardinality(Heard) + 1
  <2>1. Len(uploads) > 0 /\ uploads[Len(uploads)] = "pending"
    BY <1>5 DEF StackInv, UploadsCounted, AuditInv
  <2>2. PICK end \in {"cut", "answered"} : Settle(end)
    BY <1>1
  <2>3. QED
    BY <2>1, <2>2, SettleCounts DEF StackInv, Ends
<1> HIDE DEF r
<1>7. QED
  BY <1>2, <1>3, <1>4, <1>5, <1>6, EventAudit DEF StackInv

LEMMA StepAudit == IInv /\ AuditInv /\ [Next]_vars => AuditInv'
<1> SUFFICES ASSUME IInv, AuditInv, [Next]_vars PROVE AuditInv' OBVIOUS
<1>1. StackInv
  BY Split
<1>2. provider' = provider
  BY Zenon
  DEF Next, StackRuns, Cancel, OtherCalls, Gate, BuildRequest, RequestFails, LazyError,
      TranscribeLocally, TakeModel, ModelAnswers, Decide, Sleep, Send, Answer, vars,
      stackVars, input, audit
<1>3. CASE provider \notin Cloud
  BY <1>2, <1>3 DEF AuditInv
<1>4. CASE provider \in Cloud
  <2>1. ~OtherCalls /\ ~LazyError /\ ~TranscribeLocally
    BY <1>4 DEF OtherCalls, LazyError, TranscribeLocally, Cloud
  <2>2. ~TakeModel /\ ~ModelAnswers
    BY <1>4 DEF TakeModel, ModelAnswers, Compute, Computed, Step, AuditInv
  <2>3. QED
    BY <1>1, <1>4, <2>1, <2>2, QuietAudit, BuildAudit, SendAudit, FailAudit, AnswerAudit
    DEF Next, StackRuns
<1>5. QED
  BY <1>3, <1>4

(* Whatever fails, is retried or cancelled, and for any number of attempts: *)
(* the lines of the audit log are true, and with the lost ones they are as  *)
(* many as the attempts (openai.go:100-138, deepgram.go:173-196,            *)
(* audit.go:107-127).                                                       *)
THEOREM AuditTellsTheTruth == Spec => []AuditTellsUploads
<1>1. IInv /\ AuditInv => AuditTellsUploads
  <2> SUFFICES ASSUME IInv, AuditInv, caller = "returned", provider \in Cloud
               PROVE  AuditTellsUploads
    BY DEF AuditTellsUploads
  <2>1. /\ Len(rows) \in Nat /\ dropped \in Nat /\ attempt \in Nat
    BY Split, Counts, StackAssumption DEF StackInv, StackType, StackAssumption
  <2>2. dropped = 0 /\ attempt > 0 => attempt \in 1..Len(rows)
    BY <2>1 DEF AuditInv
  <2>3. QED
    BY <2>1, <2>2 DEF AuditInv, AuditTellsUploads, Good
<1>2. IInv /\ AuditInv /\ [Next]_vars => AuditInv'
  BY StepAudit
<1>3. QED
  BY InitAudit, Invariance, <1>1, <1>2, PTL DEF Spec

-----------------------------------------------------------------------------
(* The control half of the gate: what it measured decides, once and before  *)
(* any attempt, and nothing that follows looks like its answer.             *)
GateInv ==
  /\ call[Dictation] \in {"waiting", "computing"} => caller = "local"
  /\ caller = "gate" => attempt = 0
  /\ caller # "gate" =>
       IF gated /\ recording \in Withheld
       THEN caller = "returned" /\ result = "empty" /\ attempt = 0
       ELSE attempt >= 1

(* A recording is answered with an empty text and without an attempt just   *)
(* when there is a gate that measured it to be below the threshold.         *)
WithheldAsMeasured ==
  gated /\ caller # "gate" =>
    ((result = "empty" /\ attempt = 0) <=> recording \in Withheld)

LEMMA InitGate == Init => GateInv
BY StackAssumption DEF Init, ModelInit, GateInv, StackAssumption

(* What another goroutine does to the model leaves this call where it is.   *)
LEMMA OthersCallAlone ==
  ASSUME ModelType, OtherCalls
  PROVE  call'[Dictation] = call[Dictation] /\ UNCHANGED stackVars
<1> PICK u \in Users \ {Dictation} : ModelCalls(u)
  BY DEF OtherCalls
<1>1. call'[Dictation] = call[Dictation]
  BY StackAssumption
  DEF StackAssumption, ModelType, ModelCalls, LoadModel, ReloadBegins, ReloadModel, Close,
      AskModel, Compute, Computed, Step, Allocate
<1>2. QED
  BY <1>1 DEF OtherCalls

LEMMA StepGate == IInv /\ GateInv /\ [Next]_vars => GateInv'
<1> SUFFICES ASSUME IInv, GateInv, [Next]_vars PROVE GateInv' OBVIOUS
<1>0. /\ attempt \in Nat /\ call \in [Users -> CallSteps] /\ Dictation \in Users
      /\ ModelType
  BY StackAssumption DEF IInv, TypeOK, ModelType, StackAssumption
<1>1. Withheld' = Withheld
  BY DEF Withheld
<1> USE <1>0, <1>1 DEF GateInv
<1>2. CASE Cancel
  BY <1>2 DEF Cancel, input, modelVars
<1>3. CASE OtherCalls
  BY <1>3, OthersCallAlone DEF stackVars, input, audit
<1>4. CASE Gate
  BY <1>4 DEF Gate, Return, input, modelVars
<1>5. CASE BuildRequest
  <2>1. caller = "attempt" /\ caller' \in {"sending", "failed"}
        /\ UNCHANGED <<recording, gated, attempt, call>>
    BY <1>5
    DEF BuildRequest, BuildOpenAI, BuildDeepgram, BuildGoWhisper, Fail, input, modelVars
  <2>2. QED
    BY <2>1
<1>6. CASE RequestFails
  BY <1>6 DEF RequestFails, Fail, input, modelVars
<1>7. CASE LazyError
  BY <1>7 DEF LazyError, Fail, input, modelVars
<1>8. CASE TranscribeLocally
  BY <1>8 DEF TranscribeLocally, Fail, input, modelVars, AskModel, Step
<1>9. CASE TakeModel
  BY <1>9 DEF TakeModel, Compute, Step, Fail, input
<1>10. CASE ModelAnswers
  BY <1>10 DEF ModelAnswers, Computed, Step, Return, Fail, input
<1>11. CASE Decide
  BY <1>11 DEF Decide, Return, input, modelVars
<1>12. CASE Sleep
  BY <1>12 DEF Sleep, Return, input, modelVars
<1>13. CASE Send
  BY <1>13 DEF Send, input, modelVars
<1>14. CASE Answer
  <2>1. caller = "sent" /\ caller' \in {"returned", "failed"}
        /\ UNCHANGED <<recording, gated, attempt, call>>
    BY <1>14 DEF Answer, Return, Fail, input, modelVars
  <2>2. QED
    BY <2>1
<1>15. CASE UNCHANGED vars
  BY <1>15 DEF vars, stackVars, input, audit, modelVars
<1>16. QED
  BY <1>2, <1>3, <1>4, <1>5, <1>6, <1>7, <1>8, <1>9, <1>10, <1>11, <1>12, <1>13,
     <1>14, <1>15
  DEF Next, StackRuns

(* What the gate measures is what becomes of the recording, whatever the    *)
(* provider, the retries and a cancellation do (silence_gate.go:110-142).     *)
THEOREM GateKeepsItsMeasure == Spec => []WithheldAsMeasured
<1>1. GateInv => WithheldAsMeasured
  BY DEF GateInv, WithheldAsMeasured
<1>2. QED
  BY InitGate, StepGate, Invariance, <1>1, PTL DEF Spec

(* Where the decoder measures the quiet recordings to be below the threshold*)
(* and no others, the gate keeps back those alone.  The hypothesis is about *)
(* data only, the bytes of the files; TLC finds it true of its recordings.  *)
THEOREM GateSparesSpeech ==
  ASSUME Withheld = Quiet
  PROVE  Spec => []OnlyQuietIsWithheld
<1>1. GateInv => OnlyQuietIsWithheld
  BY DEF GateInv, OnlyQuietIsWithheld
<1>2. QED
  BY InitGate, StepGate, Invariance, <1>1, PTL DEF Spec
=============================================================================
