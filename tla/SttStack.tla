------------------------------ MODULE SttStack ------------------------------
(***************************************************************************)
(* One Transcribe through the stack of the factory: the silence gate        *)
(* (infra/factory/silence_gate.go), the retries (pkg/stt/retry.go) and the  *)
(* provider of the configuration: OpenAI, Deepgram and go-whisper over      *)
(* HTTP, whisper.cpp in the process.                                        *)
(***************************************************************************)
EXTENDS WhisperModel, WavFile

CONSTANTS
  Dictation,    \* the user of the model that runs this Transcribe
  Recordings,   \* the files that Transcribe may be given
  MaxAttempts   \* bound: the largest stt_retry.max_attempts

ASSUME StackAssumption ==
  /\ Dictation \in Users
  /\ MaxAttempts \in Nat \ {0}

Cloud     == {"openai", "deepgram"}

(* "lazy": the stub in the place of a provider that could not be built.     *)
Providers == Cloud \cup {"go-whisper", "whisper-cpp", "lazy"}

(* What errors.Is and errors.As tell apart: the context's error, the        *)
(* timeout of a client or a dial (a DeadlineExceeded), a failed connection, *)
(* an io.ErrUnexpectedEOF, and all others.                                  *)
Errors == {"canceled", "deadline", "transport", "cut", "permanent"}

Statuses == {"200", "4xx", "5xx", "other"}

(* What reading the body comes to: a transcript, one without a word, one    *)
(* that does not decode, or an error.                                       *)
Bodies == {"text", "silent", "garbled", "cut", "deadline", "canceled"}

(* The recordings that the gate keeps back, that the local model can work   *)
(* with, that end too early for it, and, by their layout, the quiet ones.   *)
Withheld == {r \in Recordings : BelowThreshold(r)}
Playable == {r \in Recordings : HasSamples(r)}
Broken   == {r \in Recordings : CutShort(r)}
Quiet    == {r \in Recordings : IsQuiet(r)}

VARIABLES
  recording,  \* the file to transcribe
  gated,      \* is the silence gate configured
  provider,
  attempts,   \* RetryConfig.MaxAttempts; 1 without stt_retry
  caller,     \* where the goroutine is
  attempt,
  err,        \* the error of the last attempt
  result,     \* what Transcribe returned
  ctxDone,    \* is the context cancelled
  uploads,    \* the requests that left, and what came of them
  rows,       \* the lines of the audit log
  dropped     \* how many lines are missing or spoiled: LogEvent has no error

input == <<recording, gated, provider, attempts>>
audit == <<rows, dropped>>
stackVars == <<input, caller, attempt, err, result, ctxDone, uploads, audit>>
vars == <<stackVars, modelVars>>

CallerSteps == {"gate", "attempt", "sending", "sent", "local", "failed", "sleep", "returned"}

TypeOK ==
  /\ recording \in Recordings /\ gated \in BOOLEAN
  /\ provider \in Providers
  /\ attempts \in 1..MaxAttempts
  /\ caller \in CallerSteps
  /\ attempt \in 0..attempts
  /\ err \in Errors \cup {"none"}
  /\ result \in {"none", "text", "empty", "error"}
  /\ ctxDone \in BOOLEAN
  /\ uploads \in Seq({"pending", "lost", "cut", "answered"})
  /\ rows \in Seq([outcome : {"ok", "empty", "build_err", "network_err",
                              "decode_err", "4xx", "5xx", "non_2xx"},
                   status : Statuses \cup {"0"}])
  /\ dropped \in Nat
  /\ ModelType

Init ==
  /\ recording \in Recordings /\ gated \in BOOLEAN
  /\ provider \in Providers
  /\ attempts \in 1..(IF provider = "lazy" THEN 1 ELSE MaxAttempts)
  /\ caller = "gate"
  /\ attempt = 0 /\ err = "none" /\ result = "none"
  /\ ctxDone = FALSE
  /\ uploads = <<>> /\ rows = <<>> /\ dropped = 0
  /\ ModelInit

-----------------------------------------------------------------------------
Cancel ==
  /\ caller # "returned" /\ ~ctxDone
  /\ ctxDone' = TRUE
  /\ UNCHANGED <<input, caller, attempt, err, result, uploads, audit>>
  /\ UNCHANGED modelVars

(* The other goroutines that hold the same WhisperTranscriber.              *)
OtherCalls ==
  /\ provider = "whisper-cpp"
  /\ \E u \in Users \ {Dictation} : ModelCalls(u)
  /\ UNCHANGED stackVars

Return(what) == caller' = "returned" /\ result' = what

Fail(e) == caller' = "failed" /\ err' = e /\ UNCHANGED result

(* A recording below the threshold is answered here with an empty text; one *)
(* whose loudness cannot be measured goes on, as all do without a gate.     *)
Gate ==
  /\ caller = "gate"
  /\ IF gated /\ recording \in Withheld
     THEN Return("empty") /\ UNCHANGED attempt
     ELSE caller' = "attempt" /\ attempt' = 1 /\ UNCHANGED result
  /\ UNCHANGED <<input, err, ctxDone, uploads, audit>>
  /\ UNCHANGED modelVars

-----------------------------------------------------------------------------
(* The audit of the cloud providers: one event for each attempt, written    *)
(* when the attempt is over.  Nobody hears of a line that does not make it  *)
(* to the log: the disk is full, the line before was cut off, or the log    *)
(* could not be opened at the start.                                        *)
Bucket(status) == IF status \in {"4xx", "5xx"} THEN status ELSE "non_2xx"

Log(outcome, status) ==
  \/ provider \notin Cloud /\ UNCHANGED audit
  \/ /\ provider \in Cloud
     /\ rows' = Append(rows, [outcome |-> outcome, status |-> status])
     /\ UNCHANGED dropped
  \/ /\ provider \in Cloud
     /\ dropped' = dropped + 1
     /\ UNCHANGED rows

(* The recording is validated and put into a request that carries the       *)
(* context; a failure is the audit's build_err.                             *)
BuildOpenAI ==
  /\ provider = "openai"
  /\ \/ caller' = "sending" /\ UNCHANGED <<err, result, audit>>
     \/ Fail("permanent") /\ Log("build_err", "0")

(* classifyOutcome renames what transcribeOnce had called build_err: without*)
(* a status the network is to blame.                                        *)
BuildDeepgram ==
  /\ provider = "deepgram"
  /\ \/ caller' = "sending" /\ UNCHANGED <<err, result, audit>>
     \/ Fail("permanent") /\ Log("network_err", "0")

(* go-whisper looks at the context first.                                   *)
BuildGoWhisper ==
  /\ provider = "go-whisper"
  /\ \/ ~ctxDone /\ caller' = "sending" /\ UNCHANGED <<err, result>>
     \/ Fail(IF ctxDone THEN "canceled" ELSE "permanent")
  /\ UNCHANGED audit

BuildRequest ==
  /\ caller = "attempt"
  /\ BuildOpenAI \/ BuildDeepgram \/ BuildGoWhisper
  /\ UNCHANGED <<input, attempt, ctxDone, uploads>>
  /\ UNCHANGED modelVars

(* The last upload came to this end.                                        *)
Settle(end) == uploads' = [uploads EXCEPT ![Len(uploads)] = end]

(* Seeded fault: a request without the context.                             *)
SendUncancelled ==
  /\ caller = "sending"
  /\ caller' = "sent"
  /\ uploads' = Append(uploads, "pending")
  /\ UNCHANGED <<input, attempt, err, result, ctxDone, audit>>
  /\ UNCHANGED modelVars

(* client.Do: nothing leaves once the context is done.                      *)
Send ==
  /\ caller = "sending" /\ ~ctxDone
  /\ caller' = "sent"
  /\ uploads' = Append(uploads, "pending")
  /\ UNCHANGED <<input, attempt, err, result, ctxDone, audit>>
  /\ UNCHANGED modelVars

(* Seeded fault: an attempt without an answer leaves no event.              *)
RequestFailsUnlogged ==
  /\ caller \in {"sending", "sent"}
  /\ \E e \in {"transport", "deadline"} \cup (IF ctxDone THEN {"canceled"} ELSE {}) : Fail(e)
  /\ IF caller = "sent" THEN Settle("lost") ELSE UNCHANGED uploads
  /\ UNCHANGED <<input, attempt, ctxDone, audit>>
  /\ UNCHANGED modelVars

(* client.Do returns an error: the context's, the client's own timeout, or  *)
(* the connection's.                                                        *)
RequestFails ==
  /\ caller \in {"sending", "sent"}
  /\ \E e \in {"transport", "deadline"} \cup (IF ctxDone THEN {"canceled"} ELSE {}) : Fail(e)
  /\ IF caller = "sent" THEN Settle("lost") ELSE UNCHANGED uploads
  /\ Log("network_err", "0")
  /\ UNCHANGED <<input, attempt, ctxDone>>
  /\ UNCHANGED modelVars

(* What an answer comes to, the error and the outcome in the audit.  OpenAI *)
(* passes on the error of reading a refusal, and so does Deepgram, which    *)
(* reads the body before it looks at the status; go-whisper drops it.  To   *)
(* the cloud providers silence is an empty text, to go-whisper an error.    *)
Success(body) ==
  [error |-> "none", outcome |-> IF body = "text" THEN "ok" ELSE "empty"]

ErrorOf(body) == IF body \in Errors THEN body ELSE "permanent"

OpenAIAnswer(status, body) ==
  IF status # "200" THEN [error |-> ErrorOf(body), outcome |-> Bucket(status)]
  ELSE IF body \in {"text", "silent"} THEN Success(body)
  ELSE [error |-> ErrorOf(body), outcome |-> "decode_err"]

DeepgramAnswer(status, body) ==
  IF status = "200" /\ body \in {"text", "silent"} THEN Success(body)
  ELSE [error |-> ErrorOf(body), outcome |-> Bucket(status)]

GoWhisperAnswer(status, body) ==
  IF status # "200" THEN [error |-> "permanent", outcome |-> "none"]
  ELSE IF body = "text" THEN Success(body)
  ELSE [error |-> ErrorOf(body), outcome |-> "none"]

ProviderAnswer(status, body) ==
  CASE provider = "openai"     -> OpenAIAnswer(status, body)
    [] provider = "deepgram"   -> DeepgramAnswer(status, body)
    [] provider = "go-whisper" -> GoWhisperAnswer(status, body)

(* The server answers and the answer is read.                               *)
Answer ==
  /\ caller = "sent"
  /\ \E status \in Statuses, body \in Bodies :
       /\ body = "canceled" => ctxDone
       /\ Settle(IF body \in Errors THEN "cut" ELSE "answered")
       /\ LET answer == ProviderAnswer(status, body)
          IN /\ IF answer.error = "none"
                THEN Return(IF body = "text" THEN "text" ELSE "empty") /\ UNCHANGED err
                ELSE Fail(answer.error)
             /\ Log(answer.outcome, status)
  /\ UNCHANGED <<input, attempt, ctxDone>>
  /\ UNCHANGED modelVars

(* The stub answers every attempt with the error of the construction.       *)
LazyError ==
  /\ caller = "attempt" /\ provider = "lazy"
  /\ Fail("permanent")
  /\ UNCHANGED <<input, attempt, ctxDone, uploads, audit>>
  /\ UNCHANGED modelVars

-----------------------------------------------------------------------------
(* whisper.cpp: the context, the samples, then the model.  A file without a *)
(* sample is refused like one that cannot be decoded; the error of one that *)
(* was cut short is that of a connection cut off, and is tried again.       *)
TranscribeLocally ==
  /\ caller = "attempt" /\ provider = "whisper-cpp"
  /\ \/ /\ ctxDone /\ Fail("canceled") /\ UNCHANGED modelVars
     \/ /\ ~ctxDone /\ recording \notin Playable
        /\ Fail(IF recording \in Broken THEN "cut" ELSE "permanent")
        /\ UNCHANGED modelVars
     \/ /\ ~ctxDone /\ recording \in Playable
        /\ caller' = "local" /\ UNCHANGED <<err, result>>
        /\ AskModel(Dictation)
  /\ UNCHANGED <<input, attempt, ctxDone, uploads, audit>>

TakeModel ==
  /\ Compute(Dictation, ctxDone)
  /\ IF ctxDone \/ ctx = NoCtx
     THEN Fail(IF ctxDone THEN "canceled" ELSE "permanent")
     ELSE UNCHANGED <<caller, err, result>>
  /\ UNCHANGED <<input, attempt, ctxDone, uploads, audit>>

ModelAnswers ==
  /\ Computed(Dictation)
  /\ \/ Return("text") /\ UNCHANGED err
     \/ Fail("permanent")
  /\ UNCHANGED <<input, attempt, ctxDone, uploads, audit>>

-----------------------------------------------------------------------------
(* Seeded fault: every error but a cancellation is worth a retry.           *)
RetryableButCanceled(e) == e # "canceled"

(* DefaultRetryClassifier.                                                  *)
Retryable(e) == e \in {"cut", "transport"}

(* The retry loop looks at a failed attempt.                                *)
Decide ==
  /\ caller = "failed"
  /\ IF ctxDone \/ attempt >= attempts \/ ~Retryable(err)
     THEN Return("error")
     ELSE caller' = "sleep" /\ UNCHANGED result
  /\ UNCHANGED <<input, attempt, err, ctxDone, uploads, audit>>
  /\ UNCHANGED modelVars

(* Seeded fault: the backoff waits for a cancellation alone.                *)
SleepUntilCancelled ==
  /\ caller = "sleep" /\ ctxDone
  /\ Return("error") /\ UNCHANGED attempt
  /\ UNCHANGED <<input, err, ctxDone, uploads, audit>>
  /\ UNCHANGED modelVars

(* sleepWithContext: the timer or the context, if both are ready either.    *)
Sleep ==
  /\ caller = "sleep"
  /\ \/ caller' = "attempt" /\ attempt' = attempt + 1 /\ UNCHANGED result
     \/ ctxDone /\ Return("error") /\ UNCHANGED attempt
  /\ UNCHANGED <<input, err, ctxDone, uploads, audit>>
  /\ UNCHANGED modelVars

StackRuns ==
  \/ Gate \/ BuildRequest \/ RequestFails \/ LazyError
  \/ TranscribeLocally \/ ModelAnswers \/ Decide \/ Sleep

Next == Cancel \/ OtherCalls \/ StackRuns \/ TakeModel \/ Send \/ Answer

Spec == Init /\ [][Next]_vars

(* Go runs what can run, and every HTTP client has a timeout: its request   *)
(* fails in the end whatever the server does.  A C call returns.  A mutex   *)
(* that is free again and again is not kept from a waiting goroutine        *)
(* (sync.Mutex hands it over after 1 ms): strong fairness.                  *)
FairSpec ==
  /\ Spec
  /\ WF_vars(StackRuns) /\ SF_vars(TakeModel)
  /\ \A u \in Users \ {Dictation} : WF_vars(Computed(u) /\ UNCHANGED stackVars)

-----------------------------------------------------------------------------
(* A recording that the server has answered, with a transcript or with a    *)
(* refusal, is not uploaded again: only a request whose answer was lost or  *)
(* cut off is repeated (retry.go:262-276), at most as often as allowed.     *)
NoAnswerAskedTwice ==
  /\ Len(uploads) <= attempts
  /\ \A i \in 1..Len(uploads) - 1 : uploads[i] # "answered"

(* Once the user has cancelled, the recording does not leave the machine    *)
(* any more, whatever the attempt and the backoff were doing.               *)
NothingUploadedAfterCancel ==
  [][ctxDone => Len(uploads') = Len(uploads)]_vars

(* The events with a status, and the uploads that were answered.            *)
Statused == {i \in DOMAIN rows : rows[i].status # "0"}
Heard == {i \in DOMAIN uploads : uploads[i] \in {"cut", "answered"}}

(* The audit log tells no untruth of the uploads to a cloud provider, and   *)
(* misses only what could not be written: its lines and the lost ones are   *)
(* as many as the attempts, a status stands for an upload that was          *)
(* answered, and a success for the result that was returned.  A log without *)
(* a loss accounts for every answered upload and for the success.           *)
AuditTellsUploads ==
  caller = "returned" /\ provider \in Cloud =>
    /\ Len(rows) + dropped = attempt
    /\ Len(uploads) <= attempt
    /\ Cardinality(Statused) <= Cardinality(Heard)
    /\ Cardinality(Heard) <= Cardinality(Statused) + dropped
    /\ \A i \in 1..Len(rows) :
         rows[i].outcome \in {"ok", "empty"} => i = Len(rows) /\ result # "error"
    /\ dropped = 0 /\ attempt > 0 =>
         (result # "error" <=> rows[attempt].outcome \in {"ok", "empty"})

(* The gate keeps back exactly the recordings most of whose samples on disk *)
(* are still: chunks of odd size, a foreign format, a cut within a block or *)
(* a length at the edge of one never silence somebody who spoke, and what   *)
(* is quiet is not sent (silence_gate.go:111-131).  A recording that was    *)
(* cut between two blocks is judged by what is left of it: the decoder's    *)
(* error is then an io.EOF, which the measurement takes for the end.        *)
OnlyQuietIsWithheld ==
  gated /\ caller # "gate" =>
    ((result = "empty" /\ attempt = 0) <=> recording \in Quiet)

(* Every Transcribe returns: no attempt, backoff or wait for the model      *)
(* lasts for ever.                                                          *)
TranscribeReturns == <>(caller = "returned")
=============================================================================
