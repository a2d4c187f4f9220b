--------------------------- MODULE DeepgramStream ---------------------------
(***************************************************************************)
(* The live Deepgram session, pkg/stt/deepgram_stream.go: one call of       *)
(* Stream, the goroutine of its handler, the SDK's connection and the       *)
(* server.  The drain window is a fixed time after the end of the audio, so *)
(* it may end at any moment here, which covers the signals that would reset *)
(* or end it earlier (finalSignal, CloseResponse).  Messages that the       *)
(* handler only logs (errors, metadata, open, unhandled) are left out.      *)
(***************************************************************************)
EXTENDS Naturals, Sequences

CONSTANT Buffer     \* capacity of messageChan

ASSUME BufferAssumption == Buffer \in Nat \ {0}

VARIABLES
  streamer,    \* where the goroutine that called Stream is
  pipe,        \* the audio it has not yet read, a sequence of words
  pipeEnd,     \* "open", "eof" (the writer is gone) or "closed" (by us)
  link,        \* the websocket
  sent,        \* the words the server has received
  answered,    \* how many of them it is done with
  interim,     \* did it send an interim result of the next one
  inbox,       \* messageChan
  hand,        \* where the handler's goroutine is
  segment,     \* the final it is handling
  late,        \* drainEnded as that call of handleFinal loaded it
  finals,      \* deepgramStreamHandler.finals
  drainEnded,  \* deepgramStreamHandler.drainEnded
  text,        \* what Stream returned
  streamErr    \* did it return an error

dgVars == <<streamer, pipe, pipeEnd, link, sent, answered, interim, inbox,
            hand, segment, late, finals, drainEnded, text, streamErr>>

SourceVars  == <<pipe, pipeEnd>>
ServerVars  == <<sent, answered, interim>>
HandlerVars == <<hand, segment, late, finals>>

StreamerSteps ==
  {"none", "connecting", "sending", "draining", "stopping", "reading", "returned"}

SessionType(Word) ==
  /\ streamer \in StreamerSteps
  /\ pipe \in Seq(Word)
  /\ pipeEnd \in {"open", "eof", "closed"}
  /\ link \in {"none", "up", "lost", "closed"}
  /\ sent \in Seq(Word)
  /\ answered \in 0..Len(sent)
  /\ interim \in BOOLEAN
  /\ inbox \in Seq([word: Word, final: BOOLEAN]) /\ Len(inbox) <= Buffer
  /\ hand \in {"select", "loaded"}
  /\ segment \in Word \cup {0}
  /\ late \in BOOLEAN
  /\ finals \in Seq(Word)
  /\ drainEnded \in BOOLEAN
  /\ text \in Seq(Word)
  /\ streamErr \in BOOLEAN

SessionInit ==
  /\ streamer = "none"
  /\ pipe = <<>> /\ pipeEnd = "open"
  /\ link = "none"
  /\ sent = <<>> /\ answered = 0 /\ interim = FALSE
  /\ inbox = <<>>
  /\ hand = "select" /\ segment = 0 /\ late = FALSE
  /\ finals = <<>>
  /\ drainEnded = FALSE
  /\ text = <<>> /\ streamErr = FALSE

-----------------------------------------------------------------------------
(* Stream.                                                                  *)

Connect ==
  /\ streamer = "connecting"
  /\ \/ streamer' = "sending" /\ link' = "up" /\ UNCHANGED streamErr
     \/ streamer' = "returned" /\ streamErr' = TRUE /\ UNCHANGED link
  /\ UNCHANGED <<inbox, drainEnded, text>>
  /\ UNCHANGED SourceVars /\ UNCHANGED ServerVars /\ UNCHANGED HandlerVars

(* The SDK's Stream: read and send.  A connection that was lost ends it.    *)
SendAudio ==
  /\ streamer = "sending"
  /\ pipeEnd # "closed" /\ pipe # <<>>
  /\ pipe' = Tail(pipe)
  /\ IF link = "up" THEN sent' = Append(sent, Head(pipe)) /\ UNCHANGED streamer
                    ELSE streamer' = "draining" /\ UNCHANGED sent
  /\ UNCHANGED <<pipeEnd, link, answered, interim, inbox, drainEnded, text, streamErr>>
  /\ UNCHANGED HandlerVars

(* The audio ends: at its end or because the side channel was closed.  The  *)
(* error is ignored, Finish follows and the drain window opens.             *)
EndAudio ==
  /\ streamer = "sending"
  /\ pipeEnd = "closed" \/ (pipeEnd = "eof" /\ pipe = <<>>)
  /\ streamer' = "draining"
  /\ UNCHANGED <<link, inbox, drainEnded, text, streamErr>>
  /\ UNCHANGED SourceVars /\ UNCHANGED ServerVars /\ UNCHANGED HandlerVars

(* drainUntilQuiet returns.                                                 *)
EndDrain ==
  /\ streamer = "draining"
  /\ streamer' = "stopping"
  /\ drainEnded' = TRUE
  /\ UNCHANGED <<link, inbox, text, streamErr>>
  /\ UNCHANGED SourceVars /\ UNCHANGED ServerVars /\ UNCHANGED HandlerVars

StopClient ==
  /\ streamer = "stopping"
  /\ streamer' = "reading"
  /\ link' = "closed"
  /\ UNCHANGED <<inbox, drainEnded, text, streamErr>>
  /\ UNCHANGED SourceVars /\ UNCHANGED ServerVars /\ UNCHANGED HandlerVars

TakeText ==
  /\ streamer = "reading"
  /\ streamer' = "returned"
  /\ text' = finals
  /\ UNCHANGED <<link, inbox, drainEnded, streamErr>>
  /\ UNCHANGED SourceVars /\ UNCHANGED ServerVars /\ UNCHANGED HandlerVars

StreamGoesOn ==
  Connect \/ SendAudio \/ EndAudio \/ EndDrain \/ StopClient \/ TakeText

-----------------------------------------------------------------------------
(* The server answers the words in order, some of them with an interim      *)
(* result first, some not at all; the SDK puts the answers into the         *)
(* handler's channel.                                                       *)

Answer(isFinal) ==
  inbox' = Append(inbox, [word |-> sent[answered + 1], final |-> isFinal])

ServerAnswers ==
  /\ link = "up" /\ answered < Len(sent)
  /\ \/ /\ Len(inbox) < Buffer /\ ~interim
        /\ Answer(FALSE) /\ interim' = TRUE /\ UNCHANGED answered
     \/ /\ Len(inbox) < Buffer
        /\ Answer(TRUE) /\ interim' = FALSE /\ answered' = answered + 1
     \/ /\ interim' = FALSE /\ answered' = answered + 1 /\ UNCHANGED inbox
  /\ UNCHANGED <<streamer, link, sent, drainEnded, text, streamErr>>
  /\ UNCHANGED SourceVars /\ UNCHANGED HandlerVars

LinkIsLost ==
  /\ link = "up"
  /\ link' = "lost"
  /\ UNCHANGED <<streamer, inbox, drainEnded, text, streamErr>>
  /\ UNCHANGED SourceVars /\ UNCHANGED ServerVars /\ UNCHANGED HandlerVars

-----------------------------------------------------------------------------
(* The handler's goroutine.                                                 *)

(* Seeded fault: interim results are kept like finals.                      *)
TakeAnyMessage ==
  /\ hand = "select" /\ inbox # <<>>
  /\ inbox' = Tail(inbox)
  /\ hand' = "loaded" /\ segment' = Head(inbox).word /\ late' = drainEnded
  /\ UNCHANGED <<streamer, link, finals, drainEnded, text, streamErr>>
  /\ UNCHANGED SourceVars /\ UNCHANGED ServerVars

(* Seeded fault: the end of the drain window is not looked at.              *)
TakeMessageAnyTime ==
  /\ hand = "select" /\ inbox # <<>>
  /\ inbox' = Tail(inbox)
  /\ IF Head(inbox).final
     THEN hand' = "loaded" /\ segment' = Head(inbox).word /\ late' = FALSE
     ELSE UNCHANGED <<hand, segment, late>>
  /\ UNCHANGED <<streamer, link, finals, drainEnded, text, streamErr>>
  /\ UNCHANGED SourceVars /\ UNCHANGED ServerVars

(* dispatchOne and handleMessage; for a final also the load of drainEnded   *)
(* that handleFinal begins with.                                            *)
TakeMessage ==
  /\ hand = "select" /\ inbox # <<>>
  /\ inbox' = Tail(inbox)
  /\ IF Head(inbox).final
     THEN hand' = "loaded" /\ segment' = Head(inbox).word /\ late' = drainEnded
     ELSE UNCHANGED <<hand, segment, late>>
  /\ UNCHANGED <<streamer, link, finals, drainEnded, text, streamErr>>
  /\ UNCHANGED SourceVars /\ UNCHANGED ServerVars

(* The rest of handleFinal: the mutex is taken after the load.              *)
KeepFinal ==
  /\ hand = "loaded"
  /\ hand' = "select"
  /\ finals' = IF late THEN finals ELSE Append(finals, segment)
  /\ segment' = 0 /\ late' = FALSE
  /\ UNCHANGED <<streamer, link, inbox, drainEnded, text, streamErr>>
  /\ UNCHANGED SourceVars /\ UNCHANGED ServerVars

HandlerGoesOn == TakeMessage \/ KeepFinal
=============================================================================
