---------------------------- MODULE WhisperModel ----------------------------
(***************************************************************************)
(* The local model, pkg/stt/whisper.go: the C context behind w.mu and the   *)
(* calls that several goroutines make on one WhisperTranscriber.  A context *)
(* is named by the number of its allocation.                                *)
(***************************************************************************)
EXTENDS Naturals, Sequences

CONSTANTS
  Users,      \* the goroutines that call the transcriber
  NoUser,
  Paths,      \* model files
  NoPath,     \* the empty modelPath
  MaxModels   \* bound: models loaded in a behaviour

ASSUME WhisperAssumption ==
  /\ NoUser \notin Users /\ NoPath \notin Paths
  /\ MaxModels \in Nat \ {0}

NoCtx == 0

VARIABLES
  mu,         \* who holds w.mu across a long C call
  ctx,        \* w.ctx
  modelPath,  \* w.modelPath
  live,       \* the contexts allocated and not freed
  born,       \* how many were allocated
  call        \* where each user's call is

modelVars == <<mu, ctx, modelPath, live, born, call>>

CallSteps == {"idle", "waiting", "computing", "reloading"}

ModelType ==
  /\ mu \in Users \cup {NoUser}
  /\ ctx \in 0..MaxModels
  /\ modelPath \in Paths \cup {NoPath}
  /\ live \in SUBSET (1..MaxModels)
  /\ born \in 0..MaxModels
  /\ call \in [Users -> CallSteps]

(* The factory loads a model before it hands the transcriber out.           *)
ModelInit ==
  /\ mu = NoUser
  /\ ctx = 1 /\ live = {1} /\ born = 1
  /\ modelPath \in Paths
  /\ call = [u \in Users |-> "idle"]

Step(u, from, to) ==
  /\ call[u] = from
  /\ call' = [call EXCEPT ![u] = to]

(* initWhisperFromFile succeeds: the allocation of the next context.        *)
Allocate(path, others) ==
  /\ born < MaxModels
  /\ born' = born + 1
  /\ ctx' = born + 1 /\ modelPath' = path
  /\ live' = others \cup {born + 1}

(* LoadModel frees the loaded model, then loads the other.                  *)
LoadModel(u) ==
  /\ call[u] = "idle" /\ mu = NoUser
  /\ \/ \E path \in Paths : Allocate(path, live \ {ctx})
     \/ /\ ctx' = NoCtx /\ live' = live \ {ctx}
        /\ UNCHANGED <<modelPath, born>>
  /\ UNCHANGED <<mu, call>>

(* ReloadModel takes the mutex twice: for the directory of the model, and   *)
(* after the file was found.                                                *)
ReloadBegins(u) ==
  /\ mu = NoUser
  /\ Step(u, "idle", "reloading")
  /\ UNCHANGED <<mu, ctx, modelPath, live, born>>

(* Seeded fault: the previous model is freed before the new one is there.   *)
ReloadFreeingFirst(u) ==
  /\ mu = NoUser
  /\ Step(u, "reloading", "idle")
  /\ \/ \E path \in Paths : Allocate(path, live \ {ctx})
     \/ live' = live \ {ctx} /\ UNCHANGED <<ctx, modelPath, born>>
  /\ UNCHANGED mu

ReloadModel(u) ==
  /\ mu = NoUser
  /\ Step(u, "reloading", "idle")
  /\ \/ \E path \in Paths : Allocate(path, live \ {ctx})
     \/ UNCHANGED <<ctx, modelPath, live, born>>
  /\ UNCHANGED mu

Close(u) ==
  /\ call[u] = "idle" /\ mu = NoUser /\ ctx # NoCtx
  /\ live' = live \ {ctx}
  /\ ctx' = NoCtx /\ modelPath' = NoPath
  /\ UNCHANGED <<mu, born, call>>

(* Transcribe and DetectLanguage, once the samples are read: the context of *)
(* the call and the model are looked at under the mutex.                    *)
AskModel(u) ==
  /\ Step(u, "idle", "waiting")
  /\ UNCHANGED <<mu, ctx, modelPath, live, born>>

Compute(u, cancelled) ==
  /\ mu = NoUser
  /\ IF cancelled \/ ctx = NoCtx
     THEN Step(u, "waiting", "idle") /\ UNCHANGED mu
     ELSE Step(u, "waiting", "computing") /\ mu' = u
  /\ UNCHANGED <<ctx, modelPath, live, born>>

(* The C call returns; nothing can interrupt it.                            *)
Computed(u) ==
  /\ Step(u, "computing", "idle")
  /\ mu' = NoUser
  /\ UNCHANGED <<ctx, modelPath, live, born>>

ModelCalls(u) ==
  \/ LoadModel(u) \/ ReloadBegins(u) \/ ReloadModel(u) \/ Close(u)
  \/ AskModel(u) \/ \E cancelled \in BOOLEAN : Compute(u, cancelled)
  \/ Computed(u)

(* The memory of the C library: the current context is allocated, a call    *)
(* computes with it alone, and no other context is left behind.             *)
ModelMemory ==
  /\ live = IF ctx = NoCtx THEN {} ELSE {ctx}
  /\ \A u \in Users : call[u] = "computing" => mu = u /\ ctx \in live
=============================================================================
