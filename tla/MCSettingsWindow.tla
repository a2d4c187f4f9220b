--------------------------- MODULE MCSettingsWindow ---------------------------
(* Instances of SettingsWindow for TLC.                                     *)
EXTENDS SettingsWindow

(* A file with a key of an earlier version, one with the older name of the  *)
(* streaming provider, one that leaves most keys out and has a language the *)
(* window does not offer.                                                   *)
MCHandFiles ==
  {Yaml([provider |-> "openai", api_key |-> "key"] @@ ("go_whisper.prefix" :> "/api")),
   Yaml([provider |-> "deepgram-stream", api_key |-> "key", threshold |-> 0,
         model_path |-> "model"] @@ ("daemon.socket_path" :> "old")),
   Yaml([language |-> "de", ui_language |-> "ru", mode |-> "stdout"])}

Change(k, v) == [key |-> k, value |-> v]

MCEdits ==
  {Change("language", "ru"), Change("timeout", "junk"), Change("rate", "")}

CONSTANTS one, two
MCSaves == {one, two}
Symmetry == Permutations(MCSaves)
=============================================================================
