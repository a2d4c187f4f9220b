------------------------------ MODULE ConfigFile ------------------------------
(***************************************************************************)
(* What a start makes of config.yaml and what a save makes of it            *)
(* (internal/infra/config and SaveConfig of internal/adapters/settings).    *)
(* A number, a duration or a level is its sign; timeout stands for the      *)
(* three timeouts, rate for sample rate and channels, api_key and url for   *)
(* those of the one provider beside whisper-cpp that an instance has.       *)
(* Overrides from the environment and the local overlay of a developer are  *)
(* left out.                                                                *)
(***************************************************************************)
EXTENDS Integers, TLC

Unset == ""

(* setVoiceDefaults; a key without a default is the zero of its type.       *)
Defaults ==
  [provider |-> "whisper-cpp", language |-> "en", ui_language |-> "en",
   model_path |-> Unset, url |-> "http", api_key |-> Unset, streaming |-> FALSE,
   timeout |-> 1, temp_dir |-> Unset, log_level |-> "info",
   backend |-> "auto", rate |-> 1, max_duration |-> 0, threshold |-> -1,
   mode |-> Unset, autopaste |-> Unset, hotkey_mode |-> Unset, keep_audio_format |-> "wav"]

Keys == DOMAIN Defaults
NumberKeys == {"timeout", "rate", "max_duration", "threshold"}
KnownKeys == Keys \cup {"flat output keys"}
DeprecatedKeys == {"daemon.socket_path"}

(* The template that is written on the first launch.                        *)
Template ==
  [max_duration |-> 1, mode |-> "clipboard", autopaste |-> "auto",
   hotkey_mode |-> "toggle"]
    @@ [k \in Keys \ {"ui_language", "streaming", "threshold",
                      "keep_audio_format"} |-> Defaults[k]]

(* A file is missing, torn (not YAML any more) or a map from keys.          *)
NoKeys == [k \in {} |-> Unset]
Missing == [is |-> "missing", keys |-> NoKeys]
Torn == [is |-> "torn", keys |-> NoKeys]
Yaml(keys) == [is |-> "yaml", keys |-> keys]

-----------------------------------------------------------------------------
(* LoadVoice.                                                               *)

UnknownKeys(keys) == DOMAIN keys \ (KnownKeys \cup DeprecatedKeys)

Merged(keys) == [k \in Keys |-> IF k \in DOMAIN keys THEN keys[k] ELSE Defaults[k]]

MigrateLegacyVoiceProvider(c) ==
  IF c.provider = "deepgram-stream"
  THEN [c EXCEPT !.provider = "deepgram", !.streaming = TRUE]
  ELSE c

OrElse(value, default) == IF value = Unset THEN default ELSE value

(* normalizeVoiceConfig; the timeouts and max_duration keep their zero.     *)
Normalized(c) ==
  [c EXCEPT !.mode = OrElse(@, "clipboard"),
            !.autopaste = OrElse(@, "auto"),
            !.backend = OrElse(@, "auto"),
            !.keep_audio_format = OrElse(@, "wav"),
            !.rate = IF @ = 0 THEN 1 ELSE @]

OutputIsKnown(c) ==
  /\ c.mode \in {"stdout", "clipboard", "clipboard_autopaste"}
  /\ c.autopaste \in {"auto", "wtype", "ydotool", "xdotool", "uinput"}
LogLevelIsKnown(c) == c.log_level \in {Unset, "debug", "info", "warn", "error"}
(* "two words": whatever is not one language tag.                           *)
LanguageIsOne(c) == c.language \notin {Unset, "two words"}
TimeoutsArePositive(c) == c.timeout > 0
CaptureIsSound(c) ==
  /\ c.rate > 0 /\ c.max_duration >= 0 /\ c.threshold <= 0
  /\ c.backend \in {"auto", "pipewire", "pulseaudio"}
FormatIsKnown(c) == c.keep_audio_format \in {"wav", "ogg"}
UrlIsPlain(url) == url = "http"

HasCredentials(c) == c.api_key # Unset /\ (c.url = Unset \/ UrlIsPlain(c.url))

ProviderIsComplete(c) ==
  \/ c.provider = "whisper-cpp"
  \/ c.provider = "go-whisper" /\ UrlIsPlain(c.url)
  \/ c.provider \in {"openai", "deepgram"} /\ HasCredentials(c)

IsValid(c) ==
  /\ OutputIsKnown(c) /\ LogLevelIsKnown(c) /\ LanguageIsOne(c)
  /\ TimeoutsArePositive(c) /\ CaptureIsSound(c) /\ FormatIsKnown(c)
  /\ ProviderIsComplete(c)

(* A directory that exists with other permissions than 0700.                *)
TempDirIsPrivate(c) == c.temp_dir # "shared"

ValidateVoice(c) == Normalized(MigrateLegacyVoiceProvider(c))

Loaded(file) ==
  LET c == Merged(file.keys)
  IN ValidateVoice([c EXCEPT !.temp_dir = OrElse(@, "private")])

(* Is a start with this file accepted?                                      *)
Loads(file) ==
  /\ file.is # "torn"
  /\ UnknownKeys(file.keys) = {}
  /\ IsValid(Loaded(file)) /\ TempDirIsPrivate(Loaded(file))

-----------------------------------------------------------------------------
(* SaveConfig: the file as it is, with the keys the window knows replaced.  *)

(* ui_language is not among the keys the window writes.                     *)
Written(c) ==
  Keys \ ({"ui_language"} \cup IF c.api_key = Unset THEN {"api_key"} ELSE {})

(* Seeded fault: what is empty or zero is not written.                      *)
ApplyNonZeroToMap(existing, c) ==
  [k \in {j \in Written(c) \ {"streaming"} :
            IF j \in NumberKeys THEN c[j] # 0 ELSE c[j] # Unset} |-> c[k]] @@ existing

(* The keys of earlier versions are taken out.                              *)
ApplyToMap(existing, c) ==
  [k \in Written(c) \cup (DOMAIN existing \ {"go_whisper.prefix"}) |->
     IF k \in Written(c) THEN c[k] ELSE existing[k]]

Saved(file, c) ==
  Yaml(ApplyToMap(IF file.is = "yaml" THEN file.keys ELSE NoKeys, c))

=============================================================================
