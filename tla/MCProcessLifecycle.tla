------------------------- MODULE MCProcessLifecycle -------------------------
(* Instances of ProcessLifecycle for TLC.                                   *)
EXTENDS ProcessLifecycle, FiniteSets

CONSTANTS first, second

MCProcs == {first, second}

Box(tools, wayland, x11) ==
  [tools |-> tools, wayland |-> wayland, x11 |-> x11, uinput |-> wayland,
   keyboard |-> TRUE, linked |-> TRUE, server |-> x11]

(* Desktops with and without the tools of their session, and a console.     *)
MCBoxes ==
  {Box({"pw-record", "ffmpeg", "wl-copy", "wl-paste", "wtype"}, TRUE, TRUE),
   Box({"parecord", "xclip", "xdotool"}, FALSE, TRUE),
   Box({"pw-record", "wl-copy", "wl-paste", "xclip", "wtype"}, FALSE, TRUE),
   Box({"pw-record", "wl-copy"}, FALSE, FALSE),
   Box({"ffmpeg"}, TRUE, FALSE)}

Config(provider, mode, paste, keyKnown) ==
  [provider |-> provider, url |-> TRUE, key |-> TRUE, mode |-> mode,
   paste |-> paste, restore |-> mode = "clipboard_autopaste", keyKnown |-> keyKnown]

MCConfigs ==
  {Config("openai", "clipboard_autopaste", paste, TRUE) : paste \in PasteCommands}
    \cup {Config(p, "clipboard", "auto", TRUE) : p \in {"go-whisper", "whisper-cpp"}}
    \cup {Config("deepgram", "stdout", "auto", k) : k \in BOOLEAN}

=============================================================================
