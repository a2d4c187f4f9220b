------------------------------- MODULE Wiring -------------------------------
(***************************************************************************)
(* What a start finds and builds on a machine: the dependency probes        *)
(* (internal/infra/depcheck) and the factories (internal/infra/factory)     *)
(* that decide, each by its own rules, which recorder, clipboard, paste     *)
(* tool and hotkey the daemon gets.  A box is a machine, cfg a              *)
(* configuration that passed ValidateVoice.                                 *)
(***************************************************************************)
EXTENDS Sequences, FiniteSetsExt

Providers == {"go-whisper", "openai", "deepgram", "whisper-cpp"}
Modes == {"stdout", "clipboard", "clipboard_autopaste"}
PasteCommands == {"auto", "wtype", "ydotool", "xdotool", "uinput"}

Has(box, tool) == tool \in box.tools

(* The first of the candidates that is installed, or "none".                *)
FirstInstalled(box, candidates) ==
  LET found == {i \in DOMAIN candidates : Has(box, candidates[i])}
  IN IF found = {} THEN "none" ELSE candidates[Min(found)]

-----------------------------------------------------------------------------
(* The dependency check.                                                    *)

Dep(name, found, optional) == [name |-> name, found |-> found, optional |-> optional]

(* Seeded fault: the probe looks for the converter the recorder never runs. *)
CaptureDepsByConverter(box) ==
  {Dep("capture", FirstInstalled(box, <<"pw-record", "parecord", "ffmpeg">>) # "none", FALSE)}

CaptureDeps(box) ==
  {Dep("capture", FirstInstalled(box, <<"pw-record", "parecord">>) # "none", FALSE)}

FfmpegDep(box) == Dep("ffmpeg", Has(box, "ffmpeg"), FALSE)

(* A local model that is not configured or missing counts as found.         *)
SttDeps(cfg, box) ==
  CASE cfg.provider = "go-whisper"  -> {Dep("go-whisper", cfg.url /\ box.server, FALSE)}
    [] cfg.provider \in {"openai", "deepgram"} -> {Dep(cfg.provider, cfg.key, FALSE)}
    [] cfg.provider = "whisper-cpp" -> {Dep("whisper-cpp", box.linked, FALSE), FfmpegDep(box)}

ClipboardDep(box) ==
  Dep("clipboard", FirstInstalled(box, <<"wl-copy", "xclip">>) # "none", TRUE)

AutopasteDeps(cfg, box) ==
  IF cfg.mode # "clipboard_autopaste" THEN {}
  ELSE CASE cfg.paste = "uinput" -> {Dep("uinput", box.uinput, FALSE)}
         [] cfg.paste = "auto" ->
              {Dep("auto", FirstInstalled(box, <<"wtype", "ydotool", "xdotool">>) # "none", TRUE)}
         [] OTHER -> {Dep(cfg.paste, Has(box, cfg.paste), TRUE)}

HotkeyDeps(box) == {Dep("evdev", box.keyboard, FALSE)}

BuildDeps(cfg, box) ==
  {Dep("platform", TRUE, FALSE), ClipboardDep(box)} \cup CaptureDeps(box)
    \cup SttDeps(cfg, box) \cup AutopasteDeps(cfg, box) \cup HotkeyDeps(box)

(* CheckMode and renderResults: what is missing, and whether it is fatal.   *)
Missing(cfg, box) == {d \in BuildDeps(cfg, box) : ~d.found}
FatalMissing(cfg, box) == {d.name : d \in {m \in Missing(cfg, box) : ~m.optional}}

-----------------------------------------------------------------------------
(* The factories.                                                           *)

BuildRecorder(box) == FirstInstalled(box, <<"pw-record", "parecord">>)

(* The session's own tool first, the other one rather than none.            *)
InSessionOrder(box, wayland, x11) ==
  FirstInstalled(box, IF box.x11 /\ ~box.wayland THEN <<x11, wayland>> ELSE <<wayland, x11>>)

SessionClipboard(box) == InSessionOrder(box, "wl-copy", "xclip")
SessionClipboardReader(box) == InSessionOrder(box, "wl-paste", "xclip")

(* NewWaylandAutopaster knows all three tools, NewX11Autopaster one.        *)
WaylandAutopaster(cmd, box) ==
  FirstInstalled(box, IF cmd = "auto" THEN <<"wtype", "ydotool", "xdotool">> ELSE <<cmd>>)

X11Autopaster(cmd, box) ==
  IF cmd \notin {"auto", "xdotool"} THEN "unsupported"
  ELSE FirstInstalled(box, <<"xdotool">>)

SessionAutopaster(cmd, box) ==
  LET onWayland == WaylandAutopaster(cmd, box)
  IN CASE cmd = "uinput" -> IF box.uinput THEN "uinput" ELSE "none"
       [] cmd # "uinput" /\ box.wayland -> onWayland
       [] cmd # "uinput" /\ ~box.wayland /\ box.x11 -> X11Autopaster(cmd, box)
       [] OTHER -> IF onWayland # "none" THEN onWayland ELSE X11Autopaster(cmd, box)

Sink(to) == [to |-> to, paste |-> "none", restore |-> "none"]

(* buildAutopasteOutput: a missing tool degrades to the plain clipboard, a  *)
(* tool of the other session is refused.                                    *)
AutopasteOutput(cfg, box, clip) ==
  LET paste == SessionAutopaster(cfg.paste, box)
  IN CASE paste = "unsupported" -> Sink("refused")
       [] paste = "none" -> Sink(clip)
       [] OTHER -> [to |-> clip, paste |-> paste,
                    restore |-> IF cfg.restore THEN SessionClipboardReader(box) ELSE "none"]

BuildOutput(cfg, box) ==
  LET clip == SessionClipboard(box)
  IN CASE cfg.mode = "stdout" -> Sink("stdout")
       [] cfg.mode # "stdout" /\ clip = "none" -> Sink("log")
       [] cfg.mode = "clipboard" /\ clip # "none" -> Sink(clip)
       [] OTHER -> AutopasteOutput(cfg, box, clip)

(* The key and the modifiers must be names the keycode table knows.         *)
BuildHotkey(cfg) == cfg.keyKnown

(* The first factory that fails ends the start.                             *)
FailedBuild(cfg, box) ==
  CASE BuildRecorder(box) = "none" -> "recorder"
    [] BuildRecorder(box) # "none" /\ BuildOutput(cfg, box).to = "refused" -> "output"
    [] BuildRecorder(box) # "none" /\ BuildOutput(cfg, box).to # "refused"
         /\ ~BuildHotkey(cfg) -> "hotkey"
    [] OTHER -> "none"

=============================================================================
