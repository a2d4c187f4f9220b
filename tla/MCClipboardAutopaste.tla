------------------------ MODULE MCClipboardAutopaste ------------------------
(* Instances of ClipboardAutopaste for TLC.                                 *)
EXTENDS ClipboardAutopaste
=============================================================================
