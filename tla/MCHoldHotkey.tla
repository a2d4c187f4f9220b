---------------------------- MODULE MCHoldHotkey ----------------------------
(* Instances of HoldHotkey for TLC: two keyboards, one modifier with its    *)
(* two keycodes.                                                            *)
EXTENDS HoldHotkey

CONSTANTS internal, usb        \* two keyboards

MCOneDevice == {internal}
MCTwoDevices == {internal, usb}
MCCtrl == {{"leftctrl", "rightctrl"}}
=============================================================================
