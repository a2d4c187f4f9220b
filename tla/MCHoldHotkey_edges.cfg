SPECIFICATION FairSpec
CONSTANTS
  internal = internal
  usb = usb
  Devices <- MCTwoDevices
  MainDevices <- MCOneDevice
  ModGroups <- MCCtrl
  MaxPresses = 2
INVARIANTS
  PressesBalance
  BelievedKeysWereHeld
  GateFollowsKey
PROPERTIES
  ReleaseFreesGate
  PressDoesNotWait
CHECK_DEADLOCK FALSE
