SPECIFICATION Spec
CONSTANTS
  MaxEdits = 2
  MaxSaves = 2
  MaxForms = 2
INVARIANTS
  InstalledIsOpen
  NoModelForgotten
  ModelOutlivesItsUse
  EditsTakeEffect
  CurrentHotkeyIsHeard
CHECK_DEADLOCK FALSE
