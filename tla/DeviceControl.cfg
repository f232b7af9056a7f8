\* Three devices, three gates, obstructions with holes and vents on two processes.
SPECIFICATION Spec
CONSTANTS
  LastMesh = 3
  Process <- MCProcess
  LastDevc = 3
  Devc <- MCDevc
  LastCtrl = 4
  Ctrl <- MCCtrl
  Obst <- MCObst
  Vent <- MCVent
  Levels = {0, 1, 2}
  MaxT = 4
INVARIANTS
  TypeOK
  PartsFollow
  VentsActOnce
  ControlsFollow
PROPERTIES
  DeviceLatchedOnce
