\* A latched device tied to a particle that is not in a mesh of the first process.
SPECIFICATION Spec
CONSTANTS
  LastMesh = 3
  Process <- MCProcess
  LastDevc = 2
  Devc <- TiedDevc
  LastCtrl = 0
  Ctrl <- NoCtrl
  Obst <- NoParts
  Vent <- NoParts
  Levels = {0, 2}
  MaxT = 4
PROPERTIES
  DeviceLatchedOnce
