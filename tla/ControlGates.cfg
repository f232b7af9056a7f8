\* Three gates over two devices, in every order of declaration.
SPECIFICATION Spec
CONSTANTS
  NCtrl = 3
  Devices = {"d1", "d2"}
  Levels = {1}
  Networks <- GateNetworks
  MaxT = 2
INVARIANTS
  TypeOK
  Consistent
  EdgesReported
PROPERTIES
  LatchedOnce
