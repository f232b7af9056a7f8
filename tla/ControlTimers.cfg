\* Timers of a device and of a gate, declared before and after their inputs.
SPECIFICATION Spec
CONSTANTS
  NCtrl = 3
  Devices = {"d1", "d2"}
  Levels = {1}
  Networks <- TimerNetworks
  MaxT = 6
INVARIANTS
  DelayExpires
PROPERTIES
  DelayOnce
