\* A thermostat that stops the run and asks for restart files.
SPECIFICATION Spec
CONSTANTS
  NCtrl = 4
  Devices = {"d1", "d2"}
  Levels = {0, 1, 2}
  Networks <- ThermostatNetworks
  MaxT = 3
INVARIANTS
  RequestsCurrent
PROPERTIES
  Hysteresis
