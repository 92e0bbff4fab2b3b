CONSTANTS
  ps2_mouse = ps2_mouse
  ext4_fs = ext4_fs
  input_a = input_a
  input_b = input_b
  Drivers <- MCDrivers
  ClassOf <- MCClassOf
  HasProbe <- MCHasProbe
  MAX_DRIVERS_PER_CLASS = 2
  MouseDriver = ps2_mouse
  MouseKind = "standard"
  Buttons = {0, 1}
  Moves = {0, 200}
  MaxPackets = 2

SPECIFICATION Spec
INVARIANTS
  TypeOK
  LoadedDriversFound
  ReportingOnlyWhileLoaded
