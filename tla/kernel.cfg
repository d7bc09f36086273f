SPECIFICATION Spec
CONSTANTS
  Lines = {0, 1, 8}
  Noisy = {1, 8}
  Faults = {2, 3}
  MaxPanics = 1
  TICKS = 2
  LENGTH = 6
  Drivers <- MCDrivers
  Tables = 2
  LOCKS = 4
INVARIANTS
  TypeOK
  HeapExclusive
  LogsOwnName
  LogsAreSeen
  AssertsAreCaught
PROPERTIES
  EoiEndsItsOwn
  PanicIsFinal
  Acknowledged
  HeldTicksCome
  BootCompletes
