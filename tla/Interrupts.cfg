SPECIFICATION Spec
CONSTANTS
  Devices <- SomeDevices
  Drivers <- SomeDrivers
INVARIANTS
  TypeOK
  NoStray
  Heard
PROPERTIES
  KeyServed
