\* One LUI for two loads.
SPECIFICATION Spec
CONSTANTS
  l = l  near = near  far = far
  Labels = {l}
  Data = {near, far}
  Address <- MCAddress
  Start = 24
  Reach <- MCReach
  Sections <- SharedHi
INVARIANT AddressesKept
CHECK_DEADLOCK FALSE
