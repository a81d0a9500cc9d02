SPECIFICATION ParamsSpec
CONSTANTS
  Keys = {k1, k2}
  LongKeys = {long}
  Devices = {d1, d2}
  MaxDevices = 2
  Null = Null
SYMMETRY Symmetry
CHECK_DEADLOCK FALSE
INVARIANTS
  ParamsTypeOK
  VectorsWalkable
  OverridesAreTheGiven
PROPERTY FlagsAreIndependent
