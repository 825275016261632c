SPECIFICATION ServicesSpec
CONSTANTS
  Units = {1, 2}
  CriticalUnits = {1}
  Drivers = {1, 2}
  MaxCalls = 3
  UnitIds = {1, 2, 3}
  MaxEdges = 4
INVARIANTS RefusedMeansRaced PlansSound
PROPERTIES DriversReturn
CHECK_DEADLOCK FALSE
