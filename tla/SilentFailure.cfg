CONSTANTS
  Absent = Absent
  Contents = {Absent, c1}
  MaxWrites = 1
  Observers = {o1}
  Prepare = Prepare
  NoOne = NoOne
  None = None
  Overrides = {None}
  Answer <- MCAnswer
  NoCursor = NoCursor
  BadCursor = BadCursor
  Sources = {"file"}
  MaxSlots = 1
  MaxInstances = 1
SPECIFICATION ObservationSpec
PROPERTY BrokenSourceSurfaces
CHECK_DEADLOCK FALSE
