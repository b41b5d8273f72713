CONSTANTS
  Absent = Absent
  Contents = {Absent}
  MaxWrites = 0
  Observers = {o1, o2}
  Prepare = Prepare
  NoOne = NoOne
  None = None
  Overrides = {None}
  Answer <- MCAnswer
  NoCursor = NoCursor
  BadCursor = BadCursor
  Sources = {"nil", "file", "injected"}
  MaxSlots = 1
  MaxInstances = 1
SPECIFICATION ObservationSpec
INVARIANTS SlotsAccounted ClosedLeavesNothing
PROPERTIES FailureIsFinal CloseDrains
CHECK_DEADLOCK FALSE
