CONSTANTS
  Absent = Absent
  Contents = {Absent, c1}
  MaxWrites = 2
  Observers = {o1}
  Prepare = Prepare
  NoOne = NoOne
  None = None
  Overrides = {None, v1}
  Answer <- MCAnswer
  NoCursor = NoCursor
  BadCursor = BadCursor
  Sources = {"file"}
  MaxSlots = 1
  MaxInstances = 2
SPECIFICATION ObservationSpec
INVARIANTS NoLostWakeup AnswersAreFresh
PROPERTIES ForeignCursorRefused WokenWithoutTimer
CHECK_DEADLOCK FALSE
