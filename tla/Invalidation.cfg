CONSTANTS
  Absent = Absent
  Contents = {Absent, c1, c2}
  Editors = {e1}
  MaxWrites = 2
SPECIFICATION InvalidationSpec
INVARIANT NoChangeForgotten
PROPERTIES NoSendOnClosed ChangeDelivered CloseReturns ImplementsChangeSource
CHECK_DEADLOCK FALSE
