SPECIFICATION Spec
CONSTANTS
  Dirs = {d}
  Inodes = {i1, i2, i3, i4, i5}
  None = None
  Folders = {f1, f2}
  Versions = {NoVersion, v1}
  NoVersion = NoVersion
  MaxChanges = 2
INVARIANTS
  KqueueLeavesNothingUntold
  KqueueStoppedOwnsNothing
  WindowsLeavesNothingUntold
  WindowsStoppedOwnsNothing
  PyLeavesNothingUnread
PROPERTIES
  KqueueStopReturns
  WindowsStopReturns
  PyCloseReturns
\* A notifier that was never started, or has been stopped, may meet a disk
\* where nothing can change any more, or the bound on the changes is reached.
CHECK_DEADLOCK FALSE
