SPECIFICATION ClientSpec
CONSTANTS
  Empty = Empty
  Contents = {Empty, a}
  Missing = Missing
  Corrupt = Corrupt
  Canonical = canonical
  Spellings = {canonical, other}
  NoRevision = NoRevision
  Workers = {w1, w2}
  MaxAttempts = 2
  Clients = {c1}
  Read = {Empty}
  Wanted = {a}
  Open = {w2}
  Nobody = Nobody
INVARIANTS RetriesAreInterference ToldTruth
PROPERTIES NoLostUpdate CorruptIsKept ImplementsRegister EveryCallReturns AppliedOnce
