CONSTANTS
  m1 = m1
  m2 = m2
  b1 = b1
  Junk = Junk
  Method = {m1, m2, print}
  Block = {b1}
  Profiling = print
  Line <- MCLine
  Start <- MCStart
  FirstSize = 2
  FirstEntries = 2
  MaxDepth = 4
  MaxPosition = 5
  MaxTime = 1
  MaxSessions = 2
  MaxActive = 2
SPECIFICATION ProfilerSpec
INVARIANTS TypeOK HomesLive RecordsIntact StaleRecordsConfined EntriesOwn CallersRight TimeOnce SessionSound
CONSTRAINT Smaller
CHECK_DEADLOCK FALSE
