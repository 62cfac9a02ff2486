SPECIFICATION FairSpec
CONSTANTS
  Workers = {w1}
  Senders = {s1}
  MaxInflight = 1
  MaxRestarts = 1
  MaxSpawns = 4
  MaxHeals = 1
INVARIANTS
  OneLiveIncarnation
  CrashLoopBounded
  NoOrphanWorker
PROPERTIES
  NobodyWaitsForever
CHECK_DEADLOCK FALSE
