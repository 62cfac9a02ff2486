SPECIFICATION Spec
CONSTANTS
  Workers = {w1}
  Senders = {s1, s2}
  MaxInflight = 1
  MaxRestarts = 1
  MaxSpawns = 2
  MaxHeals = 0
SYMMETRY SenderSymmetry
INVARIANTS
  NoStrandedWaiter
  AnswerFaithful
  LastWordHeard
PROPERTIES
  FirstFulfilmentStands
CHECK_DEADLOCK FALSE
