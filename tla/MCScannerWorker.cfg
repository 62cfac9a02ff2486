SPECIFICATION FairSpec
CONSTANTS
  None = None
  Scanners = {"aide", "yara"}
  Enabled = {"aide", "yara"}
  Order <- MCOrder
  IntervalT = 2
  BackoffT = 1
  StartupT = 0
  TickCost = 120
  ShutdownGrace = 3
  StopBudget = 10
  OutputMax = 2
  MaxLines = 1
INVARIANTS
  
  TruthfulReport
  TriggerWakes
PROPERTIES
  ScheduleKept
  ImplementsService
