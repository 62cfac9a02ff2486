\* Two clients (a third is of a uid that may not call), two reader threads; one clerk and one package.
CONSTANTS
  c1 = c1
  c2 = c2
  c3 = c3
  d1 = d1
  d2 = d2
  Clients = {c1, c2, c3}
  AllowedClients = {c1, c2}
  Dispatchers = {d1, d2}
  Panels = {"commands", "gated", "alerts", "cases", "audit"}
  Shas = {"s1", "s2"}
  DedupWindows = {1}
  Limit = 2
  Window = 2
  FailureWindow = 3
  FailureThreshold = 2
  FailureCooldown = 2
  EventsDays = 1
  EventsMaxRows = 1
  AlertsDays = 1
  JournalDays = 1
  QuotaFiles = 1
  FloorDays = 1
  MaxTime <- MCTime
  MaxRequests <- MCRequests
  MaxMatches = 3
  MaxSkipped = 1
  AdvisoryFiles <- MCFiles
  FirstFiles <- MCFirst
  Installs <- MCInstalls
  MaxEdits = 2
  MaxScans = 3
  MaxWork = 4
  MaxVulnFaults = 1
  MaxRescans = 1
  Clerks = {"clerk"}
SPECIFICATION OpsSpec
SYMMETRY Sym
INVARIANTS
  
  AuditTrusted
PROPERTIES
  DecisionStands
  RetentionSafe
  
CHECK_DEADLOCK FALSE
