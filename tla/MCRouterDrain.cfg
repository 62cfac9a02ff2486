\* One worker reader and the detector; the smallest queue that can be full
\* of a mixture of severities.
CONSTANTS
  reader1 = reader1
  detector = detector
  Threads = {reader1, detector}
  Detector = detector
  QueueSize = 2
  MaxEvents = 2
SPECIFICATION Spec
INVARIANT DrainSurvives
CHECK_DEADLOCK FALSE
