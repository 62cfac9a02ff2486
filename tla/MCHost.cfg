SPECIFICATION HostSpec
CONSTANTS
  reader1 = reader1
  detector = detector
  Threads = {reader1, detector}
  Detector = detector
  QueueSize = 2
  MaxEvents = 2
  Sockets <- MCSockets
  Units = {"u1","u2"}
  Entries <- MCEntries
  Modules = {"m1","m2"}
  MaxChanges <- MCChanges
  MaxDeaths = 1
  MaxLosses = 1
  MaxFaults = 1
  MaxInFlight = 2
  ListLimit = 1
  Devices = {"d1","d2"}
  Ids <- MCIds
  MaxBlockLines = 3
  MaxLineBuf = 2
  MaxChunk = 2
  MaxBlocks = 2
  Cpus = {0,1}
  Programs = {"sh","ls"}
  RingSize = 2
  MaxActs <- MCMaxActs
  MaxDowns = 1
  Procs = {1, 2, 3}
  Loads = {1, 3}
  MaxConnects = 3
  MaxMinute = 3
  MaxRestarts = 2
  MaxDbFaults = 1
  MaxSamples = 5
  MaxEntities = 2
  Capacity = 2
  Width = 2
  MinSamples = 2
  ZThreshold = 1
  MaxCatchup = 1
  BeaconRing = 2
  BeaconMinEvents = 2
  BeaconMinInterval = 1
  BeaconMaxInterval = 1
  SustainedFactor = 1
  SustainedTicks = 2
INVARIANTS
  QueueBounded
  OrderKept
  DevicesHonest
  
  

  
  
CHECK_DEADLOCK FALSE
