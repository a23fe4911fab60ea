SPECIFICATION FairSpec
CONSTANTS
  Replica = {"old", "new"}
  NoReplica = NoReplica
  MaxRetries = 1
  MaxInFlight = 2
  MaxFaults = 0
  MaxEdits = 0
  MaxDisruptions = 1
PROPERTIES StatusPublished
CHECK_DEADLOCK FALSE
