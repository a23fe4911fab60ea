SPECIFICATION FairSpec
CONSTANTS
  Replica = {"r"}
  NoReplica = NoReplica
  MaxRetries = 2
  MaxInFlight = 2
  MaxFaults = 4
  MaxEdits = 3
  MaxDisruptions = 2
INVARIANTS TypeOK NoLostTrigger RetriesExact
PROPERTIES Settles
CHECK_DEADLOCK FALSE
