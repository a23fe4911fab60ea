SPECIFICATION FairSpec

CONSTANTS
  Part <- MCPart
  Settings <- MCSettings
  Documents <- Files
  MaxFaults = 1
  MaxEdits = 1
  MaxDisruptions = 1

INVARIANTS TypeOK GroupsReady OnlySoundRuns RestartApplies
PROPERTIES UpWhenSound
CHECK_DEADLOCK FALSE
