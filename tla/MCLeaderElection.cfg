SPECIFICATION FairSpec
CONSTANTS
  Replica = {"r1", "r2"}
  LeaseDuration = 5
  RenewDeadline = 2
  RetryPeriod = 1
  MaxFaults = 2
  MaxDisruptions = 2
INVARIANTS TypeOK OneLeader
PROPERTIES SomeLeader LeaseRespected
