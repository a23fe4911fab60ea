SPECIFICATION Spec
CONSTANTS
  Scrape = {"s1", "s2"}
  Limits = {2, 3}
  Counts = {0, 3}
  MaxCalls = 3
INVARIANTS TypeOK AlarmExplained
CHECK_DEADLOCK FALSE
