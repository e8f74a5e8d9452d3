SPECIFICATION FairSpec
CONSTANTS
  Processes = {acm1, acm2}
  Partitions = {p1}
  Nobody = Nobody
  MaxMessages = 2
  MaxDisruptions = 2
  MaxRebalances = 1
INVARIANTS TypeOK NothingSkipped TakenAccounted RedeliveryNeedsDisruption
PROPERTIES CommitsAdvance EveryMessageCommitted
CHECK_DEADLOCK FALSE
