SPECIFICATION FairSpec
CONSTANTS
  Threads = {thread1, thread2}
  Requests <- MCRequests
  MaxRequests = 3
INVARIANTS TypeOK ResponseOfRequestAlone LeaksOnlyFailures
PROPERTIES EveryRequestAnswered
CHECK_DEADLOCK FALSE
