SPECIFICATION FairSpec
CONSTANTS
  Notices = {n1, n2}
  None = None
  Capacity = 1
  BatchSize = 2
  TTL = 1
  Failures = {"delete", "entry", "lookup"}
  MaxTime = 2
  MaxCrashes = 1
INVARIANTS TypeOK MarkedIsHandled
PROPERTIES HandledOncePerTTL DeliversNotices EveryNoticeHandled
