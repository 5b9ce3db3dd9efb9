SPECIFICATION FairSpec
CONSTANTS
  Notices = {1, 2, 3}
  LoopOf <- MCLoopOf
  Streams = {1, 2, 3}
  MaxDeliver = 3
  PageSize = 1
  Plans <- MCPlans
  None = None
INVARIANTS ToastOnce BadgeAgrees DigestPassesNobodyOver
PROPERTY StreamComesBack
CHECK_DEADLOCK FALSE
