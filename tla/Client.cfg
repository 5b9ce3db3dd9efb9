SPECIFICATION FairSpec
CONSTANTS
  a = a
  b = b
  e = e
  a1 = a1
  a2 = a2
  b1 = b1
  e1 = e1
  None = None
  Owners = {a, b, e}
  Tabs = {a1, a2, b1, e1}
  Calls = {k1, k2}
  Rank <- MCRank
  OwnerOf <- MCOwnerOf
  Tries = 2
  Plans <- MCPlans
INVARIANTS RoomsAgree BannerIsHonest MicrophoneFollowsCall
PROPERTY JoinResolves
CHECK_DEADLOCK FALSE
