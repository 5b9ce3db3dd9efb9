SPECIFICATION FairSpec
CONSTANTS
  c1 = c1
  c2 = c2
  c3 = c3
  None = None
  Convs = {c1, c2, c3}
  Turns = 4
  PageSize = 2
  Plans <- MCPlans
INVARIANTS OneConversationShown ScreenIsHistory
PROPERTY SpinnerStops
CHECK_DEADLOCK FALSE
