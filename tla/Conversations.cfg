SPECIFICATION Spec
CONSTANTS
  People = {1, 2, 3}
  Me = 2
  MaxGroupParticipants = 3
  MaxRows = 3
  MaxLoads = 1
  Plans <- Everything
INVARIANT FirstMessageHasOneHome
INVARIANT ThreadFollowsUrl
CHECK_DEADLOCK FALSE
