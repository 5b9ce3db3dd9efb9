SPECIFICATION Planned
CONSTANTS
  a = a
  b = b
  e = e
  a1 = a1
  a2 = a2
  b1 = b1
  b2 = b2
  e1 = e1
  i1 = i1
  i2 = i2
  chat = chat
  pair = pair
  d1 = d1
  d2 = d2
  None = None
  Owners = {a, b, e}
  Conns = {a1, a2, b1, b2, e1}
  Late = {b2}
  Dialers = {a1, b1}
  Calls = {d1}
  Conversations = {pair, chat}
  Instances = {i1}
  Reapers = {}
  OwnerOf <- MCOwnerOf
  SessionOf <- Reloaded
  InstanceOf <- OneInstance
  People <- Everyone
  MaxParticipants = 3
  MaxFrames = 3
  Plans <- PairAndGroup
  MaxCloses = 1
  Mortal = {i1}
  MaxCrashes = 0
  MaxRestarts = 0
  MaxFaults = 0
INVARIANT HistoryKnowsWhoJoined
INVARIANT UndecidedAreRung
PROPERTY EndingsAreClaimed
PROPERTY OpenPlaceIsKept
CHECK_DEADLOCK FALSE
