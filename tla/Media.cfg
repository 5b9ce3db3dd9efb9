SPECIFICATION MediaSpec
CONSTANTS
  Plans <- MCPlans
  Screens = {s1, s2}
  Peers = {1, 2, 3}
  Cams = {c1, c2, c3}
  Captured = {d1, d2, d3}
  Shown = {r1, r2}
  Me = 0
  StagePlans <- MCStagePlans
  None = None
  NoTrack = NoTrack
INVARIANTS RestIsAgreement PresenterReachesEveryone CameraReachesEveryone
PROPERTY LinkOpens
CHECK_DEADLOCK FALSE
