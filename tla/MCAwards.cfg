SPECIFICATION FairSpec
CONSTANTS
  w1 = w1
  w2 = w2
  f1 = f1
  f2 = f2
  f3 = f3
  b1 = b1
  b2 = b2
  b3 = b3
  completed = completed
  created = created
  None = None
  Workers = {w1, w2}
  Users = {1, 2}
  Facts = {f1, f2, f3}
  UserOf <- MCUserOf
  Worth <- MCWorth
  EventTypes = {completed, created}
  EventOf <- MCEventOf
  Checked = {completed}
  Badges = {b1, b2, b3}
  Wants <- MCWants
  Need <- MCNeed
  MaxDeliveries <- MCDeliveries
  MaxFaults = 1
INVARIANTS
  TypeOK
  AwardedOnce
  PointsKept
  BadgesFollow
  ScoresFollow
PROPERTIES
  HandlersEnd
CHECK_DEADLOCK FALSE
