\* Two requests of one tab, so that one can wait for the refresh of the other.
SPECIFICATION FairSpec
CONSTANTS
  q1 = q1
  q2 = q2
  Requests = {q1, q2}
  MaxBackground = 2
INVARIANTS
  TypeOK
  RefreshOwner
  SendsBounded
  TokenWatched
PROPERTY
  EveryRequestSettles
CHECK_DEADLOCK FALSE
