\* Two workers serve the group under fair scheduling; one error of a Redis call or one termination.
SPECIFICATION FairSpec
CONSTANTS
  l1 = l1
  l2 = l2
  a1 = a1
  a2 = a2
  wanted = wanted
  unwanted = unwanted
  broken = broken
  tA = tA
  tB = tB
  Unparsable = Unparsable
  Loops = {l1, l2}
  Admins = {a1}
  Events = {wanted, unwanted, broken}
  Types = {tA, tB}
  TypeOf <- MCTypeOf
  Filter <- MCFilterSame
  MaxAttempts = 2
  BatchSize = 2
  MaxStream = 3
  MaxFaults = 1
INVARIANTS
  TypeOK
  NoDeliveryLost
  ExclusiveDelivery
  DeadLetterJustified
PROPERTIES
  ImplementsDelivery
  EventuallySettled
  SettledOrStranded
CHECK_DEADLOCK FALSE
