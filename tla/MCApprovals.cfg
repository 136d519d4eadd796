\* Two sessions decide one request while its flow of up to two steps is edited; its flow run.
SPECIFICATION Spec
CONSTANTS
  s1 = s1
  s2 = s2
  s3 = s3
  r1 = r1
  r2 = r2
  w1 = w1
  w2 = w2
  w3 = w3
  e1 = e1
  None = None
  Entities = {e1}
  EntityOf <- MCEntityOf
  Sessions = {s1, s2}
  Requests = {r1}
  Rows = {w1, w2}
  MaxOrder = 2
SYMMETRY MCSymmetry
INVARIANTS
  TypeOK
  PassedStepsApproved
  ApprovalCovers
  RunFollowsDecision
CHECK_DEADLOCK FALSE
