SPECIFICATION FairSpec
CONSTANTS
  q1 = q1
  q2 = q2
  Task = Task
  Job = Job
  Requests = {q1, q2}
  MaxRows = 4
  Plans <- MCPlans
  MaxFaults = 2
INVARIANTS
  TypeOK
  CalledOnce
  CompletedRunDone
  AwaitingHasStep
PROPERTY
  EndsOrAbandoned
CHECK_DEADLOCK FALSE
