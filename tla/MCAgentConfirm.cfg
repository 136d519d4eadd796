SPECIFICATION Spec
CONSTANTS
  q1 = q1
  q2 = q2
  Task = Task
  Job = Job
  Requests = {q1}
  MaxRows = 2
  Plans <- MCPlans
  MaxFaults = 0
INVARIANT
  ConfirmedStepsInvoked
CHECK_DEADLOCK FALSE
