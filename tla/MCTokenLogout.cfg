\* The timer logs a tab in again after its user logged out.
SPECIFICATION Spec
CONSTANTS
  q1 = q1
  q2 = q2
  Requests = {q1}
  MaxBackground = 1
INVARIANT
  LoggedOutStaysOut
CHECK_DEADLOCK FALSE
