CONSTANTS
  NumModules = 4
  MaxEdges = 6
  Modules <- MCModules
  Registries <- MCRegistries
SPECIFICATION Spec
INVARIANTS
  AnswersAsPromised
  PlanSound
  OneInstallOrder
CHECK_DEADLOCK FALSE
