CONSTANTS
  Tenants = {t1}
  Registry <- MCRegistryAlone
  Workers = {w1}
  NoWorker = none
  MaxRow = 2
  Tables <- MCTables
  Models <- MCModels
  Scoped <- MCScoped
  Cascade <- MCCascade
  TableOf <- MCTableOfLeftOut
  MaxRequests = 2
  StartStates = {"active", "grace_period"}
SPECIFICATION Spec
INVARIANTS
  UninstalledIsEmpty
CHECK_DEADLOCK FALSE
