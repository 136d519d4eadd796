CONSTANTS
  Tenants = {t1}
  Registry <- MCRegistry
  Workers = {w1, w2}
  NoWorker = none
  MaxRow = 2
  Tables <- MCTables
  Models <- MCModels
  Scoped <- MCScoped
  Cascade <- MCCascade
  TableOf <- MCTableOf
  MaxRequests = 3
  StartStates = {"absent", "active", "grace_period"}
SPECIFICATION Spec
INVARIANTS
  TypeOK
  WipedWasExported
  NoDeadlock
SYMMETRY Symmetric
CHECK_DEADLOCK FALSE
