SPECIFICATION MCSpec
CONSTANTS
  Requests = {q1, q2, q3}
  MaxClients = 3
  MaxEngines = 6
SYMMETRY Perms
INVARIANTS EngineLifecycle LinkCoherent NoOrphanReceiver
CHECK_DEADLOCK FALSE
