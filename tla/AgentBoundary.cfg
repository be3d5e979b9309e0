SPECIFICATION BoundarySpec
CONSTANTS
  Calls = {c1, c2}
  Objects = {o1}
  None = None
  EventTypes = {"USER", "WEB", "SYSTEM", None}
  EngineTargets = {"reply", "transfer_money", "rm -rf /"}
  EnvLists <- MCEnvLists
  FileLists <- MCFileLists
SYMMETRY Twins
 
PROPERTY ImplementsGate
CHECK_DEADLOCK FALSE
