CONSTANTS
  MaxDroplets = 2
  MaxUIDs = 2
  MaxAddresses = 2
  Scenarios = {{"error", "ready", "power", "destroy"}, {"error", "address", "delete"}, {"error", "ready", "destroy", "reuse"}, {"error", "providerID", "ready", "destroy", "reuse"}, {"mixed", "delete"}}
  MaxDisturbances = 3
  Nil = Nil
SPECIFICATION FairSpec
INVARIANTS TypeOK InitialisedHaveID
PROPERTIES LiveNodesKept NodesSettle
CHECK_DEADLOCK FALSE
