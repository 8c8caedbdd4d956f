CONSTANTS
  Names = {"n1"}
  NodeSpecs <- MCNodeSpecs
  InitNodes <- MCInitNodes
  Absent = Absent
  Config <- MCConfig
  DefaultName = "default"
  LBNames = {"default", "custom"}
  Versions = {1, 2}
  MaxLBs = 3
  Scenarios = {{"error", "restart", "lost", "delete", "node", "config", "ready", "disown", "clusterIP", "name", "drift"}}
  MaxDisturbances = 2
  Nil = Nil
SPECIFICATION Spec
INVARIANTS TypeOK OneLoadBalancer CreatedOnce FinalizerGuards
PROPERTY KeepsPromise
CHECK_DEADLOCK FALSE
