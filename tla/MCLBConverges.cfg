CONSTANTS
  Names = {"n1"}
  NodeSpecs <- MCNodeSpecs
  InitNodes <- MCInitNodes
  Absent = Absent
  Config <- MCConfig
  DefaultName = "default"
  LBNames = {"default", "custom"}
  Versions = {1, 2}
  MaxLBs = 3
  Scenarios = {{"error", "lost", "delete", "config", "ready", "disown", "clusterIP", "name"}, {"restart", "error", "lost", "delete", "ready", "disown", "clusterIP"}}
  MaxDisturbances = 2
  Nil = Nil
SPECIFICATION FairSpec
PROPERTY Convergence
CHECK_DEADLOCK FALSE
