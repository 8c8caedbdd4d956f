CONSTANTS
  Names = {"n1"}
  NodeSpecs <- MCReady
  InitNodes <- MCInitNodes
  Absent = Absent
  Config <- MCConfig
  DefaultName = "default"
  LBNames = {"default"}
  Versions = {1, 2}
  MaxLBs = 3
  Scenarios = {{"config", "restart"}}
  MaxDisturbances = 2
  Nil = Nil
SPECIFICATION FairSpec
PROPERTY Convergence
CHECK_DEADLOCK FALSE
