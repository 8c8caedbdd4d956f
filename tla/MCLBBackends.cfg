CONSTANTS
  Names = {"n1", "n2"}
  NodeSpecs <- MCNodes
  Configs <- MCConfigs
  Absent = Absent
  MaxChanges = 2
SPECIFICATION Spec
INVARIANT TypeOK
PROPERTIES BackendsNeverEmpty DualStackOnlyOnDualNodes NoNodeForgotten AttachedStay ServingNodesAttached
CHECK_DEADLOCK FALSE
