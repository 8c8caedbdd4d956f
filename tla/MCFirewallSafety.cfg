CONSTANTS
  DefaultLBType = "REGIONAL_NETWORK"
  Absent = Absent
  BuildError = BuildError
  Nil = Nil
  Services = {"s1"}
  Specs <- MCSpecsThree
  ManagedName = "managed"
  OtherName = "other"
  Edits <- MCNoEdits
  UniqueNames = FALSE
  Scenarios = {{"service", "error", "timeout", "restart", "edit", "rename", "delete", "create"}}
  MaxDisturbances = 2
  MaxFirewalls = 6
SPECIFICATION Spec
INVARIANTS TypeOK NoLostWakeup KnownDriftIsScheduled
PROPERTY KeepsPromise
