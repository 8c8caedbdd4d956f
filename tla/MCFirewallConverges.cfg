CONSTANTS
  DefaultLBType = "REGIONAL_NETWORK"
  Absent = Absent
  BuildError = BuildError
  Nil = Nil
  Services = {"s1"}
  Specs <- MCSpecsTwo
  ManagedName = "managed"
  OtherName = "other"
  Edits <- MCNoEdits
  UniqueNames = TRUE
  Scenarios = {{"service", "error", "timeout", "restart", "edit"}, {"delete", "error"}, {"service", "error", "restart", "stop"}}
  MaxDisturbances = 3
  MaxFirewalls = 6
SPECIFICATION FairSpec
PROPERTIES Convergence StopEndsBoth
CHECK_DEADLOCK FALSE
