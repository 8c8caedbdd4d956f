CONSTANTS
  DefaultLBType = "REGIONAL_NETWORK"
  Absent = Absent
  BuildError = BuildError
  Nil = Nil
  Services = {"s1"}
  Specs <- MCSpecsTwo
  ManagedName = "managed"
  OtherName = "other"
  Edits <- MCNoEdits
  UniqueNames = TRUE
  Scenarios = {{"service", "delete"}}
  MaxDisturbances = 4
  MaxFirewalls = 6
SPECIFICATION FairSpec
PROPERTY Convergence
