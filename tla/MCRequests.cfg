CONSTANTS
  InitialServices <- MCInitialServices
  Values <- MCValues
  CertificateNames = {"name", "gone"}
  MaxEdits = 1
  Int32Half = 131072
  DefaultLBType = "REGIONAL_NETWORK"
  Absent = Absent
  BuildError = BuildError
SPECIFICATION Spec
INVARIANTS LoopAsSpecified HealthPortRestricted TLSAsConfigured BackendsReachable WebhookAgrees OwnWritesAdmitted
PROPERTY RepairAdmitted
CHECK_DEADLOCK FALSE
