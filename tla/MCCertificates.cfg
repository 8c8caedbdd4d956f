CONSTANTS
  CertNames = {"web", "shop", "own"}
  LetsEncrypt = {"web", "shop"}
  MaxIDs = 5
  Scenarios = {{"error", "event", "edit", "renew"}, {"error", "event", "edit", "renewKept"}}
  MaxDisturbances = 3
SPECIFICATION FairSpec
INVARIANT TypeOK
PROPERTIES ChoiceKept NameStaysInCharge UpdateAsAsked CertificatesConverge
CHECK_DEADLOCK FALSE
