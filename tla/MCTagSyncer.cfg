CONSTANTS
  Services = {"s1", "s2", "s3"}
  Absent = Absent
  MaxLBs = 5
  PerPage = 1
  Disturbances = {"error", "service", "untag", "tag"}
  MaxDisturbances = 4
SPECIFICATION Spec
INVARIANT TypeOK
PROPERTIES OnlyReferred AllTagged
