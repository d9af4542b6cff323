SPECIFICATION FairSpec
CONSTANTS
  Registered = {"fake", "vast"}
  Rates = {0}
  GpuCounts = {1}
  JobCaps = {}
  StudioCap = 500
  NoCap = NoCap
  MaxFaults = 0
  Followed = {"fake", "vast"}
  MaxStat = 3
  Mixed = Mixed
CHECK_DEADLOCK FALSE
PROPERTY RentalEnds
