SPECIFICATION FairSpec
CONSTANTS
  Registered = {"fake", "vast", "aws_ec2"}
  Rates = {0, 1000, 3000}
  GpuCounts = {1, 2}
  JobCaps = {0, 100, 900}
  StudioCap = 500
  NoCap = NoCap
  MaxFaults = 1
  Followed = {"vast"}
  MaxStat = 4
  Mixed = Mixed
CHECK_DEADLOCK FALSE
INVARIANTS RentedIsRecorded UnrentedIsFailed OneRunner OlderUnharmed
  ManifestBacked FlushedAtEnd
PROPERTY ClaimSettles
