CONSTANTS
  Now = Now
  MaxRecords = 2
  Others = {}
  PageSize = 2
  MaxFaults = 1
SPECIFICATION FairSpec
PROPERTY NothingIsLost
