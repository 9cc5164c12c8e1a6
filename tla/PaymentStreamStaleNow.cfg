CONSTANTS
  Now = Now
  MaxRecords = 3
  Others = {}
  PageSize = 2
  MaxFaults = 0
SPECIFICATION Spec
INVARIANT NoHoleBehindCursor
