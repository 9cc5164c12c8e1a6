CONSTANTS
  Now = Now
  MaxRecords = 4
  Others = {3}
  PageSize = 2
  MaxFaults = 1
SPECIFICATION FairSpec
INVARIANTS
  TypeOK
  DispatchedOnce
  CursorSkipsNothing
  EventsAccounted
PROPERTY OnlyInterruptedEventsAreLost
