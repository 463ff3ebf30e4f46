CONSTANTS
  Mac = {"m1"}
  Retention = 1
  DefaultLimit = 1
  MaxDay = 2
  MaxCount = 2
  MaxStarts = 2
SPECIFICATION FairSpec
INVARIANTS
  RowsKeepToTheirDate
  KeptForRetention
  PagesAreOldestFirst
PROPERTIES
  SavedGetsSnapshot
  OldRowsGo
