CONSTANTS
  Rule = {"a", "b"}
  Mac = {"m1"}
  Backends = {"sqlite", "memory"}
  Filters <- SomeFilters
  MaxInserts = 3
  MaxTime = 2
  MaxStarts = 2
SPECIFICATION Spec
INVARIANTS
  AnswerWasTrue
  IdsKeepTheirMeaning
  ListShowsMostRecent
CHECK_DEADLOCK FALSE
