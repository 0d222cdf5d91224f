SPECIFICATION OneStudentSpec
CONSTANTS
  Students = {s1, s2}
  Collections = {"users", "shifts", "fx_alerts"}
  First = s1
  LastDay = 3
  Lookback = 1
  StaleAfter = 0
  Retries = 1
  MaxEvents = 3
INVARIANTS Consistent MartsHaveOwners FailsOnlyWhenEmptied RatesAreCurrent
PROPERTIES SnapshotIsFaithful HoursAreWhole
CHECK_DEADLOCK FALSE
