SPECIFICATION Spec
CONSTANTS
  Mondays <- RegularMondays
  WeekLength = 4
  Instants = {0, 1, 3, 4, 6, 8, 9, 11, 13}
  Instances = {i1}
  FxPairs = {p1, p2}
  Slots = {s1}
  MaxNews = 1
  MaxJobs = 1
  MaxCrashes = 1
  MaxFailures = 2
  Emails = {e1, e2}
  Addresses = {a1}
  EmailLimit = 2
  AddressLimit = 3
  Window = 2
  MaxTracked = 1
  MaxPending = 2
  MaxNow = 4
  MaxSignIns = 6
  Calls = {c1, c2}
  SharedKeys = {k1, k2}
  SettingKey = k1
  CacheSeconds = 2
  MaxClock = 3
  MaxBadReads = 1
INVARIANTS TypeOK CountedInItsWeek LimitsHold KeysAreCurrent
PROPERTIES PublishedIsSeen CallsAreAnswered
CHECK_DEADLOCK FALSE
