\* Two record calls that may carry the same observation, out of order, beside an
\* alert and a read-through of the cache.
SPECIFICATION FairSpec
CONSTANTS
  Deliveries = {d1, d2}
  Readers = {r1}
  Alerts = {a1}
  Pairs = {p1}
  Times = {1, 2}
  Rates = {1, 2}
  RedisMayFail = TRUE
INVARIANTS Inductive OneRowPerObservation NoMissedAlert FiredOnRecordedRate
PROPERTIES KeepsContract OwedIsSettled
CHECK_DEADLOCK FALSE
