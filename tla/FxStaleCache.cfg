\* Expected to be violated: two puts reach a Redis that answers every call in
\* another order than their observations were made, and latest answers the
\* older number.
SPECIFICATION FairSpec
CONSTANTS
  Deliveries = {d1, d2}
  Readers = {r1}
  Alerts = {}
  Pairs = {p1}
  Times = {1, 2}
  Rates = {1, 2}
  RedisMayFail = FALSE
PROPERTY AnswersNewestAtRest
CHECK_DEADLOCK FALSE
