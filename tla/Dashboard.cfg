\* A browser tab and three more events: clicks, faults, midnights, visits.
SPECIFICATION OneNewSpec
CONSTANTS
  Deadlines = {d1}
  Alerts = {a1}
  Obligations = {o1}
  DueOn <- Due
  DueSoonDays = 0
  Slots = {1, 2}
  LastDay = 2
  MaxEvents = 3
INVARIANTS Consistent FreshAtRest SeenStays
PROPERTIES FiredIsShown
CHECK_DEADLOCK FALSE
