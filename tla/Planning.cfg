\* Two obligations, two forms, two changes; two months and a part of the third.
SPECIFICATION Spec
CONSTANTS
  FirstDay <- Calendar
  Limit = 4
  RateScale = 2
  BpsScale = 4
  MaxPeriods = 6
  MaxObligations = 2
  Today = 4
  Obligations <- RentAndLoan
  Forms <- TwoForms
  Paths = 1
  PathRates = {2, 3}
  MinHistory = 1
  MaxObserved = 1
  MaxChanges = 2
INVARIANTS TypeOK ShownFitsForm ScheduleHolds OptimalBeatsMonthly
PROPERTIES AsksForEveryBill AttemptEnds
CHECK_DEADLOCK FALSE
