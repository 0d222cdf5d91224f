\* A bill first due on the third day of a month, and a month of two days after it.
SPECIFICATION Spec
CONSTANTS
  FirstDay <- Calendar
  Limit = 4
  RateScale = 2
  BpsScale = 4
  MaxPeriods = 6
  MaxObligations = 2
  Today = 4
  Obligations <- OnlyDues
  Forms <- TwoForms
  Paths = 1
  PathRates = {2, 3}
  MinHistory = 1
  MaxObserved = 1
  MaxChanges = 1
INVARIANT MonthEndBillsStayInMonth
CHECK_DEADLOCK FALSE
