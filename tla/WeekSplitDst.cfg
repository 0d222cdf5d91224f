\* Expected to be violated: in the week clocks go back, the loop stands still.
SPECIFICATION SplitFairSpec
CONSTANTS
  Mondays <- FallBackMondays
  WeekLength = 4
  Instants = {1, 3, 4, 6, 8, 9, 11, 13}
PROPERTY SplitReturns
CHECK_DEADLOCK FALSE
