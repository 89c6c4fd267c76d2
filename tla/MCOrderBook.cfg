SPECIFICATION Spec
CONSTANTS
  OutlierFactor = 3
  MaxInt = 9
  Ladders = {{1, 4, 5, 10}, {3, 4, 5, 6}}
  Amounts = {1, 4}
  Books <- AscendingBooks
  Limits = {0, 1, 2, 3, 7}
  DefaultLimit = 2
  MaxLimit = 3
CHECK_DEADLOCK FALSE
INVARIANTS TypeOK BestFirst TopOfBook CumulativeHonest AtMostTwiceLimit
