CONSTANTS
  Sellers = {s1, s2, s3}
  Buyers = {b1, b2}
  Bodies = {v1, v2}
  FirstBody = v1
  Nothing = Nothing
  MaxEdits = 2
SPECIFICATION FairSpec
CHECK_DEADLOCK FALSE
INVARIANTS AllOrNothing ReputationIsSales
PROPERTIES ImplementsPurchases RoundsEnd
