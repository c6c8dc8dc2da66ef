CONSTANTS
  Agents = {a1, a2, a3}
  Sellers = {a1, a3}
  Features = {sell_data}
  Offer = sell_data
  Subscribers = {s1}
  Conformant <- MCConformant
  MaxTouched = 1
  MaxRegistrations = 4
SPECIFICATION ScenarioFairSpec
CHECK_DEADLOCK FALSE
INVARIANTS TypeOK LatestCardServed QueuesListedWhileRunning CaughtUpSeesLatest
PROPERTIES ImplementsFeed EachCardHandedOver SellersDiscovered
