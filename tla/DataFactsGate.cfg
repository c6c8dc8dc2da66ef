CONSTANTS
  Agents = {alice, bob}
  Peer <- MCPeer
  FirstBody = b1
  Names = {alice, bob}
  Owners = {alice, bob}
  Bodies = {b1}
  Requesters = {alice, bob, carol}
  Objects = {alice, bob}
  Nothing = Nothing
  MaxCalls = 4
  MaxGrants = 2
SPECIFICATION ScenarioFairSpec
CHECK_DEADLOCK FALSE
INVARIANTS ServedAsSigned AccessAttested
PROPERTIES FetchedGrantsAttributable AccessedUnlessTampered
