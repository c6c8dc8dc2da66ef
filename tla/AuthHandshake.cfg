CONSTANTS
  Instances = {i1, i2}
  Subjects = {alice, bob}
  ScopeLists = {{read}, {write}}
  MaxClock = 2
  TTL = 1
  Shared = i1
  Scope = read
  MaxIssued = 3
  Peer <- MCPeer
SPECIFICATION ScenarioFairSpec
INVARIANT InstancesAgree
PROPERTIES RevokedIsNotGranted HandshakesComplete
