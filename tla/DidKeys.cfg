CONSTANTS
  alice = alice
  bob = bob
  carol = carol
  i1 = i1
  i2 = i2
  i3 = i3
  Agents = {alice, bob, carol}
  Instances = {i1, i2, i3}
  owner <- MCOwner
  OtherSeeds = {seed}
  Unknown = Unknown
  MaxAsserted = 1
SPECIFICATION Spec
INVARIANTS TypeOK OnlyGenuineVerifies ResolvedTogether
