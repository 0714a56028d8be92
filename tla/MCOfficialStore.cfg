SPECIFICATION Spec
CONSTANTS
  Clients = {c1, c2}
  Jobs = {j1}
  MaxId = 3
  MaxTime = 1
  Ttls = {1}
  Sizes = {1, 2}
  InputCap = 3
  ArtifactCap = 4
  MetaCap = 5
  JobBudget = 3
  Outputs = 2
  Digests = {d1, d2}
  NoDigest = NoDigest
SYMMETRY ClientSymmetry
INVARIANTS
  PoolsBalanced
  PublicationAlwaysFits
  EntriesSound
PROPERTIES
  ContentImmutable
