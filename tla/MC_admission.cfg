SPECIFICATION Spec
CONSTANTS
  Clients = {c1, c2}
  Users = {u1, u2}
  VMIDs = {100, 101}
  Nodes = {1, 2}
  Found <- MCFound
  TemplateNode = 2
  CPULimit = 2
  MemoryLimit = 2
  DiskLimit = 2
  Sizes <- MCSizes
  GroupLimits <- MCLimits
  Memberships = {{"few"}, {"few", "weak"}}
SYMMETRY Symmetry
INVARIANTS IInv Balanced
PROPERTIES QuotaRespected
