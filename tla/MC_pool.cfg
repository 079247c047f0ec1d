SPECIFICATION FairSpec
CONSTANTS
  NoUser = NoUser
  Nodes = {n1, n2}
  Users = {u1, u2}
INVARIANTS IInv MutualExclusion
PROPERTIES UsersProvisioned
