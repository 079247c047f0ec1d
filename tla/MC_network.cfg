SPECIFICATION FairSpec
CONSTANTS
  VMs = {v1}
  Clients = {"writer", "deleter"}
  Ops <- MCRacing
  Users = {u1, u2}
  Names = {web}
  Limit = 1
  ForeignGroups = TRUE
  Restrictions = {TRUE}
  Rules = {"r1", "r2"}
  Uestc = "uestc"
  Contents <- MCContents
  Untouched <- MCUsed
  Addresses = {"a1"}
  Bridge = {"b"}
  Strange = {"x"}
  None = None
INVARIANTS IInv SyncedFirewall GroupKept
PROPERTY AppliesEnd
