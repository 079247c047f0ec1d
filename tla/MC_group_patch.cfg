SPECIFICATION Spec
CONSTANTS
  VMs = {v1}
  Clients = {"c1"}
  Ops <- MCAnyOp
  Users = {u1}
  Names = {web}
  Limit = 1
  ForeignGroups = FALSE
  Restrictions = {TRUE}
  Rules = {"r1", "r2"}
  Uestc = "uestc"
  Contents <- MCContents
  Untouched <- MCUntouched
  Addresses = {"a1"}
  Bridge = {"b"}
  Strange = {"x"}
  None = None
INVARIANTS PendingHasTask
