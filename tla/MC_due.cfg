SPECIFICATION Spec
CONSTANTS
  NoVM = NoVM
  VMs = {v1}
  Clients = {c1}
  Ops = {"delete", "restore", "deleteNow"}
  MaxSeq = 4
  ClientSeqs = 4
  MaxRetries = 1
PROPERTIES DestroyedWhenDue
