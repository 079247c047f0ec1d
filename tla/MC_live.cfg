SPECIFICATION FairSpec
CONSTANTS
  NoVM = NoVM
  VMs = {v1}
  Clients = {c1}
  Ops = {"delete", "deleteNow", "power"}
  MaxSeq = 3
  ClientSeqs = 2
  MaxRetries = 1
INVARIANT DueInv
PROPERTIES DestroyedWhenDue DeletionCompletes
