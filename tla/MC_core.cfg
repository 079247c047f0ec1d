SPECIFICATION Spec
CONSTANTS
  NoVM = NoVM
  VMs = {v1}
  Clients = {c1}
  Ops = {"patch", "delete", "restore", "deleteNow", "retry", "pause", "resume"}
  MaxSeq = 3
  ClientSeqs = 2
  MaxRetries = 1
INVARIANTS TypeOK SerialExecution NoOrphan SyncedVMExists IInv
PROPERTIES RetryBudget QueuesAreSerial
