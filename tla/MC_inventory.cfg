SPECIFICATION FairSpec
CONSTANTS
  Clients = {c1, c2}
  StartVMID = 1
  Limit = 2
  StartIP <- MCStartIP
  Strangers = {1}
  Chosen <- MCChosen
  MaxBirths = 2
  Absent = Absent
INVARIANTS IInv DerivedAddresses ScannedKept
PROPERTIES ManagedNotSwept InventoryConverges
