SPECIFICATION FairSpec
CONSTANTS
  Nodes = {n1, n2}
  TemplateNode = n1
  TargetNode = n2
  Storages = {ssd, hdd}
  TPM = ssd
  TemplateDisk = 1
  Disks = {2, 3}
  Powers = {"running", "stopped"}
  Attempts = 2
  Adopted <- MCAdopted
INVARIANTS IInv DoneAsAsked DiskWithin
PROPERTIES AttemptsEnd
