CONSTANTS
  v1 = v1
  v2 = v2
  Values = {v1, v2}
  Procs = {1, 2}
  Instances = {11, 12, 13, 14}
  None = None
  MaxRecords = 2
  MaxToken = 5
  MaxAttempts = 3
  MaxRetained = 2
  MaxPhysicalInstances = 3
SPECIFICATION FairSnapshotSpec
INVARIANTS
  RecoveryIsSound
PROPERTIES
  ImplementsRegister
  RecoveryCompletes
