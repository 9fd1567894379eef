SPECIFICATION FairSpec
CONSTANTS
  None = None
  Garbled = Garbled
  Blank = Blank
  Givens <- MCGivens
  Requests <- MCRequests
  MaxTime = 2
  MaxLaunches = 2
INVARIANTS
  TypeOK
  EveryStoreBuilt
  CapPositive
  AdmitsExactly
  AzureAsWritten
PROPERTIES
  BootEnds
\* After the last launch the process may end for good.
CHECK_DEADLOCK FALSE
