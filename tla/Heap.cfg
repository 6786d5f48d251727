SPECIFICATION HeapSpec
CONSTANTS
  Keys <- MCKeys
  CAPACITY = 2
  NoJob = NoJob
  MaxAdds = 7
INVARIANTS
  HeapTypeOK
PROPERTY
  ImplementsPriorityBag
