SPECIFICATION Spec
CONSTANTS
  MaxTasks = 2
  MaxStores = 2
INVARIANTS
  TypeOK
  FileKeepsUp
  ReportsFindRecords
PROPERTIES
  LedgerKept
