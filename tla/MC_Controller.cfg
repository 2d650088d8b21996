\* Three addresses in two banks, queues of two requests.
CONSTANTS
  a1 = a1
  a2 = a2
  a3 = a3
  Addrs = {a1, a2, a3}
  Requests <- SomeOfEach
  BankOf <- TwoBanks
  RowOf <- TwoRows
  NoRow = NoRow
  SchedulerTypes = {"FCFS", "FRFCFS"}
  PolicyTypes = {"ClosedAP", "Timeout"}
  QueueMax = 2
  HighMark = 1
  LowMark = 1
  ReadLatency = 2
  MaxPending = 1
SPECIFICATION FairSpec
INVARIANTS
  TypeOK
  RowTableAgrees
  ActivatesUsed
  ScheduledInOrder
  ServingCounted
PROPERTY QueuesDrain
