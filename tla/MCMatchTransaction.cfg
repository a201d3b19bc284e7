SPECIFICATION Spec
CONSTANTS
  x1 = x1
  x2 = x2
  x3 = x3
  x4 = x4
  ann = ann
  bob = bob
  None = None
  Txs = {x1, x2, x3, x4}
  Makers = {1, 2}
  Takers = {3, 4, 5}
  Order <- Crossed
  TakerOf <- MCTakerOf
  MakerOf <- MCMakerOf
  Wanted <- MCWanted
  One = 10
CHECK_DEADLOCK FALSE
INVARIANTS ExposureIsSumOfTrades
PROPERTIES TransactionEnds ImplementsLedger
