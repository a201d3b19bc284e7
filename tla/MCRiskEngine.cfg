SPECIFICATION Spec
CONSTANTS
  first = first
  again = again
  other = other
  bookFirst = bookFirst
  rebookFirst = rebookFirst
  bookOther = bookOther
  Accepts = {first, again, other}
  RfqOf <- MCRfqOf
  AccountOf <- MCAccountOf
  Notional <- MCNotional
  Cap = 2
  Updates = {bookFirst, rebookFirst, bookOther}
  ExecutionOf <- MCExecutionOf
  GrantOf <- MCGrantOf
  WithToken = {"e1"}
  Opened = {"acct"}
  MaxAttempts = 1
  LockOutlives = TRUE
  MaxFaults = 1
  Free = Free
  NoRow = NoRow
CHECK_DEADLOCK FALSE
INVARIANTS ExposureIsBooked
PROPERTIES ImplementsReservations GrantIsWithinCap
