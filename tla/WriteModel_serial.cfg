SPECIFICATION FairSpec
CONSTANTS
  w1 = w1
  w2 = w2
  None = None
  Workers = {w1, w2}
  Deliveries <- MCDeliveries
  Program <- MCProgram
  SourceTime <- MCSourceTime
  MaxTries = 3
CHECK_DEADLOCK FALSE
INVARIANTS LastEventIsRow ReviewersResolved NoneRejected IInv
PROPERTIES VisibleInIdOrder AppliedSerially EveryTxEnds
