SPECIFICATION Spec
CONSTANTS
  MaxSamples = 2
  MaxRetries = 3
  Beat = 3
  MaxDrops = 2
  MaxOutages = 1
  MaxLate = 1
  MaxCrash = 1
  MaxStops = 1
INVARIANT TypeOK
PROPERTY NothingDroppedAlive
PROPERTY DeliveredInTheEnd
PROPERTY PublisherReturns
PROPERTY StatusCatchesUp
