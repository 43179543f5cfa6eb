CONSTANTS
  MaxUnits <- MCMaxUnits
  Growth <- MCGrowth
  EXACT_BINS = 2
  LOG_BINS = 3
  Requests <- MCRequests
SPECIFICATION Spec
INVARIANT HeapValid
PROPERTIES ImplementsAllocator GrowsIfNeeded
