CONSTANTS
  Socket = {1}
  FdSetSize = 2
SPECIFICATION Spec
INVARIANT SetValuesAreReturned
